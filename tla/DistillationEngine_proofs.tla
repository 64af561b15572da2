----------------------- MODULE DistillationEngine_proofs -----------------------
(***************************************************************************)
(* Proofs about DistillationEngine and the corpus it has built, for any    *)
(* labels and datasets, any numbers of samples, texts and requests, any    *)
(* size of the pool, and whatever the teacher answers.                     *)
(***************************************************************************)
EXTENDS DistillationEngine, FiniteSetTheorems, TLAPS

-----------------------------------------------------------------------------
(* Induction, without an operator as a parameter.                          *)

LEMMA InductiveSet ==
  ASSUME NEW T \in SUBSET Nat, 0 \in T, \A n \in T : n + 1 \in T
  PROVE  T = Nat
  <1> DEFINE R == OpToRel(<, Nat)
  <1>1. IsWellFoundedOn(R, Nat)
    BY NatLessThanWellFounded
  <1>2. SUFFICES ASSUME Nat \ T # {}
                 PROVE  FALSE
    OBVIOUS
  <1>3. \A x, y \in Nat : <<y, x>> \in R <=> y < x
    BY DEF OpToRel
  <1> HIDE DEF R
  <1>4. PICK x \in Nat \ T : \A y \in Nat \ T : ~ (<<y, x>> \in R)
    <2>1. Nat \ T \subseteq Nat
      OBVIOUS
    <2>2. QED
      BY <1>1, <1>2, <2>1, WFMin
  <1>5. x # 0 /\ x - 1 \in Nat /\ x - 1 < x /\ (x - 1) + 1 = x
    OBVIOUS
  <1>6. x - 1 \in T
    BY <1>3, <1>4, <1>5
  <1>7. QED
    BY <1>5, <1>6

-----------------------------------------------------------------------------
(* Sets in ascending order.                                                *)

\* How many elements of S lie before x.
Before(S, x) == {y \in S : y < x}

LEMMA BeforeType ==
  ASSUME NEW S \in SUBSET Int, IsFiniteSet(S), NEW x \in S
  PROVE  IsFiniteSet(Before(S, x)) /\ Cardinality(Before(S, x)) \in 0 .. Cardinality(S) - 1
  <1>1. Before(S, x) \in SUBSET S /\ x \notin Before(S, x)
    BY DEF Before
  <1>2. /\ IsFiniteSet(Before(S, x)) /\ Cardinality(Before(S, x)) <= Cardinality(S)
        /\ Cardinality(Before(S, x)) # Cardinality(S)
    BY <1>1, FS_Subset
  <1>3. Cardinality(Before(S, x)) \in Nat /\ Cardinality(S) \in Nat
    BY <1>2, FS_CardinalityType
  <1>4. QED
    BY <1>2, <1>3

LEMMA BeforeGrows ==
  ASSUME NEW S \in SUBSET Int, IsFiniteSet(S), NEW x \in S, NEW y \in S, x < y
  PROVE  Cardinality(Before(S, x)) < Cardinality(Before(S, y))
  <1>1. Before(S, x) \in SUBSET Before(S, y) /\ x \in Before(S, y) /\ x \notin Before(S, x)
    <2>1. \A z \in S : z < x => z < y
      OBVIOUS
    <2>2. ~(x < x)
      OBVIOUS
    <2>3. QED
      BY <2>1, <2>2 DEF Before
  <1>2. IsFiniteSet(Before(S, x)) /\ IsFiniteSet(Before(S, y))
    BY BeforeType
  <1>3. Cardinality(Before(S, x)) \in Nat /\ Cardinality(Before(S, y)) \in Nat
    BY <1>2, FS_CardinalityType
  <1>4. /\ Cardinality(Before(S, x)) <= Cardinality(Before(S, y))
        /\ Cardinality(Before(S, x)) # Cardinality(Before(S, y))
    BY <1>1, <1>2, FS_Subset
  <1>5. QED
    BY <1>3, <1>4

\* Every number below the size of S is that of the elements before some element.
LEMMA BeforeTakesAll ==
  ASSUME NEW S \in SUBSET Int, IsFiniteSet(S), NEW n \in 0 .. Cardinality(S) - 1
  PROVE  \E x \in S : Cardinality(Before(S, x)) = n
  <1> DEFINE f == [x \in S |-> Cardinality(Before(S, x))]
             T == 0 .. Cardinality(S) - 1
  <1>1. Cardinality(S) \in Nat
    BY FS_CardinalityType
  <1>2. f \in [S -> T]
    BY BeforeType
  <1>3. ASSUME NEW x \in S, NEW y \in S, f[x] = f[y]
        PROVE  x = y
    <2>1. Cardinality(Before(S, x)) \in Int /\ Cardinality(Before(S, y)) \in Int
      BY BeforeType
    <2>2. x < y \/ y < x \/ x = y
      OBVIOUS
    <2>3. Cardinality(Before(S, x)) = Cardinality(Before(S, y))
      BY <1>3
    <2>4. QED
      BY <2>1, <2>2, <2>3, BeforeGrows
  <1>4. IsFiniteSet(T) /\ Cardinality(T) = Cardinality(S)
    <2>1. 0 \in Int /\ Cardinality(S) - 1 \in Int
      BY <1>1
    <2>2. IsFiniteSet(T) /\ Cardinality(T) = IF 0 > Cardinality(S) - 1 THEN 0
                                             ELSE (Cardinality(S) - 1) - 0 + 1
      BY <2>1, FS_Interval
    <2>3. QED
      BY <1>1, <2>2
  <1> HIDE DEF f, T
  <1>5. f \in Injection(S, T)
    BY <1>2, <1>3 DEF Injection, IsInjective
  <1>6. f \in Surjection(S, T)
    BY <1>4, <1>5, FS_Injection
  <1>7. \E x \in S : f[x] = n
    BY <1>6 DEF Surjection, T
  <1>8. QED
    BY <1>7 DEF f

Ascends(s) == \A i, j \in DOMAIN s : i < j => s[i] < s[j]

\* The elements of a finite set can be put in ascending order, and then the i-th
\* has i - 1 before it.
LEMMA SortedType ==
  ASSUME NEW S \in SUBSET Int, IsFiniteSet(S)
  PROVE  /\ Sorted(S) \in [1 .. Cardinality(S) -> S] /\ Sorted(S) \in Seq(S)
         /\ Len(Sorted(S)) = Cardinality(S) /\ Cardinality(S) \in Nat
         /\ Ascends(Sorted(S))
  <1> DEFINE n == Cardinality(S)
             s == [i \in 1 .. n |-> CHOOSE x \in S : Cardinality(Before(S, x)) = i - 1]
  <1>1. n \in Nat
    BY FS_CardinalityType
  <1>2. \A i \in 1 .. n : s[i] \in S /\ Cardinality(Before(S, s[i])) = i - 1
    <2>1. SUFFICES ASSUME NEW i \in 1 .. n
                   PROVE  s[i] \in S /\ Cardinality(Before(S, s[i])) = i - 1
      OBVIOUS
    <2>2. i - 1 \in 0 .. Cardinality(S) - 1
      BY <1>1
    <2>3. \E x \in S : Cardinality(Before(S, x)) = i - 1
      BY <2>2, BeforeTakesAll
    <2>4. QED
      BY <2>3
  <1>3. s \in [1 .. n -> S] /\ DOMAIN s = 1 .. n
    BY <1>2
  <1> HIDE DEF s
  <1>4. Ascends(s)
    <2>1. SUFFICES ASSUME NEW i \in 1 .. n, NEW j \in 1 .. n, i < j
                   PROVE  s[i] < s[j]
      BY <1>3 DEF Ascends
    <2>2. s[i] \in S /\ s[j] \in S /\ s[i] \in Int /\ s[j] \in Int
      BY <1>2
    <2>3. Cardinality(Before(S, s[i])) = i - 1 /\ Cardinality(Before(S, s[j])) = j - 1
      BY <1>2
    <2>4. i - 1 # j - 1 /\ ~(j - 1 < i - 1)
      BY <1>1, <2>1
    <2>5. s[i] # s[j] /\ ~(s[j] < s[i])
      BY <2>2, <2>3, <2>4, BeforeGrows
    <2>6. QED
      BY <2>2, <2>4, <2>5
  <1>5. Sorted(S) \in [1 .. n -> S] /\ \A i, j \in DOMAIN Sorted(S) : i < j => Sorted(S)[i] < Sorted(S)[j]
    BY <1>3, <1>4 DEF Ascends, Sorted
  <1>6. QED
    BY <1>1, <1>5 DEF Ascends

\* An ascending sequence of all the elements of S has each at its place.
LEMMA SortedPlace ==
  ASSUME NEW S \in SUBSET Int, IsFiniteSet(S), NEW x \in S
  PROVE  LET i == Cardinality(Before(S, x)) + 1
         IN  i \in 1 .. Cardinality(S) /\ Sorted(S)[i] = x
             /\ \A j \in DOMAIN Sorted(S) : Sorted(S)[j] = x => j = i
  <1> DEFINE s == Sorted(S)
             n == Cardinality(S)
  <1>1. s \in [1 .. n -> S] /\ Ascends(s) /\ n \in Nat
    BY SortedType
  <1> HIDE DEF s
  <1>2. \A i, j \in 1 .. n : s[i] = s[j] => i = j
    <2>1. SUFFICES ASSUME NEW i \in 1 .. n, NEW j \in 1 .. n, s[i] = s[j], i # j
                   PROVE  FALSE
      OBVIOUS
    <2>2. s[i] \in Int /\ s[j] \in Int /\ (i < j => s[i] < s[j]) /\ (j < i => s[j] < s[i])
      BY <1>1 DEF Ascends
    <2>3. QED
      BY <1>1, <2>1, <2>2
  <1>3. IsFiniteSet(1 .. n) /\ Cardinality(1 .. n) = n
    BY <1>1, FS_Interval
  <1>4. s \in Injection(1 .. n, S)
    BY <1>1, <1>2 DEF Injection, IsInjective
  <1>5. s \in Surjection(1 .. n, S)
    BY <1>3, <1>4, FS_Injection
  <1>6. PICK k \in 1 .. n : s[k] = x
    BY <1>5 DEF Surjection
  <1>7. Cardinality(Before(S, x)) = k - 1
    <2> DEFINE g == [i \in 1 .. k - 1 |-> s[i]]
    <2>1. IsFiniteSet(1 .. k - 1) /\ Cardinality(1 .. k - 1) = k - 1
      <3>1. k \in Int /\ k - 1 \in Int /\ 1 \in Int /\ k >= 1
        BY <1>1
      <3>2. /\ IsFiniteSet(1 .. k - 1)
            /\ Cardinality(1 .. k - 1) = IF 1 > k - 1 THEN 0 ELSE (k - 1) - 1 + 1
        BY <3>1, FS_Interval
      <3>3. QED
        BY <3>1, <3>2
    <2>2. g \in [1 .. k - 1 -> Before(S, x)]
      <3>1. SUFFICES ASSUME NEW i \in 1 .. k - 1
                     PROVE  s[i] \in S /\ s[i] < x
        BY DEF Before
      <3>2. i \in 1 .. n /\ i < k
        BY <1>1
      <3>3. QED
        BY <1>1, <1>6, <3>2 DEF Ascends
    <2>3. \A i, j \in 1 .. k - 1 : g[i] = g[j] => i = j
      BY <1>1, <1>2
    <2>4. \A y \in Before(S, x) : \E i \in 1 .. k - 1 : g[i] = y
      <3>1. SUFFICES ASSUME NEW y \in Before(S, x)
                     PROVE  \E i \in 1 .. k - 1 : g[i] = y
        OBVIOUS
      <3>2. y \in S /\ y < x
        BY DEF Before
      <3>3. PICK i \in 1 .. n : s[i] = y
        BY <1>5, <3>2 DEF Surjection
      <3>4. i < k
        <4>1. i # k /\ ~(k < i)
          BY <1>1, <1>6, <3>2, <3>3 DEF Ascends
        <4>2. QED
          BY <1>1, <4>1
      <3>5. i \in 1 .. k - 1
        BY <1>1, <3>4
      <3>6. QED
        BY <3>3, <3>5
    <2> HIDE DEF g
    <2>5. g \in Bijection(1 .. k - 1, Before(S, x))
      BY <2>2, <2>3, <2>4 DEF Bijection, Injection, Surjection, IsInjective
    <2>6. QED
      BY <2>1, <2>5, FS_Bijection DEF ExistsBijection
  <1>8. QED
    BY <1>1, <1>2, <1>6, <1>7 DEF s

-----------------------------------------------------------------------------
(* The requests of a build.                                                *)

LEMMA Division ==
  ASSUME NEW a \in Nat, NEW b \in Nat \ {0}
  PROVE  /\ a \div b \in Nat /\ a % b \in 0 .. b - 1
         /\ a = ((a \div b) * b) + (a % b)
         /\ (a \div b) * b <= a /\ a < (a \div b) * b + b
  OBVIOUS

\* A product of numbers does not get smaller with its factors.
LEMMA Products ==
  ASSUME NEW a \in Nat, NEW b \in Nat, NEW c \in Nat
  PROVE  /\ a * b \in Nat
         /\ a <= b => a * c <= b * c
         /\ a < b => a * c + c <= b * c
         /\ a * c < b * c => a < b
  OBVIOUS

LEMMA Ceiling ==
  ASSUME NEW a \in Nat \ {0}, NEW b \in Nat \ {0}
  PROVE  /\ CeilDiv(a, b) \in Nat \ {0}
         /\ a <= CeilDiv(a, b) * b
         /\ CeilDiv(a, b) * b < a + b
  <1>1. a + b - 1 \in Nat
    OBVIOUS
  <1> DEFINE q == (a + b - 1) \div b
  <1>2. q \in Nat /\ q * b <= a + b - 1 /\ a + b - 1 < q * b + b
    BY <1>1, Division
  <1> HIDE DEF q
  <1>3. q # 0
    BY <1>2
  <1>4. QED
    BY <1>2, <1>3 DEF CeilDiv, q

LEMMA Numbers ==
  /\ Len(Labels) \in Nat \ {0} /\ Labels \in [1 .. Len(Labels) -> STRING]
  /\ PerLabel \in Nat \ {0} /\ RequestsPerLabel \in Nat \ {0}
  /\ NumSamples <= PerLabel * Len(Labels)
  /\ PerLabel <= RequestsPerLabel * GenBatch
  /\ Cardinality(Texts) \in Nat \ {0} /\ IsFiniteSet(Texts) /\ Texts = 1 .. Cardinality(Texts)
  /\ NumSamples \in Nat \ {0} /\ GenBatch \in Nat \ {0} /\ LabelBatch \in Nat \ {0}
  <1>1. /\ Labels \in Seq(STRING) /\ Labels # <<>>
        /\ NumSamples \in Nat \ {0} /\ NumTexts \in Nat \ {0}
        /\ GenBatch \in Nat \ {0} /\ LabelBatch \in Nat \ {0}
    BY DatasetAssumption
  <1>2. Len(Labels) \in Nat \ {0} /\ Labels \in [1 .. Len(Labels) -> STRING]
    BY <1>1
  <1>3. PerLabel \in Nat \ {0} /\ NumSamples <= PerLabel * Len(Labels)
    BY <1>1, <1>2, Ceiling DEF PerLabel
  <1>4. RequestsPerLabel \in Nat \ {0} /\ PerLabel <= RequestsPerLabel * GenBatch
    BY <1>1, <1>3, Ceiling DEF RequestsPerLabel
  <1> DEFINE n == IF NumTexts < NumSamples THEN NumTexts ELSE NumSamples
  <1>5. n \in Nat \ {0} /\ Texts = 1 .. n
    BY <1>1 DEF Texts
  <1> HIDE DEF n
  <1>6. IsFiniteSet(Texts) /\ Cardinality(Texts) = n
    BY <1>5, FS_Interval
  <1>7. QED
    BY <1>1, <1>2, <1>3, <1>4, <1>5, <1>6

\* There are requests, one after the other.
LEMMA Tasks ==
  /\ IsFiniteSet(Task) /\ Cardinality(Task) \in Nat \ {0} /\ Task = 1 .. Cardinality(Task)
  /\ mode = "generate" => Cardinality(Task) = Len(Labels) * RequestsPerLabel
  /\ mode # "generate" => Cardinality(Task) = CeilDiv(Cardinality(Texts), LabelBatch)
  <1> DEFINE n == IF mode = "generate" THEN Len(Labels) * RequestsPerLabel
                                       ELSE CeilDiv(Cardinality(Texts), LabelBatch)
  <1>1. n \in Nat \ {0}
    <2>1. Len(Labels) * RequestsPerLabel \in Nat \ {0}
      <3> DEFINE a == Len(Labels)
                 b == RequestsPerLabel
      <3>1. a \in Nat \ {0} /\ b \in Nat \ {0}
        BY Numbers
      <3> HIDE DEF a, b
      <3>2. a * b \in Nat \ {0}
        BY <3>1
      <3>3. QED
        BY <3>2 DEF a, b
    <2>2. CeilDiv(Cardinality(Texts), LabelBatch) \in Nat \ {0}
      BY Numbers, Ceiling
    <2>3. QED
      BY <2>1, <2>2
  <1>2. Task = 1 .. n
    BY DEF Task
  <1> HIDE DEF n
  <1>3. IsFiniteSet(Task) /\ Cardinality(Task) = n
    BY <1>1, <1>2, FS_Interval
  <1>4. QED
    BY <1>1, <1>2, <1>3 DEF n

\* Every request of a generation is for one of the labels.
LEMMA LabelOfType ==
  ASSUME mode = "generate", NEW t \in Task
  PROVE  LabelOf(t) \in ToSet(Labels) /\ (t - 1) \div RequestsPerLabel \in 0 .. Len(Labels) - 1
         /\ CountOf(t) \in Int
  <1> DEFINE R == RequestsPerLabel
             L == Len(Labels)
             q == (t - 1) \div R
  <1>1. R \in Nat \ {0} /\ L \in Nat \ {0} /\ t - 1 \in Nat /\ t - 1 < L * R
    BY Numbers, Tasks
  <1>2. q \in Nat /\ q * R <= t - 1 /\ (t - 1) % R \in Nat
    <2> HIDE DEF R, L
    <2>1. (t - 1) % R \in 0 .. R - 1 /\ q \in Nat /\ q * R <= t - 1
      BY <1>1, Division
    <2>2. QED
      BY <1>1, <2>1
  <1> HIDE DEF q, R, L
  <1>3. q * R < L * R
    BY <1>1, <1>2
  <1>4. q < L
    BY <1>1, <1>2, <1>3, Products
  <1>5. q + 1 \in 1 .. L
    BY <1>1, <1>2, <1>4
  <1>6. LabelOf(t) = Labels[q + 1]
    BY DEF LabelOf, q, R
  <1>7. q + 1 \in DOMAIN Labels
    BY <1>5, Numbers DEF L
  <1>8. LabelOf(t) \in ToSet(Labels)
    BY <1>6, <1>7 DEF ToSet
  <1>9. CountOf(t) \in Int
    BY <1>2, Numbers DEF CountOf, R
  <1>10. QED
    BY <1>2, <1>4, <1>8, <1>9, <1>1 DEF q, R, L

-----------------------------------------------------------------------------
(* Typing of the build.                                                    *)

\* What a request returns.
LEMMA GeneratedType ==
  ASSUME mode = "generate", NEW t \in Task, NEW n \in 0 .. CountOf(t) + MaxExtra
  PROVE  /\ Generated(t, n) \in Seq(Row) /\ Len(Generated(t, n)) = n
         /\ \A i \in 1 .. n : Generated(t, n)[i].text = 0 /\ Generated(t, n)[i].label \in ToSet(Labels)
  <1>1. n \in Nat
    BY LabelOfType, DatasetAssumption
  <1>2. LabelOf(t) \in STRING /\ LabelOf(t) \in ToSet(Labels)
    <2>1. LabelOf(t) \in ToSet(Labels)
      BY LabelOfType
    <2>2. ToSet(Labels) \subseteq STRING
      BY Numbers DEF ToSet
    <2>3. QED
      BY <2>1, <2>2
  <1>3. [text |-> 0, label |-> LabelOf(t)] \in Row
    BY <1>2 DEF Row
  <1>4. QED
    BY <1>1, <1>2, <1>3 DEF Generated

LEMMA CoerceType ==
  ASSUME NEW raw
  PROVE  Coerce(raw) \in ToSet(Labels) /\ Coerce(raw) \in STRING
  <1>1. 1 \in DOMAIN Labels /\ ToSet(Labels) \subseteq STRING
    BY Numbers DEF ToSet
  <1>2. Labels[1] \in ToSet(Labels)
    BY <1>1 DEF ToSet
  <1>3. QED
    BY <1>1, <1>2 DEF Coerce

\* The batches are parts of the texts.
LEMMA BatchType ==
  ASSUME NEW t
  PROVE  BatchOf(t) \in SUBSET Texts /\ BatchOf(t) \in SUBSET Nat /\ IsFiniteSet(BatchOf(t))
  <1>1. BatchOf(t) \in SUBSET Texts /\ Texts \subseteq Nat
    BY Numbers DEF BatchOf
  <1>2. QED
    BY <1>1, Numbers, FS_Subset

LEMMA AnnotatedType ==
  ASSUME NEW t, NEW texts \in SUBSET BatchOf(t), NEW words, DOMAIN words = texts
  PROVE  /\ Annotated(words) \in Seq(Row) /\ Len(Annotated(words)) = Cardinality(texts)
         /\ Cardinality(texts) \in Nat
         /\ \A i \in 1 .. Cardinality(texts) : /\ Annotated(words)[i].label \in ToSet(Labels)
                                               /\ Annotated(words)[i].text \in texts
         /\ \A i, j \in 1 .. Cardinality(texts) :
              i < j => Annotated(words)[i].text < Annotated(words)[j].text
  <1>1. texts \in SUBSET Int /\ texts \in SUBSET Nat /\ IsFiniteSet(texts)
    BY BatchType, FS_Subset
  <1> DEFINE s == Sorted(texts)
             n == Cardinality(texts)
  <1>2. s \in [1 .. n -> texts] /\ n \in Nat /\ Ascends(s)
    BY <1>1, SortedType
  <1>3. Annotated(words) = [i \in 1 .. n |-> [text |-> s[i], label |-> Coerce(words[s[i]])]]
    BY <1>2 DEF Annotated
  <1> HIDE DEF s, n
  <1>4. \A i \in 1 .. n : /\ s[i] \in texts /\ s[i] \in Nat
                          /\ Coerce(words[s[i]]) \in ToSet(Labels) /\ Coerce(words[s[i]]) \in STRING
    BY <1>1, <1>2, CoerceType
  <1>5. Annotated(words) \in Seq(Row) /\ Len(Annotated(words)) = n
    BY <1>2, <1>3, <1>4 DEF Row
  <1>6. \A i \in 1 .. n : Annotated(words)[i].label \in ToSet(Labels) /\ Annotated(words)[i].text = s[i]
    BY <1>3, <1>4
  <1>7. \A i, j \in 1 .. n : i < j => s[i] < s[j]
    BY <1>2 DEF Ascends
  <1>8. QED
    BY <1>2, <1>4, <1>5, <1>6, <1>7 DEF n

\* Rows that are labelled with labels.
Answers(rs) == \A i \in DOMAIN rs : rs[i].label \in ToSet(Labels)

\* What a response to request t may look like, and what it does if it has what
\* it was asked for.
Fits(t, rs, asked) ==
  /\ Answers(rs)
  /\ mode = "generate" /\ asked => Len(rs) = CountOf(t)
  /\ mode = "label" =>
       /\ \A i \in DOMAIN rs : rs[i].text \in BatchOf(t)
       /\ \A i, j \in DOMAIN rs : i < j => rs[i].text < rs[j].text
       /\ Len(rs) <= Cardinality(BatchOf(t))
       /\ asked => Len(rs) = Cardinality(BatchOf(t))

LEMMA Responses ==
  ASSUME NEW t \in Task, Generate(t) \/ Annotate(t)
  PROVE  \E rs \in Seq(Row), asked \in BOOLEAN : Fits(t, rs, asked) /\ Respond(t, rs, asked)
  <1>1. CASE Generate(t)
    <2>1. mode = "generate"
      BY <1>1 DEF Generate
    <2>2. PICK n \in 0 .. CountOf(t) + MaxExtra : Respond(t, Generated(t, n), n = CountOf(t))
      BY <1>1 DEF Generate
    <2>3. Generated(t, n) \in Seq(Row) /\ Len(Generated(t, n)) = n /\ Answers(Generated(t, n))
      BY <2>1, GeneratedType DEF Answers
    <2>4. Fits(t, Generated(t, n), n = CountOf(t))
      BY <2>1, <2>3 DEF Fits
    <2>5. (n = CountOf(t)) \in BOOLEAN
      OBVIOUS
    <2>6. QED
      BY <2>2, <2>3, <2>4, <2>5
  <1>2. CASE Annotate(t)
    <2>1. PICK texts \in SUBSET BatchOf(t) :
            \E words \in [texts -> ToSet(Labels) \cup {"other"}] :
              Respond(t, Annotated(words), texts = BatchOf(t))
      BY <1>2 DEF Annotate
    <2>2. PICK words \in [texts -> ToSet(Labels) \cup {"other"}] :
            Respond(t, Annotated(words), texts = BatchOf(t))
      BY <2>1
    <2> DEFINE rs == Annotated(words)
    <2>3. DOMAIN words = texts
      OBVIOUS
    <2>4. /\ rs \in Seq(Row) /\ Len(rs) = Cardinality(texts) /\ Cardinality(texts) \in Nat
          /\ \A i \in 1 .. Cardinality(texts) : rs[i].label \in ToSet(Labels) /\ rs[i].text \in texts
          /\ \A i, j \in 1 .. Cardinality(texts) : i < j => rs[i].text < rs[j].text
      BY <2>3, AnnotatedType
    <2>5. mode # "generate" /\ Cardinality(texts) <= Cardinality(BatchOf(t))
      BY <1>2, BatchType, FS_Subset DEF Annotate
    <2> HIDE DEF rs
    <2>6. Fits(t, rs, texts = BatchOf(t))
      BY <2>4, <2>5 DEF Fits, Answers
    <2>7. (texts = BatchOf(t)) \in BOOLEAN
      OBVIOUS
    <2>8. QED
      BY <2>2, <2>4, <2>6, <2>7 DEF rs
  <1>3. QED
    BY <1>1, <1>2

-----------------------------------------------------------------------------
(* The steps of a build.                                                   *)

\* A request under way ends without an answer.
Fails(t) ==
  /\ t \in Calling
  /\ call' = [call EXCEPT ![t].state = "failed"]
  /\ spent' \in {spent, spent + 1}
  /\ UNCHANGED <<mode, threads, builder, collected, rows, tokens, exact>>

Retries(t) ==
  /\ t \in Calling /\ ~LastAttempt(t)
  /\ call' = [call EXCEPT ![t].attempts = @ + 1]
  /\ UNCHANGED <<mode, threads, builder, collected, rows, tokens, spent, exact>>

LEMMA BuildSteps ==
  ASSUME TypeOK, BuildStep
  PROVE  \/ \E t \in Task : StartCall(t)
         \/ \E t \in Task, rs \in Seq(Row), asked \in BOOLEAN : Fits(t, rs, asked) /\ Respond(t, rs, asked)
         \/ \E t \in Task : Fails(t) \/ Retries(t)
         \/ Collect \/ Abort \/ LeavePool \/ Finish
  <1>1. ASSUME NEW t \in Task, Malformed(t) \/ RequestFails(t) \/ Transient(t)
        PROVE  Fails(t) \/ Retries(t)
    BY <1>1 DEF Malformed, RequestFails, Transient, Fails, Retries
  <1>2. QED
    BY <1>1, Responses DEF BuildStep, PoolStep, BuilderStep

\* The number of requests stays, and so does what they are about.
LEMMA SameTasks ==
  ASSUME mode' = mode
  PROVE  /\ Task' = Task
         /\ \A t, rs, asked : Fits(t, rs, asked)' = Fits(t, rs, asked)
  BY DEF Task, Fits

LEMMA CallingType ==
  ASSUME TypeOK
  PROVE  Calling \in SUBSET Task /\ IsFiniteSet(Calling) /\ Cardinality(Calling) \in Nat
  <1>1. Calling \in SUBSET Task
    BY DEF Calling
  <1>2. QED
    BY <1>1, Tasks, FS_Subset, FS_CardinalityType

\* What a step does to the requests.
LEMMA CallsChange ==
  ASSUME TypeOK, BuildStep
  PROVE  /\ mode' = mode /\ threads' = threads /\ Task' = Task
         /\ call' \in [Task -> CallState]
         /\ \A t \in Task : call[t].state = "answered" => call'[t] = call[t]
         /\ \A t \in Task : call[t].state = "failed" => call'[t].state = "failed"
         /\ \A t \in Task : call'[t].state = "waiting" => call[t].state = "waiting"
  <1>1. call \in [Task -> CallState]
    BY DEF TypeOK
  <1>2. ASSUME NEW t \in Task, StartCall(t)
        PROVE  /\ mode' = mode /\ threads' = threads
               /\ call' \in [Task -> CallState] /\ call[t].state = "waiting"
               /\ call'[t].state = "calling" /\ \A u \in Task \ {t} : call'[u] = call[u]
    <2>1. 1 \in 0 .. MaxRetries + 1
      BY DatasetAssumption
    <2>2. QED
      BY <1>1, <1>2, <2>1 DEF StartCall, CallState
  <1>3. ASSUME NEW t \in Task, NEW rs \in Seq(Row), NEW asked \in BOOLEAN, Respond(t, rs, asked)
        PROVE  /\ mode' = mode /\ threads' = threads
               /\ call' \in [Task -> CallState] /\ call[t].state = "calling"
               /\ call'[t].state = "answered" /\ \A u \in Task \ {t} : call'[u] = call[u]
    BY <1>1, <1>3 DEF Respond, CallState, Calling
  <1>4. ASSUME NEW t \in Task, Fails(t) \/ Retries(t)
        PROVE  /\ mode' = mode /\ threads' = threads
               /\ call' \in [Task -> CallState] /\ call[t].state = "calling"
               /\ call'[t].state \in {"calling", "failed"} /\ \A u \in Task \ {t} : call'[u] = call[u]
    <2>1. CASE Fails(t)
      BY <1>1, <2>1 DEF Fails, CallState, Calling
    <2>2. CASE Retries(t)
      <3>1. call[t].attempts + 1 \in 0 .. MaxRetries + 1
        BY <1>1, <2>2, DatasetAssumption DEF Retries, LastAttempt, CallState
      <3>2. QED
        BY <1>1, <2>2, <3>1 DEF Retries, CallState, Calling
    <2>3. QED
      BY <1>4, <2>1, <2>2
  <1>5. ASSUME Collect \/ LeavePool \/ Finish
        PROVE  mode' = mode /\ threads' = threads /\ call' = call
    BY <1>5 DEF Collect, LeavePool, Finish
  <1>6. ASSUME Abort
        PROVE  /\ mode' = mode /\ threads' = threads
               /\ call' \in [Task -> CallState]
               /\ \A t \in Task : call'[t] = Cancel(t)
    BY <1>1, <1>6 DEF Abort, Cancel, CallState
  <1>7. /\ mode' = mode /\ threads' = threads
        /\ call' \in [Task -> CallState]
        /\ \A t \in Task : call[t].state = "answered" => call'[t] = call[t]
        /\ \A t \in Task : call[t].state = "failed" => call'[t].state = "failed"
        /\ \A t \in Task : call'[t].state = "waiting" => call[t].state = "waiting"
    <2>1. CASE \E t \in Task : StartCall(t)
      BY <1>2, <2>1
    <2>2. CASE \E t \in Task, rs \in Seq(Row), asked \in BOOLEAN : Respond(t, rs, asked)
      BY <1>3, <2>2
    <2>3. CASE \E t \in Task : Fails(t) \/ Retries(t)
      BY <1>4, <2>3
    <2>4. CASE Collect \/ LeavePool \/ Finish
      BY <1>1, <1>5, <2>4
    <2>5. CASE Abort
      BY <1>1, <1>6, <2>5 DEF Cancel, CallState
    <2>6. QED
      BY <2>1, <2>2, <2>3, <2>4, <2>5, BuildSteps
  <1>8. QED
    BY <1>7, SameTasks

-----------------------------------------------------------------------------
(* The pool.                                                               *)

\* Everything collected was answered, nothing waits once the collecting is over,
\* nothing runs once the build is, and requests are taken up in order.
Pool ==
  /\ Cardinality(Calling) <= threads
  /\ \A t \in Task : \A u \in 1 .. t - 1 : call[t].state = "calling" => call[u].state # "waiting"
  /\ \A t \in 1 .. collected : call[t].state = "answered"
  /\ builder # "collecting" => \A t \in Task : call[t].state # "waiting"
  /\ builder = "done" => collected = Cardinality(Task)
  /\ builder = "failed" => Calling = {}

PoolInv == TypeOK /\ Pool

LEMMA DoneIsAnswered ==
  ASSUME PoolInv, builder = "done"
  PROVE  \A t \in Task : call[t].state = "answered"
  BY Tasks DEF PoolInv, Pool

LEMMA EndedIsQuiet ==
  ASSUME PoolInv, Ended
  PROVE  Calling = {} /\ ~BuildStep
  <1>1. Calling = {}
    <2>1. CASE builder = "done"
      BY <2>1, DoneIsAnswered DEF Calling
    <2>2. CASE builder = "failed"
      BY <2>2 DEF PoolInv, Pool
    <2>3. QED
      BY <2>1, <2>2 DEF Ended
  <1>2. \A t \in Task : ~StartCall(t)
    BY DEF StartCall, PoolInv, Pool, Ended
  <1>3. \A t \in Task : ~PoolStep(t)
    BY <1>1 DEF PoolStep, Generate, Annotate, Respond, Malformed, RequestFails, Transient
  <1>4. ~BuilderStep
    BY DEF BuilderStep, Collect, Abort, LeavePool, Finish, Ended
  <1>5. QED
    BY <1>1, <1>2, <1>3, <1>4 DEF BuildStep

LEMMA PoolImplies ==
  ASSUME PoolInv
  PROVE  RequestsBounded
  BY EndedIsQuiet DEF PoolInv, Pool, RequestsBounded

LEMMA InitPool ==
  ASSUME Init
  PROVE  PoolInv
  <1>1. TypeOK
    <2>1. 0 \in 0 .. MaxRetries + 1 /\ 0 \in 0 .. Cardinality(Task) /\ <<>> \in Seq(Row)
      BY DatasetAssumption, Tasks
    <2>2. QED
      BY <2>1 DEF Init, TypeOK, CallState
  <1>2. Calling = {}
    BY DEF Init, Calling
  <1>3. Cardinality(Calling) <= threads
    <2>1. threads \in Nat /\ Cardinality(Calling) = 0
      BY <1>2, FS_EmptySet, DatasetAssumption DEF Init
    <2>2. QED
      BY <2>1
  <1>4. QED
    BY <1>1, <1>2, <1>3 DEF Init, PoolInv, Pool

\* A step keeps the typing of everything that is not a call.
LEMMA BuildType ==
  ASSUME PoolInv, BuildStep
  PROVE  TypeOK'
  <1>1. /\ mode \in Mode /\ threads \in Concurrency
        /\ collected \in 0 .. Cardinality(Task) /\ Cardinality(Task) \in Nat
        /\ rows \in Seq(Row) /\ tokens \in Nat /\ spent \in Nat /\ exact \in BOOLEAN
        /\ call \in [Task -> CallState] /\ Task = 1 .. Cardinality(Task)
        /\ builder \in {"collecting", "aborting", "failed", "done"}
    BY Tasks DEF PoolInv, TypeOK
  <1>2. mode' = mode /\ threads' = threads /\ Task' = Task /\ call' \in [Task -> CallState]
    BY CallsChange DEF PoolInv
  <1>3. /\ builder' \in {"collecting", "aborting", "failed", "done"}
        /\ collected' \in 0 .. Cardinality(Task)
        /\ rows' \in Seq(Row) /\ tokens' \in Nat /\ spent' \in Nat /\ exact' \in BOOLEAN
    <2>1. CASE \E t \in Task : StartCall(t) \/ Fails(t) \/ Retries(t)
      BY <1>1, <2>1 DEF StartCall, Fails, Retries
    <2>2. CASE \E t \in Task, rs \in Seq(Row), asked \in BOOLEAN : Respond(t, rs, asked)
      BY <1>1, <2>2 DEF Respond
    <2>3. CASE Collect
      <3>1. collected + 1 \in Task
        BY <1>1, <2>3 DEF Collect
      <3>2. call[collected + 1].rows \in Seq(Row)
        BY <1>1, <3>1 DEF CallState
      <3>3. rows' \in Seq(Row)
        BY <1>1, <2>3, <3>2 DEF Collect
      <3>4. QED
        BY <1>1, <2>3, <3>1, <3>3 DEF Collect
    <2>4. CASE Abort \/ LeavePool
      BY <1>1, <2>4 DEF Abort, LeavePool
    <2>5. CASE Finish
      <3>1. Truncate(rows) \in Seq(Row)
        <4>1. Len(rows) > NumSamples => SubSeq(rows, 1, NumSamples) \in Seq(Row)
          BY <1>1, DatasetAssumption
        <4>2. QED
          BY <1>1, <4>1 DEF Truncate
      <3>2. QED
        BY <1>1, <2>5, <3>1 DEF Finish
    <2>6. QED
      BY <2>1, <2>2, <2>3, <2>4, <2>5, BuildSteps DEF PoolInv
  <1>4. QED
    BY <1>1, <1>2, <1>3 DEF TypeOK, CallState, Row

\* A step that starts no request has no more of them under way.
LEMMA CallingShrinks ==
  ASSUME TypeOK, Task' = Task, threads' = threads,
         \A t \in Task : call'[t].state = "calling" => call[t].state = "calling",
         Cardinality(Calling) <= threads
  PROVE  Calling' \in SUBSET Calling /\ Cardinality(Calling)' <= threads'
  <1>1. Calling' \in SUBSET Calling
    BY DEF Calling
  <1>2. IsFiniteSet(Calling) /\ Cardinality(Calling) \in Nat
    BY CallingType
  <1>3. Cardinality(Calling') \in Nat /\ Cardinality(Calling') <= Cardinality(Calling)
    BY <1>1, <1>2, FS_Subset, FS_CardinalityType
  <1>4. threads \in Nat
    BY DatasetAssumption DEF TypeOK
  <1>5. QED
    BY <1>1, <1>2, <1>3, <1>4

LEMMA BuildPool ==
  ASSUME PoolInv, BuildStep
  PROVE  PoolInv'
  <1>1. TypeOK'
    BY BuildType
  <1>2. /\ mode' = mode /\ threads' = threads /\ Task' = Task
        /\ \A t \in Task : call[t].state = "answered" => call'[t] = call[t]
        /\ \A t \in Task : call'[t].state = "waiting" => call[t].state = "waiting"
    BY CallsChange DEF PoolInv
  <1>3. /\ call \in [Task -> CallState] /\ Task = 1 .. Cardinality(Task)
        /\ Cardinality(Task) \in Nat /\ collected \in 0 .. Cardinality(Task)
        /\ Cardinality(Calling) <= threads /\ threads \in Nat
    BY Tasks, DatasetAssumption DEF PoolInv, Pool, TypeOK
  <1> SUFFICES Pool'
    BY <1>1 DEF PoolInv
  <1>4. ASSUME NEW t \in Task, StartCall(t)
        PROVE  Pool'
    <2>1. /\ call[t].state = "waiting" /\ builder = "collecting" /\ builder' = "collecting"
          /\ collected' = collected /\ Cardinality(Calling) < threads
          /\ \A u \in 1 .. t - 1 : call[u].state # "waiting"
          /\ \A u \in Task \ {t} : call'[u] = call[u]
      BY <1>3, <1>4 DEF StartCall, FreeThread, PoolInv, Pool
    <2>2. Calling' \in SUBSET (Calling \cup {t})
      BY <1>2, <2>1 DEF Calling
    <2>3. Cardinality(Calling)' <= threads'
      <3>1. IsFiniteSet(Calling) /\ Cardinality(Calling) \in Nat
        BY CallingType DEF PoolInv
      <3>2. IsFiniteSet(Calling \cup {t}) /\ Cardinality(Calling \cup {t}) <= Cardinality(Calling) + 1
        <4>1. t \notin Calling
          BY <2>1 DEF Calling
        <4>2. QED
          BY <3>1, <4>1, FS_AddElement
      <3>3. Cardinality(Calling') <= Cardinality(Calling \cup {t}) /\ IsFiniteSet(Calling')
        BY <2>2, <3>2, FS_Subset
      <3>4. Cardinality(Calling') \in Nat /\ Cardinality(Calling \cup {t}) \in Nat
        BY <3>2, <3>3, FS_CardinalityType
      <3>5. QED
        BY <1>2, <1>3, <2>1, <3>1, <3>2, <3>3, <3>4
    <2>4. \A v \in Task : \A u \in 1 .. v - 1 : call'[v].state = "calling" => call'[u].state # "waiting"
      <3>1. SUFFICES ASSUME NEW v \in Task, NEW u \in 1 .. v - 1, call'[v].state = "calling"
                     PROVE  call'[u].state # "waiting"
        OBVIOUS
      <3>2. u \in Task
        BY <1>3
      <3>3. call[u].state # "waiting"
        <4>1. CASE v = t
          BY <2>1, <4>1
        <4>2. CASE v # t
          BY <2>1, <3>1, <4>2 DEF PoolInv, Pool
        <4>3. QED
          BY <4>1, <4>2
      <3>4. QED
        BY <1>2, <3>2, <3>3
    <2>5. \A u \in 1 .. collected : call'[u].state = "answered"
      BY <1>2, <1>3 DEF PoolInv, Pool
    <2>6. QED
      BY <1>2, <2>1, <2>3, <2>4, <2>5 DEF Pool
  <1>5. ASSUME \A t \in Task : call'[t].state = "calling" => call[t].state = "calling"
        PROVE  /\ Calling' \in SUBSET Calling /\ Cardinality(Calling)' <= threads'
               /\ \A t \in Task : \A u \in 1 .. t - 1 :
                    call'[t].state = "calling" => call'[u].state # "waiting"
               /\ \A t \in 1 .. collected : call'[t].state = "answered"
    <2>1. Calling' \in SUBSET Calling /\ Cardinality(Calling)' <= threads'
      BY <1>2, <1>3, <1>5, CallingShrinks DEF PoolInv
    <2>2. \A t \in Task : \A u \in 1 .. t - 1 : u \in Task
      BY <1>3
    <2>3. \A t \in 1 .. collected : t \in Task
      BY <1>3
    <2>4. QED
      BY <1>2, <1>5, <2>1, <2>2, <2>3 DEF PoolInv, Pool
  <1>6. ASSUME NEW t \in Task, call[t].state = "calling",
               \A u \in Task \ {t} : call'[u] = call[u],
               builder' = builder, collected' = collected
        PROVE  Pool'
    <2>1. \A u \in Task : call'[u].state = "calling" => call[u].state = "calling"
      BY <1>6
    <2>2. QED
      BY <1>2, <1>5, <1>6, <2>1 DEF PoolInv, Pool
  <1>7. CASE \E t \in Task, rs \in Seq(Row), asked \in BOOLEAN : Respond(t, rs, asked)
    <2>1. PICK t \in Task, rs \in Seq(Row), asked \in BOOLEAN : Respond(t, rs, asked)
      BY <1>7
    <2>2. /\ call[t].state = "calling" /\ \A u \in Task \ {t} : call'[u] = call[u]
          /\ builder' = builder /\ collected' = collected
      BY <1>3, <2>1 DEF Respond, Calling
    <2>3. QED
      BY <1>6, <2>2
  <1>8. ASSUME NEW t \in Task, Fails(t) \/ Retries(t)
        PROVE  Pool'
    <2>1. /\ call[t].state = "calling" /\ \A u \in Task \ {t} : call'[u] = call[u]
          /\ builder' = builder /\ collected' = collected
      BY <1>3, <1>8 DEF Fails, Retries, Calling
    <2>2. QED
      BY <1>6, <2>1
  <1>9. CASE Collect
    <2>1. /\ builder = "collecting" /\ builder' = builder /\ call' = call
          /\ collected' = collected + 1 /\ call[collected + 1].state = "answered"
      BY <1>9 DEF Collect
    <2>2. \A t \in 1 .. collected + 1 : call[t].state = "answered"
      <3>1. \A t \in 1 .. collected + 1 : t \in 1 .. collected \/ t = collected + 1
        BY <1>3
      <3>2. QED
        BY <2>1, <3>1 DEF PoolInv, Pool
    <2>3. QED
      BY <1>2, <1>5, <2>1, <2>2 DEF PoolInv, Pool
  <1>10. CASE Abort
    <2>1. /\ builder' = "aborting" /\ collected' = collected
          /\ \A t \in Task : call'[t] = Cancel(t)
      BY <1>10 DEF Abort
    <2>2. \A t \in Task : /\ call'[t].state # "waiting"
                          /\ call'[t].state = "calling" => call[t].state = "calling"
      <3>1. \A t \in Task : call[t] \in CallState
        BY <1>3
      <3>2. QED
        BY <2>1, <3>1 DEF Cancel, CallState
    <2>3. QED
      BY <1>2, <1>5, <2>1, <2>2 DEF Pool
  <1>11. CASE LeavePool
    BY <1>2, <1>5, <1>11 DEF LeavePool, PoolInv, Pool, Calling
  <1>12. CASE Finish
    <2>1. \A t \in Task : call[t].state = "answered"
      BY <1>3, <1>12 DEF Finish, PoolInv, Pool
    <2>2. Calling = {}
      BY <2>1 DEF Calling
    <2>3. QED
      BY <1>2, <1>5, <1>12, <2>1, <2>2 DEF Finish, PoolInv, Pool, Calling
  <1>13. QED
    BY <1>4, <1>7, <1>8, <1>9, <1>10, <1>11, <1>12, BuildSteps DEF PoolInv

-----------------------------------------------------------------------------
(* What the requests ask for, taken together.                              *)

\* How many examples the first k requests of a generation are to return.
AskedBy(k) == (k \div RequestsPerLabel) * PerLabel + (k % RequestsPerLabel) * GenBatch

\* How many texts the first k requests for labels send.
SentBy(k) ==
  IF k * LabelBatch < Cardinality(Texts) THEN k * LabelBatch ELSE Cardinality(Texts)

LEMMA Quotient ==
  ASSUME NEW b \in Nat \ {0}, NEW q \in Nat, NEW r \in 0 .. b - 1
  PROVE  (q * b + r) \div b = q /\ (q * b + r) % b = r
  <1> DEFINE a == q * b + r
             p == a \div b
             m == a % b
  <1>1. a \in Nat /\ q * b \in Nat
    <2>1. q * b \in Nat
      BY Products
    <2>2. QED
      BY <2>1
  <1>2. p \in Nat /\ m \in 0 .. b - 1 /\ a = p * b + m
    <2> HIDE DEF a
    <2>1. QED
      BY <1>1, Division
  <1>3. a = q * b + r
    OBVIOUS
  <1> HIDE DEF a, p, m
  <1>4. ~(p < q)
    <2>1. SUFFICES ASSUME p < q
                   PROVE  FALSE
      OBVIOUS
    <2>2. p * b + b <= q * b /\ p * b \in Nat
      BY <1>2, <2>1, Products
    <2>3. QED
      BY <1>1, <1>2, <1>3, <2>2
  <1>5. ~(q < p)
    <2>1. SUFFICES ASSUME q < p
                   PROVE  FALSE
      OBVIOUS
    <2>2. q * b + b <= p * b /\ p * b \in Nat
      BY <1>2, <2>1, Products
    <2>3. QED
      BY <1>1, <1>2, <1>3, <2>2
  <1>6. p = q
    BY <1>2, <1>4, <1>5
  <1>7. m = r
    <2>1. p * b \in Nat /\ p * b = q * b
      BY <1>1, <1>6
    <2>2. QED
      BY <1>1, <1>2, <1>3, <2>1
  <1>8. QED
    BY <1>6, <1>7 DEF p, m, a

\* Each request asks for what its number says, and together they ask for enough.
LEMMA AskedStep ==
  ASSUME mode = "generate", NEW t \in Task
  PROVE  /\ AskedBy(t - 1) \in Nat /\ AskedBy(t) = AskedBy(t - 1) + CountOf(t)
         /\ AskedBy(t) \in Nat
  <1> DEFINE R == RequestsPerLabel
             P == PerLabel
             G == GenBatch
             q == (t - 1) \div R
             r == (t - 1) % R
  <1>1. /\ R \in Nat \ {0} /\ P \in Nat \ {0} /\ G \in Nat \ {0}
        /\ t - 1 \in Nat /\ P <= R * G /\ R * G < P + G
    <2>1. t - 1 \in Nat
      BY Tasks
    <2>2. R * G < P + G
      BY Numbers, Ceiling DEF RequestsPerLabel
    <2>3. QED
      BY <2>1, <2>2, Numbers
  <1>2. q \in Nat /\ r \in 0 .. R - 1 /\ t - 1 = q * R + r
    <2> HIDE DEF R
    <2>1. QED
      BY <1>1, Division
  <1>3. AskedBy(t - 1) = q * P + r * G
    BY DEF AskedBy
  <1>4. CountOf(t) = IF P - r * G < G THEN P - r * G ELSE G
    BY DEF CountOf
  <1> HIDE DEF R, P, G, q, r
  <1>5. q * P \in Nat /\ r * G \in Nat /\ q * R \in Nat /\ R * G \in Nat
    BY <1>1, <1>2, Products
  <1>6. CASE r + 1 < R
    <2>1. t = q * R + (r + 1) /\ r + 1 \in 0 .. R - 1
      BY <1>1, <1>2, <1>5, <1>6, Tasks
    <2>2. t \div R = q /\ t % R = r + 1
      BY <1>1, <1>2, <2>1, Quotient
    <2>3. AskedBy(t) = q * P + (r + 1) * G
      BY <2>2 DEF AskedBy, R, P, G
    <2>4. (r + 1) * G = r * G + G
      BY <1>1, <1>2
    <2>5. (r + 1) * G + G <= R * G
      BY <1>1, <1>2, <1>6, Products
    <2>6. CountOf(t) = G
      BY <1>1, <1>4, <1>5, <2>4, <2>5
    <2>7. QED
      BY <1>1, <1>3, <1>5, <2>3, <2>4, <2>6
  <1>7. CASE r + 1 = R
    <2>1. t = (q + 1) * R + 0
      <3>1. (q + 1) * R = q * R + R
        BY <1>1, <1>2
      <3>2. QED
        BY <1>1, <1>2, <1>5, <1>7, <3>1, Tasks
    <2>2. t \div R = q + 1 /\ t % R = 0
      <3>1. q + 1 \in Nat /\ 0 \in 0 .. R - 1
        BY <1>1, <1>2
      <3>2. QED
        BY <1>1, <2>1, <3>1, Quotient
    <2>3. AskedBy(t) = (q + 1) * P + 0 * G
      BY <2>2 DEF AskedBy, R, P, G
    <2>4. (q + 1) * P = q * P + P /\ 0 * G = 0 /\ R * G = r * G + G
      <3>1. (q + 1) * P = q * P + P /\ 0 * G = 0
        BY <1>1, <1>2
      <3>2. R * G = (r + 1) * G
        BY <1>7
      <3>3. (r + 1) * G = r * G + G
        BY <1>1, <1>2
      <3>4. QED
        BY <3>1, <3>2, <3>3
    <2>5. CountOf(t) = P - r * G
      BY <1>1, <1>4, <1>5, <2>4
    <2>6. QED
      BY <1>1, <1>3, <1>5, <2>3, <2>4, <2>5
  <1>8. QED
    BY <1>1, <1>2, <1>6, <1>7

LEMMA AskedAll ==
  ASSUME mode = "generate"
  PROVE  AskedBy(0) = 0 /\ NumSamples <= AskedBy(Cardinality(Task))
  <1> DEFINE R == RequestsPerLabel
             P == PerLabel
             L == Len(Labels)
  <1>1. R \in Nat \ {0} /\ P \in Nat \ {0} /\ L \in Nat \ {0} /\ GenBatch \in Nat
    BY Numbers
  <1>2. AskedBy(0) = 0
    <2>1. 0 \div R = 0 /\ 0 % R = 0
      BY <1>1
    <2>2. AskedBy(0) = 0 * P + 0 * GenBatch
      BY <2>1 DEF AskedBy
    <2> HIDE DEF P
    <2>3. QED
      BY <1>1, <2>2
  <1>3. Cardinality(Task) = L * R + 0
    <2>1. Cardinality(Task) = L * R /\ Cardinality(Task) \in Nat
      BY Tasks
    <2>2. QED
      BY <2>1
  <1>4. AskedBy(Cardinality(Task)) = L * P + 0 * GenBatch
    <2>1. Cardinality(Task) \div R = L /\ Cardinality(Task) % R = 0
      <3> HIDE DEF R, L
      <3>1. 0 \in 0 .. R - 1
        BY <1>1
      <3>2. QED
        BY <1>1, <1>3, <3>1, Quotient
    <2>2. QED
      BY <2>1 DEF AskedBy
  <1>5. NumSamples <= P * L
    BY Numbers
  <1> HIDE DEF R, P, L
  <1>6. L * P = P * L /\ L * P \in Nat /\ 0 * GenBatch = 0
    BY <1>1
  <1>7. QED
    BY <1>2, <1>4, <1>5, <1>6, Numbers

\* The texts are sent in batches, one after the other.
LEMMA BatchPlace ==
  ASSUME mode # "generate", NEW t \in Task
  PROVE  /\ BatchOf(t) = (t - 1) * LabelBatch + 1 .. SentBy(t)
         /\ SentBy(t - 1) = (t - 1) * LabelBatch
         /\ Cardinality(BatchOf(t)) = SentBy(t) - SentBy(t - 1)
         /\ SentBy(t - 1) \in Nat /\ SentBy(t) \in Nat /\ SentBy(t - 1) <= SentBy(t)
  <1> DEFINE B == LabelBatch
             n == Cardinality(Texts)
             T == Cardinality(Task)
             d == (t - 1) * B
  <1>1. /\ B \in Nat \ {0} /\ n \in Nat \ {0} /\ Texts = 1 .. n
        /\ T \in Nat \ {0} /\ t \in 1 .. T /\ T * B < n + B
    <2>1. T = CeilDiv(n, B)
      BY Tasks
    <2>2. QED
      BY <2>1, Numbers, Tasks, Ceiling
  <1>2. SentBy(t) = (IF t * B < n THEN t * B ELSE n) /\ SentBy(t - 1) = (IF d < n THEN d ELSE n)
    BY DEF SentBy
  <1>3. BatchOf(t) = {i \in 1 .. n : (i - 1) \div B + 1 = t}
    BY <1>1 DEF BatchOf
  <1> HIDE DEF B, n, T
  <1>4. d \in Nat /\ t * B = d + B /\ t * B <= T * B /\ T * B \in Nat
    <2>1. t \in Nat /\ t - 1 \in Nat /\ t <= T /\ t = (t - 1) + 1
      BY <1>1
    <2>2. d \in Nat /\ t * B <= T * B /\ T * B \in Nat
      BY <1>1, <2>1, Products
    <2>3. t * B = d + B
      BY <1>1, <2>1
    <2>4. QED
      BY <2>2, <2>3
  <1>5. d < n
    BY <1>1, <1>4
  <1>6. ASSUME NEW i \in 1 .. n
        PROVE  (i - 1) \div B + 1 = t <=> d < i /\ i <= d + B
    <2> DEFINE k == (i - 1) \div B
    <2>1. k \in Nat /\ k * B <= i - 1 /\ i - 1 < k * B + B
      <3>1. i - 1 \in Nat
        BY <1>1
      <3>2. QED
        BY <1>1, <3>1, Division
    <2>2. ASSUME k + 1 = t
          PROVE  d < i /\ i <= d + B
      <3>1. k = t - 1
        BY <1>1, <2>1, <2>2
      <3>2. k * B = d
        BY <3>1
      <3>3. QED
        BY <1>1, <1>4, <2>1, <3>2
    <2>3. ASSUME d < i, i <= d + B
          PROVE  k + 1 = t
      <3> HIDE DEF k
      <3>1. t - 1 \in Nat
        BY <1>1
      <3>2. ~(k < t - 1)
        <4>1. SUFFICES ASSUME k < t - 1
                       PROVE  FALSE
          OBVIOUS
        <4>2. k * B + B <= d /\ k * B \in Nat
          BY <1>1, <2>1, <3>1, <4>1, Products
        <4>3. QED
          BY <1>1, <1>4, <2>1, <2>3, <4>2
      <3>3. ~(t - 1 < k)
        <4>1. SUFFICES ASSUME t - 1 < k
                       PROVE  FALSE
          OBVIOUS
        <4>2. d + B <= k * B /\ k * B \in Nat
          BY <1>1, <2>1, <3>1, <4>1, Products
        <4>3. QED
          BY <1>1, <1>4, <2>1, <2>3, <4>2
      <3>4. QED
        BY <1>1, <2>1, <3>1, <3>2, <3>3
    <2>4. QED
      BY <2>2, <2>3
  <1> HIDE DEF d
  <1>7. BatchOf(t) = d + 1 .. SentBy(t)
    <2>1. SentBy(t) = IF d + B < n THEN d + B ELSE n
      BY <1>2, <1>4
    <2>2. \A i \in 1 .. n : (i - 1) \div B + 1 = t <=> i \in d + 1 .. SentBy(t)
      <3>1. \A i \in 1 .. n : (d < i /\ i <= d + B) <=> i \in d + 1 .. SentBy(t)
        BY <1>1, <1>4, <1>5, <2>1
      <3>2. QED
        BY <1>6, <3>1
    <2>3. d + 1 .. SentBy(t) \subseteq 1 .. n
      BY <1>1, <1>4, <2>1
    <2> HIDE DEF d
    <2>4. QED
      BY <1>3, <2>2, <2>3
  <1>8. SentBy(t - 1) = d /\ SentBy(t) \in Nat /\ d <= SentBy(t)
    BY <1>1, <1>2, <1>4, <1>5
  <1>9. Cardinality(BatchOf(t)) = SentBy(t) - d
    <2>1. d + 1 \in Int /\ SentBy(t) \in Int
      BY <1>4, <1>8
    <2>2. Cardinality(d + 1 .. SentBy(t)) = IF d + 1 > SentBy(t) THEN 0 ELSE SentBy(t) - (d + 1) + 1
      BY <2>1, FS_Interval
    <2>3. QED
      BY <1>4, <1>7, <1>8, <2>2
  <1>10. QED
    BY <1>4, <1>7, <1>8, <1>9 DEF d, B

LEMMA SentAll ==
  ASSUME mode # "generate"
  PROVE  SentBy(0) = 0 /\ SentBy(Cardinality(Task)) = Cardinality(Texts)
  <1> DEFINE B == LabelBatch
             n == Cardinality(Texts)
  <1>1. B \in Nat \ {0} /\ n \in Nat \ {0}
    BY Numbers
  <1>2. n <= Cardinality(Task) * B /\ Cardinality(Task) \in Nat
    BY <1>1, Tasks, Ceiling
  <1>3. Cardinality(Task) * B \in Nat /\ 0 * B = 0
    <2> HIDE DEF B
    <2>1. QED
      BY <1>1, <1>2, Products
  <1> HIDE DEF n
  <1>4. QED
    BY <1>1, <1>2, <1>3 DEF SentBy, n

-----------------------------------------------------------------------------
(* The answers, one after the other.                                       *)

\* The concatenations of the first, of the first two, ... sequences of s.
Flat(s, n) ==
  CHOOSE f : f = [i \in 1 .. n |-> IF i = 1 THEN s[i] ELSE f[i - 1] \o s[i]]

LEMMA FlatExists ==
  ASSUME NEW s, NEW n \in Nat
  PROVE  \E f : f = [i \in 1 .. n |-> IF i = 1 THEN s[i] ELSE f[i - 1] \o s[i]]
  <1> DEFINE Solves(f, m) == f = [i \in 1 .. m |-> IF i = 1 THEN s[i] ELSE f[i - 1] \o s[i]]
             T == {m \in Nat : \E f : Solves(f, m)}
  <1>1. 0 \in T
    <2> DEFINE e == [i \in {} |-> 0]
    <2>1. Solves(e, 0)
      OBVIOUS
    <2> HIDE DEF Solves, e
    <2>2. QED
      BY <2>1
  <1>2. ASSUME NEW m \in T
        PROVE  m + 1 \in T
    <2>1. PICK f : Solves(f, m)
      BY <1>2
    <2> DEFINE next == IF m = 0 THEN s[m + 1] ELSE f[m] \o s[m + 1]
               g == [i \in 1 .. m + 1 |-> IF i = m + 1 THEN next ELSE f[i]]
    <2>2. m \in Nat
      BY <1>2
    <2>3. /\ \A i \in 1 .. m : f[i] = IF i = 1 THEN s[i] ELSE f[i - 1] \o s[i]
      BY <2>1
    <2>4. ASSUME NEW i \in 1 .. m + 1
          PROVE  g[i] = IF i = 1 THEN s[i] ELSE g[i - 1] \o s[i]
      <3>1. CASE i = m + 1
        <4>1. CASE m = 0
          BY <3>1, <4>1
        <4>2. CASE m # 0
          <5>1. i # 1 /\ i - 1 = m /\ m \in 1 .. m + 1 /\ m # m + 1
            BY <2>2, <3>1, <4>2
          <5>2. g[i - 1] = f[m] /\ g[i] = f[m] \o s[m + 1]
            BY <3>1, <4>2, <5>1
          <5>3. QED
            BY <3>1, <5>1, <5>2
        <4>3. QED
          BY <4>1, <4>2
      <3>2. CASE i # m + 1
        <4>1. i \in 1 .. m /\ g[i] = f[i]
          BY <2>2, <3>2
        <4>2. i # 1 => g[i - 1] = f[i - 1]
          BY <2>2, <3>2
        <4> HIDE DEF g
        <4>3. QED
          BY <2>3, <4>1, <4>2
      <3>3. QED
        BY <3>1, <3>2
    <2>5. Solves(g, m + 1)
      <3>1. g = [i \in 1 .. m + 1 |-> g[i]]
        OBVIOUS
      <3> HIDE DEF g
      <3>2. [i \in 1 .. m + 1 |-> g[i]] = [i \in 1 .. m + 1 |-> IF i = 1 THEN s[i] ELSE g[i - 1] \o s[i]]
        BY <2>4
      <3>3. QED
        BY <3>1, <3>2
    <2> HIDE DEF Solves, g
    <2>6. QED
      BY <2>2, <2>5
  <1>3. T = Nat
    <2> HIDE DEF T
    <2>1. T \in SUBSET Nat
      BY DEF T
    <2>2. QED
      BY <1>1, <1>2, <2>1, InductiveSet
  <1>4. QED
    BY <1>3

LEMMA FlatStep ==
  ASSUME NEW s, NEW n \in Nat, NEW i \in 1 .. n
  PROVE  Flat(s, n)[i] = IF i = 1 THEN s[i] ELSE Flat(s, n)[i - 1] \o s[i]
  <1>1. Flat(s, n) = [j \in 1 .. n |-> IF j = 1 THEN s[j] ELSE Flat(s, n)[j - 1] \o s[j]]
    BY FlatExists DEF Flat
  <1> DEFINE f == Flat(s, n)
  <1>2. f = [j \in 1 .. n |-> IF j = 1 THEN s[j] ELSE f[j - 1] \o s[j]]
    BY <1>1
  <1> HIDE DEF f
  <1>3. f[i] = IF i = 1 THEN s[i] ELSE f[i - 1] \o s[i]
    BY <1>2
  <1>4. QED
    BY <1>3 DEF f

\* The first k of n sequences, joined.
Joined(s, n, k) == IF k = 0 THEN <<>> ELSE Flat(s, n)[k]

LEMMA JoinedAll ==
  ASSUME NEW s, Len(s) \in Nat \ {0}
  PROVE  FlattenSeq(s) = Joined(s, Len(s), Len(s))
  BY DEF FlattenSeq, Joined, Flat

LEMMA JoinedStep ==
  ASSUME NEW R, NEW n \in Nat, NEW s \in [1 .. n -> Seq(R)], NEW k \in 0 .. n - 1
  PROVE  Joined(s, n, k + 1) = Joined(s, n, k) \o s[k + 1]
  <1>1. k + 1 \in 1 .. n /\ k + 1 # 0 /\ (k + 1) - 1 = k
    OBVIOUS
  <1>2. Flat(s, n)[k + 1] = IF k + 1 = 1 THEN s[k + 1] ELSE Flat(s, n)[k] \o s[k + 1]
    BY <1>1, FlatStep
  <1>3. s[k + 1] \in Seq(R)
    BY <1>1
  <1>4. <<>> \o s[k + 1] = s[k + 1]
    BY <1>3
  <1>5. Joined(s, n, k + 1) = Flat(s, n)[k + 1]
    BY <1>1 DEF Joined
  <1>6. CASE k = 0
    <2>1. Joined(s, n, k) = <<>> /\ k + 1 = 1
      BY <1>6 DEF Joined
    <2>2. QED
      BY <1>2, <1>4, <1>5, <2>1
  <1>7. CASE k # 0
    <2>1. Joined(s, n, k) = Flat(s, n)[k] /\ k + 1 # 1
      BY <1>7 DEF Joined
    <2>2. QED
      BY <1>2, <1>5, <2>1
  <1>8. QED
    BY <1>6, <1>7

\* Sequences behind the first k play no part.
LEMMA JoinedSame ==
  ASSUME NEW n \in Nat, NEW s, NEW u, NEW k \in 0 .. n,
         \A i \in 1 .. k : s[i] = u[i]
  PROVE  Joined(s, n, k) = Joined(u, n, k)
  <1> DEFINE T == {m \in Nat : m <= k => Joined(s, n, m) = Joined(u, n, m)}
  <1>1. 0 \in T
    BY DEF Joined
  <1>2. ASSUME NEW m \in T
        PROVE  m + 1 \in T
    <2>1. SUFFICES ASSUME m + 1 <= k
                   PROVE  Joined(s, n, m + 1) = Joined(u, n, m + 1)
      OBVIOUS
    <2>2. m \in Nat /\ m + 1 \in 1 .. n /\ m + 1 \in 1 .. k /\ m + 1 # 0 /\ (m + 1) - 1 = m
      BY <2>1
    <2>3. Joined(s, n, m) = Joined(u, n, m)
      BY <2>1, <2>2
    <2>4. s[m + 1] = u[m + 1]
      BY <2>2
    <2>5. /\ Flat(s, n)[m + 1] = IF m + 1 = 1 THEN s[m + 1] ELSE Flat(s, n)[m] \o s[m + 1]
          /\ Flat(u, n)[m + 1] = IF m + 1 = 1 THEN u[m + 1] ELSE Flat(u, n)[m] \o u[m + 1]
      BY <2>2, FlatStep
    <2>6. m = 0 \/ Flat(s, n)[m] = Flat(u, n)[m]
      BY <2>3 DEF Joined
    <2>7. QED
      BY <2>2, <2>4, <2>5, <2>6 DEF Joined
  <1>3. T = Nat
    <2> HIDE DEF T
    <2>1. T \in SUBSET Nat
      BY DEF T
    <2>2. QED
      BY <1>1, <1>2, <2>1, InductiveSet
  <1>4. k \in T /\ k <= k
    BY <1>3
  <1>5. QED
    BY <1>4

-----------------------------------------------------------------------------
(* The corpus.                                                             *)

AnswerRows == [t \in Task |-> call[t].rows]

Answered == {t \in Task : call[t].state = "answered"}

Returned == \A t \in Task : call[t].state = "answered" => Fits(t, call[t].rows, exact)

\* A response costs one token, and so does collecting the answer.
Costs ==
  /\ tokens = collected
  /\ (\A t \in Task : call[t].state # "failed") => spent = Cardinality(Answered)

\* Texts that were sent, each at most once and in order.
Labelled ==
  /\ \A i \in DOMAIN rows : rows[i].text \in Nat /\ rows[i].text <= collected * LabelBatch
  /\ \A i, j \in DOMAIN rows : i < j => rows[i].text < rows[j].text
  /\ Len(rows) <= SentBy(collected)
  /\ exact => Len(rows) = SentBy(collected)

Contents ==
  /\ Answers(rows)
  /\ mode = "label" => Labelled
  /\ builder # "done" => rows = Joined(AnswerRows, Cardinality(Task), collected)
  /\ mode = "generate" /\ builder # "done" /\ exact => Len(rows) = AskedBy(collected)
  /\ CorpusFollowsRequests

CorpusInv == PoolInv /\ Returned /\ Costs /\ Contents

LEMMA ModeType ==
  ASSUME TypeOK
  PROVE  mode \in {"generate", "label"}
  BY DatasetAssumption DEF TypeOK

LEMMA InitCorpus ==
  ASSUME Init
  PROVE  CorpusInv
  <1>1. PoolInv
    BY InitPool
  <1>2. Returned /\ Costs
    <2>1. Answered = {}
      BY DEF Init, Answered
    <2>2. QED
      BY <2>1, FS_EmptySet DEF Init, Returned, Costs
  <1>3. Len(rows) = 0 /\ DOMAIN rows = {} /\ rows = <<>> /\ collected = 0 /\ builder = "collecting"
    BY DEF Init
  <1>4. Answers(rows)
    BY <1>3 DEF Answers
  <1>5. mode = "label" => Labelled
    BY <1>3, SentAll DEF Labelled
  <1>6. rows = Joined(AnswerRows, Cardinality(Task), collected)
    BY <1>3 DEF Joined
  <1>7. mode = "generate" => Len(rows) = AskedBy(collected)
    BY <1>3, AskedAll
  <1>8. CorpusFollowsRequests
    BY <1>3 DEF CorpusFollowsRequests
  <1>9. QED
    BY <1>1, <1>2, <1>4, <1>5, <1>6, <1>7, <1>8 DEF CorpusInv, Contents

\* Every answer fits its request.
LEMMA BuildReturned ==
  ASSUME PoolInv, Returned, BuildStep
  PROVE  Returned'
  <1>1. /\ mode' = mode /\ Task' = Task /\ call \in [Task -> CallState] /\ exact \in BOOLEAN
        /\ \A t \in Task : call[t].state = "answered" => call'[t] = call[t]
    BY CallsChange DEF PoolInv, TypeOK
  <1>2. \A t \in Task : \A rs : Fits(t, rs, TRUE) => Fits(t, rs, FALSE)
    BY DEF Fits
  <1>3. \A t, rs, asked : Fits(t, rs, asked)' = Fits(t, rs, asked)
    BY <1>1, SameTasks
  <1>4. SUFFICES ASSUME NEW t \in Task, call'[t].state = "answered"
                 PROVE  Fits(t, call'[t].rows, exact')
    BY <1>1 DEF Returned, Fits
  <1>5. CASE \E u \in Task, rs \in Seq(Row), asked \in BOOLEAN : Fits(u, rs, asked) /\ Respond(u, rs, asked)
    <2>1. PICK u \in Task, rs \in Seq(Row), asked \in BOOLEAN : Fits(u, rs, asked) /\ Respond(u, rs, asked)
      BY <1>5
    <2>2. /\ call[u].state = "calling" /\ exact' = (exact /\ asked)
          /\ \A v \in Task \ {u} : call'[v] = call[v]
          /\ call'[u].rows = rs
      BY <1>1, <2>1 DEF Respond, Calling, CallState
    <2>3. exact' \in BOOLEAN /\ (exact' => exact) /\ (exact' => asked)
      BY <1>1, <2>1, <2>2
    <2>4. CASE t = u
      BY <1>2, <2>1, <2>2, <2>3, <2>4
    <2>5. CASE t # u
      <3>1. call'[t] = call[t] /\ call[t].state = "answered"
        BY <1>4, <2>2, <2>5
      <3>2. Fits(t, call[t].rows, exact)
        BY <3>1 DEF Returned
      <3>3. QED
        BY <1>1, <1>2, <2>3, <3>1, <3>2
    <2>6. QED
      BY <2>4, <2>5
  <1>6. ASSUME exact' = exact, call[t].state = "answered"
        PROVE  Fits(t, call'[t].rows, exact')
    BY <1>1, <1>6 DEF Returned
  <1>7. CASE \E u \in Task : StartCall(u) \/ Fails(u) \/ Retries(u)
    <2>1. PICK u \in Task : StartCall(u) \/ Fails(u) \/ Retries(u)
      BY <1>7
    <2>2. exact' = exact /\ call[t].state = "answered"
      <3>1. CASE StartCall(u)
        BY <1>1, <1>4, <3>1 DEF StartCall, CallState
      <3>2. CASE Fails(u)
        BY <1>1, <1>4, <3>2 DEF Fails, CallState
      <3>3. CASE Retries(u)
        BY <1>1, <1>4, <3>3 DEF Retries, CallState
      <3>4. QED
        BY <2>1, <3>1, <3>2, <3>3
    <2>3. QED
      BY <1>6, <2>2
  <1>8. CASE Collect \/ LeavePool \/ Finish
    BY <1>4, <1>6, <1>8 DEF Collect, LeavePool, Finish
  <1>9. CASE Abort
    BY <1>1, <1>4, <1>6, <1>9 DEF Abort, Cancel, CallState
  <1>10. QED
    BY <1>5, <1>7, <1>8, <1>9, BuildSteps DEF PoolInv

\* The tokens are counted as the answers are collected.
LEMMA BuildCosts ==
  ASSUME PoolInv, Costs, BuildStep
  PROVE  Costs'
  <1>1. /\ mode' = mode /\ Task' = Task /\ call \in [Task -> CallState] /\ call' \in [Task -> CallState]
        /\ \A t \in Task : call[t].state = "answered" => call'[t] = call[t]
        /\ \A t \in Task : call[t].state = "failed" => call'[t].state = "failed"
    BY CallsChange DEF PoolInv, TypeOK
  <1>2. IsFiniteSet(Answered) /\ Cardinality(Answered) \in Nat /\ Answered \in SUBSET Task
    <2>1. Answered \in SUBSET Task
      BY DEF Answered
    <2>2. QED
      BY <2>1, Tasks, FS_Subset, FS_CardinalityType
  <1>3. ASSUME tokens' = collected', Answered' = Answered, spent' = spent
        PROVE  Costs'
    BY <1>1, <1>3 DEF Costs
  <1>4. CASE \E t \in Task, rs \in Seq(Row), asked \in BOOLEAN : Respond(t, rs, asked)
    <2>1. PICK t \in Task, rs \in Seq(Row), asked \in BOOLEAN : Respond(t, rs, asked)
      BY <1>4
    <2>2. /\ t \notin Answered /\ Answered' = Answered \cup {t} /\ spent' = spent + 1
          /\ tokens' = tokens /\ collected' = collected
      BY <1>1, <2>1 DEF Respond, Answered, Calling, CallState
    <2>3. Cardinality(Answered \cup {t}) = Cardinality(Answered) + 1
      BY <1>2, <2>2, FS_AddElement
    <2>4. QED
      BY <1>1, <2>2, <2>3 DEF Costs
  <1>5. CASE \E t \in Task : Fails(t)
    <2>1. PICK t \in Task : Fails(t)
      BY <1>5
    <2>2. call'[t].state = "failed" /\ tokens' = tokens /\ collected' = collected
      BY <1>1, <2>1 DEF Fails, CallState
    <2>3. QED
      BY <1>1, <2>2 DEF Costs
  <1>6. CASE \E t \in Task : StartCall(t) \/ Retries(t)
    <2>1. PICK t \in Task : StartCall(t) \/ Retries(t)
      BY <1>6
    <2>2. /\ Answered' = Answered /\ tokens' = tokens /\ collected' = collected /\ spent' = spent
      <3>1. CASE StartCall(t)
        BY <1>1, <3>1 DEF StartCall, Answered, CallState
      <3>2. CASE Retries(t)
        BY <1>1, <3>2 DEF Retries, Answered, CallState, Calling
      <3>3. QED
        BY <2>1, <3>1, <3>2
    <2>3. QED
      BY <1>3, <2>2 DEF Costs
  <1>7. CASE Collect \/ LeavePool \/ Finish
    <2>1. call' = call /\ spent' = spent
      BY <1>7 DEF Collect, LeavePool, Finish
    <2>2. Answered' = Answered
      BY <1>1, <2>1 DEF Answered
    <2>3. tokens' = collected'
      BY <1>7 DEF Collect, LeavePool, Finish, Costs
    <2>4. QED
      BY <1>3, <2>1, <2>2, <2>3
  <1>8. CASE Abort
    <2>1. /\ tokens' = tokens /\ collected' = collected /\ spent' = spent
          /\ \A t \in Task : call'[t] = Cancel(t)
      BY <1>8 DEF Abort
    <2>2. \A t \in Task : call'[t].state = "answered" <=> call[t].state = "answered"
      BY <1>1, <2>1 DEF Cancel, CallState
    <2>3. Answered' = Answered
      BY <1>1, <2>2 DEF Answered
    <2>4. QED
      BY <1>3, <2>1, <2>3 DEF Costs
  <1>9. QED
    BY <1>4, <1>5, <1>6, <1>7, <1>8, BuildSteps DEF PoolInv

\* The answers that have been collected stay where they are.
LEMMA JoinedKeeps ==
  ASSUME PoolInv, BuildStep
  PROVE  /\ Joined(AnswerRows', Cardinality(Task), collected) = Joined(AnswerRows, Cardinality(Task), collected)
         /\ AnswerRows \in [1 .. Cardinality(Task) -> Seq(Row)]
  <1>1. /\ Task' = Task /\ call \in [Task -> CallState] /\ Task = 1 .. Cardinality(Task)
        /\ Cardinality(Task) \in Nat /\ collected \in 0 .. Cardinality(Task)
        /\ \A t \in Task : call[t].state = "answered" => call'[t] = call[t]
    BY CallsChange, Tasks DEF PoolInv, TypeOK
  <1>2. \A t \in 1 .. collected : t \in Task /\ call'[t] = call[t]
    BY <1>1 DEF PoolInv, Pool
  <1>3. \A t \in 1 .. collected : AnswerRows'[t] = AnswerRows[t]
    BY <1>1, <1>2 DEF AnswerRows
  <1>4. AnswerRows \in [1 .. Cardinality(Task) -> Seq(Row)]
    BY <1>1 DEF AnswerRows, CallState
  <1>5. QED
    BY <1>1, <1>3, <1>4, JoinedSame

LEMMA ContentsKeep ==
  ASSUME PoolInv, Contents, BuildStep,
         rows' = rows, collected' = collected, builder # "done", builder' # "done", exact' => exact
  PROVE  Contents'
  <1>1. mode' = mode /\ Task' = Task
    BY CallsChange DEF PoolInv
  <1>2. Answers(rows)'
    BY DEF Contents, Answers
  <1>3. (mode = "label" => Labelled)'
    BY <1>1 DEF Contents, Labelled, SentBy
  <1>4. rows' = Joined(AnswerRows', Cardinality(Task'), collected')
    BY <1>1, JoinedKeeps DEF Contents
  <1>5. (mode = "generate" /\ builder # "done" /\ exact => Len(rows) = AskedBy(collected))'
    BY <1>1 DEF Contents, AskedBy
  <1>6. CorpusFollowsRequests'
    BY DEF CorpusFollowsRequests
  <1>7. QED
    BY <1>2, <1>3, <1>4, <1>5, <1>6 DEF Contents, Joined

LEMMA CollectContents ==
  ASSUME PoolInv, Returned, Contents, Collect
  PROVE  Contents'
  <1> DEFINE t == collected + 1
             rs == call[t].rows
             B == LabelBatch
  <1>1. /\ rows \in Seq(Row) /\ call \in [Task -> CallState] /\ collected \in Nat
        /\ Task = 1 .. Cardinality(Task) /\ Cardinality(Task) \in Nat
        /\ exact \in BOOLEAN /\ B \in Nat \ {0}
    BY Tasks, Numbers DEF PoolInv, TypeOK
  <1>2. /\ builder = "collecting" /\ builder' = "collecting" /\ t \in Task /\ t - 1 = collected
        /\ call[t].state = "answered" /\ rows' = rows \o rs /\ collected' = t
        /\ mode' = mode /\ call' = call /\ exact' = exact
    BY <1>1 DEF Collect
  <1>3. rs \in Seq(Row) /\ Fits(t, rs, exact)
    BY <1>1, <1>2 DEF Returned, CallState
  <1> HIDE DEF t, rs
  <1>4. /\ Len(rows') = Len(rows) + Len(rs) /\ Len(rows) \in Nat /\ Len(rs) \in Nat
        /\ DOMAIN rows' = 1 .. Len(rows) + Len(rs)
        /\ \A i \in DOMAIN rows' : IF i <= Len(rows) THEN i \in DOMAIN rows /\ rows'[i] = rows[i]
                                   ELSE i - Len(rows) \in DOMAIN rs /\ rows'[i] = rs[i - Len(rows)]
    BY <1>1, <1>2, <1>3
  <1>5. Answers(rows')
    BY <1>3, <1>4 DEF Contents, Answers, Fits
  <1>6. ASSUME mode = "label"
        PROVE  Labelled'
    <2>1. /\ \A i \in DOMAIN rows : rows[i].text \in Nat /\ rows[i].text <= collected * B
          /\ \A i, j \in DOMAIN rows : i < j => rows[i].text < rows[j].text
          /\ Len(rows) <= SentBy(collected)
          /\ exact => Len(rows) = SentBy(collected)
      BY <1>6 DEF Contents, Labelled
    <2>2. /\ BatchOf(t) = collected * B + 1 .. SentBy(t)
          /\ Cardinality(BatchOf(t)) = SentBy(t) - SentBy(collected)
          /\ SentBy(collected) \in Nat /\ SentBy(t) \in Nat
      BY <1>2, <1>6, BatchPlace
    <2>3. /\ \A i \in DOMAIN rs : rs[i].text \in collected * B + 1 .. SentBy(t)
          /\ \A i, j \in DOMAIN rs : i < j => rs[i].text < rs[j].text
          /\ Len(rs) <= SentBy(t) - SentBy(collected)
          /\ exact => Len(rs) = SentBy(t) - SentBy(collected)
      BY <1>3, <1>6, <2>2 DEF Fits
    <2>4. SentBy(t) <= t * B /\ collected * B <= t * B /\ t * B \in Nat /\ collected * B \in Nat
      <3>1. t \in Nat /\ collected <= t
        BY <1>1, <1>2
      <3>2. t * B \in Nat /\ collected * B \in Nat /\ collected * B <= t * B
        BY <1>1, <3>1, Products
      <3>3. Cardinality(Texts) \in Nat /\ SentBy(t) = IF t * B < Cardinality(Texts) THEN t * B ELSE Cardinality(Texts)
        BY Numbers DEF SentBy
      <3>4. QED
        BY <3>2, <3>3
    <2> HIDE DEF B
    <2>5. \A i \in DOMAIN rows' : rows'[i].text \in Nat /\ rows'[i].text <= t * B
      <3>1. SUFFICES ASSUME NEW i \in DOMAIN rows'
                     PROVE  rows'[i].text \in Nat /\ rows'[i].text <= t * B
        OBVIOUS
      <3>2. CASE i <= Len(rows)
        <4>1. i \in DOMAIN rows /\ rows'[i] = rows[i]
          BY <1>4, <3>2
        <4>2. rows[i].text \in Nat /\ rows[i].text <= collected * B
          BY <2>1, <4>1
        <4>3. QED
          BY <2>4, <4>1, <4>2
      <3>3. CASE ~(i <= Len(rows))
        <4>1. i - Len(rows) \in DOMAIN rs /\ rows'[i] = rs[i - Len(rows)]
          BY <1>4, <3>3
        <4>2. rs[i - Len(rows)].text \in collected * B + 1 .. SentBy(t)
          BY <2>3, <4>1
        <4>3. QED
          BY <2>2, <2>4, <4>1, <4>2
      <3>4. QED
        BY <3>2, <3>3
    <2>6. \A i, j \in DOMAIN rows' : i < j => rows'[i].text < rows'[j].text
      <3>1. SUFFICES ASSUME NEW i \in DOMAIN rows', NEW j \in DOMAIN rows', i < j
                     PROVE  rows'[i].text < rows'[j].text
        OBVIOUS
      <3>2. CASE j <= Len(rows)
        <4>1. /\ i \in DOMAIN rows /\ rows'[i] = rows[i] /\ j \in DOMAIN rows /\ rows'[j] = rows[j]
          BY <1>4, <3>1, <3>2
        <4>2. QED
          BY <2>1, <3>1, <4>1
      <3>3. CASE i <= Len(rows) /\ ~(j <= Len(rows))
        <4>1. /\ i \in DOMAIN rows /\ rows'[i] = rows[i]
              /\ j - Len(rows) \in DOMAIN rs /\ rows'[j] = rs[j - Len(rows)]
          BY <1>4, <3>3
        <4>2. /\ rows[i].text \in Nat /\ rows[i].text <= collected * B
              /\ rs[j - Len(rows)].text \in collected * B + 1 .. SentBy(t)
          BY <2>1, <2>3, <4>1
        <4>3. QED
          BY <2>2, <2>4, <4>1, <4>2
      <3>4. CASE ~(i <= Len(rows))
        <4>1. ~(j <= Len(rows)) /\ i - Len(rows) < j - Len(rows)
          BY <1>4, <3>1, <3>4
        <4>2. /\ i - Len(rows) \in DOMAIN rs /\ rows'[i] = rs[i - Len(rows)]
              /\ j - Len(rows) \in DOMAIN rs /\ rows'[j] = rs[j - Len(rows)]
          BY <1>4, <3>4, <4>1
        <4>3. QED
          BY <2>3, <4>1, <4>2
      <3>5. QED
        BY <3>2, <3>3, <3>4
    <2>7. Len(rows') <= SentBy(t) /\ (exact => Len(rows') = SentBy(t))
      <3>1. Len(rows') = Len(rows) + Len(rs) /\ Len(rows) \in Nat /\ Len(rs) \in Nat
        BY <1>4
      <3>2. Len(rows) <= SentBy(collected) /\ Len(rs) <= SentBy(t) - SentBy(collected)
        BY <2>1, <2>3
      <3>3. exact => Len(rows) = SentBy(collected) /\ Len(rs) = SentBy(t) - SentBy(collected)
        BY <2>1, <2>3
      <3>4. SentBy(collected) \in Nat /\ SentBy(t) \in Nat
        BY <2>2
      <3>5. QED
        BY <3>1, <3>2, <3>3, <3>4
    <2>8. SentBy(collected)' = SentBy(t)
      BY <1>2 DEF SentBy
    <2>9. (collected * LabelBatch)' = t * B
      BY <1>2 DEF B
    <2>10. QED
      BY <1>2, <2>5, <2>6, <2>7, <2>8, <2>9 DEF Labelled
  <1>7. rows' = Joined(AnswerRows, Cardinality(Task), t)
    <2>1. AnswerRows \in [1 .. Cardinality(Task) -> Seq(Row)] /\ AnswerRows[t] = rs
      BY <1>1, <1>2 DEF AnswerRows, CallState, rs
    <2>2. rows = Joined(AnswerRows, Cardinality(Task), collected)
      BY <1>2 DEF Contents
    <2>3. collected \in 0 .. Cardinality(Task) - 1 /\ t = collected + 1
      BY <1>1, <1>2 DEF t
    <2>4. /\ Joined(AnswerRows, Cardinality(Task), collected + 1)
               = Joined(AnswerRows, Cardinality(Task), collected) \o AnswerRows[collected + 1]
      BY <1>1, <2>1, <2>3, JoinedStep
    <2>5. QED
      BY <1>2, <2>1, <2>2, <2>3, <2>4
  <1>8. Task' = Task /\ AnswerRows' = AnswerRows
    BY <1>2 DEF Task, AnswerRows
  <1>9. ASSUME mode = "generate", exact
        PROVE  Len(rows') = AskedBy(t)
    <2>1. Len(rows) = AskedBy(collected)
      BY <1>2, <1>9 DEF Contents
    <2>2. Len(rs) = CountOf(t)
      BY <1>3, <1>9 DEF Fits
    <2>3. AskedBy(t) = AskedBy(collected) + CountOf(t)
      BY <1>2, <1>9, AskedStep
    <2>4. QED
      BY <1>4, <2>1, <2>2, <2>3
  <1>10. CorpusFollowsRequests'
    BY <1>2 DEF CorpusFollowsRequests
  <1>11. Joined(AnswerRows, Cardinality(Task), collected)' = Joined(AnswerRows, Cardinality(Task), t)
    BY <1>2, <1>8 DEF Joined, Flat
  <1>12. AskedBy(collected)' = AskedBy(t)
    BY <1>2 DEF AskedBy
  <1>13. QED
    BY <1>2, <1>5, <1>6, <1>7, <1>9, <1>10, <1>11, <1>12 DEF Contents, Answers

\* The corpus is what the answers are, cut to size.
LEMMA FinishContents ==
  ASSUME CorpusInv, Finish
  PROVE  Contents'
  <1> DEFINE N == Cardinality(Task)
             flat == FlattenSeq(AnswerRows)
             full == IF mode = "generate" THEN NumSamples ELSE Cardinality(Texts)
  <1>1. /\ rows \in Seq(Row) /\ call \in [Task -> CallState]
        /\ Task = 1 .. N /\ N \in Nat \ {0} /\ mode \in {"generate", "label"}
        /\ exact \in BOOLEAN /\ NumSamples \in Nat \ {0} /\ Cardinality(Texts) \in Nat \ {0}
    BY Tasks, Numbers, ModeType DEF CorpusInv, PoolInv, TypeOK
  <1>2. /\ builder = "collecting" /\ collected = N /\ collected' = N
        /\ mode' = mode /\ call' = call /\ exact' = exact /\ tokens' = tokens /\ spent' = spent
        /\ IF mode = "generate" /\ rows = <<>>
             THEN builder' = "failed" /\ rows' = rows
             ELSE builder' = "done" /\ rows' = Truncate(rows)
    BY DEF Finish
  <1>3. Contents /\ Costs /\ Returned /\ PoolInv
    BY DEF CorpusInv
  <1>4. Task' = Task /\ AnswerRows' = AnswerRows
    BY <1>2 DEF Task, AnswerRows
  <1>5. CASE mode = "generate" /\ rows = <<>>
    <2>1. builder' = "failed" /\ rows' = rows
      BY <1>2, <1>5
    <2>2. (Answers(rows))'
      BY <1>3, <2>1 DEF Contents, Answers
    <2>3. Joined(AnswerRows, Cardinality(Task), collected)' = Joined(AnswerRows, Cardinality(Task), collected)
      BY <1>2, <1>4 DEF Joined, Flat
    <2>4. (mode = "generate" /\ exact => Len(rows) = AskedBy(collected))'
      BY <1>2, <1>3, <2>1 DEF Contents, AskedBy
    <2>5. CorpusFollowsRequests'
      BY <2>1 DEF CorpusFollowsRequests
    <2>6. QED
      BY <1>2, <1>3, <1>5, <2>1, <2>2, <2>3, <2>4, <2>5 DEF Contents
  <1>6. CASE ~(mode = "generate" /\ rows = <<>>)
    <2>1. builder' = "done" /\ rows' = Truncate(rows)
      BY <1>2, <1>6
    <2>2. rows = flat
      <3>1. AnswerRows \in [1 .. N -> Seq(Row)]
        BY <1>1 DEF AnswerRows, CallState
      <3>2. Len(AnswerRows) = N
        BY <1>1, <3>1
      <3>3. rows = Joined(AnswerRows, N, N)
        BY <1>2, <1>3 DEF Contents
      <3> HIDE DEF N
      <3>4. QED
        BY <1>1, <3>2, <3>3, JoinedAll
    <2> HIDE DEF flat
    <2>3. /\ rows' = IF mode = "generate" /\ Len(rows) > NumSamples THEN SubSeq(rows, 1, NumSamples) ELSE rows
          /\ Len(rows) \in Nat
      BY <1>1, <2>1 DEF Truncate
    <2>4. /\ rows' = SubSeq(rows, 1, Len(rows')) /\ Len(rows') \in Nat /\ Len(rows') <= Len(rows)
          /\ \A i \in DOMAIN rows' : i \in DOMAIN rows /\ rows'[i] = rows[i]
      <3>1. CASE mode = "generate" /\ Len(rows) > NumSamples
        <4>1. rows' = SubSeq(rows, 1, NumSamples)
          BY <2>3, <3>1
        <4>2. Len(rows') = NumSamples
          BY <1>1, <3>1, <4>1
        <4>3. QED
          BY <1>1, <3>1, <4>1, <4>2
      <3>2. CASE ~(mode = "generate" /\ Len(rows) > NumSamples)
        <4>1. rows' = rows
          BY <2>3, <3>2
        <4>2. rows = SubSeq(rows, 1, Len(rows))
          BY <1>1
        <4>3. QED
          BY <1>1, <4>1, <4>2
      <3>3. QED
        BY <3>1, <3>2
    <2>5. Answers(rows')
      BY <1>3, <2>4 DEF Contents, Answers
    <2>6. ASSUME mode = "generate"
          PROVE  /\ Len(rows') <= NumSamples /\ rows' # <<>>
                 /\ exact => Len(rows') = NumSamples
      <3>1. rows # <<>> /\ Len(rows) # 0
        BY <1>1, <1>6, <2>6
      <3>2. exact => NumSamples <= Len(rows)
        BY <1>2, <1>3, <2>6, AskedAll DEF Contents
      <3>3. Len(rows') = IF Len(rows) > NumSamples THEN NumSamples ELSE Len(rows)
        BY <1>1, <2>3, <2>6
      <3>4. Len(rows') # 0
        BY <1>1, <2>3, <3>1, <3>3
      <3>5. QED
        BY <1>1, <2>3, <3>2, <3>3, <3>4
    <2>7. ASSUME mode = "label"
          PROVE  /\ rows' = rows /\ Labelled
                 /\ Len(rows') <= Cardinality(Texts)
                 /\ exact => Len(rows') = Cardinality(Texts)
      <3>1. rows' = rows /\ Labelled
        BY <1>3, <2>3, <2>7 DEF Contents
      <3>2. SentBy(collected) = Cardinality(Texts)
        BY <1>2, <2>7, SentAll
      <3>3. QED
        BY <3>1, <3>2 DEF Labelled
    <2>8. tokens = spent
      <3>1. \A t \in Task : call[t].state = "answered"
        BY <1>1, <1>2, <1>3 DEF PoolInv, Pool
      <3>2. Answered = Task /\ \A t \in Task : call[t].state # "failed"
        BY <3>1 DEF Answered
      <3>3. QED
        BY <1>2, <1>3, <3>2 DEF Costs
    <2>9. CorpusFollowsRequests'
      <3>1. full \in Nat /\ Len(rows') <= full /\ (exact => Len(rows') = full)
        BY <1>1, <2>6, <2>7
      <3>2. FlattenSeq([t \in Task |-> call[t].rows])' = flat
        BY <1>4 DEF AnswerRows, flat
      <3>3. rows' = SubSeq(flat, 1, Len(rows'))
        BY <2>2, <2>4
      <3>4. full' = full
        BY <1>2
      <3>5. mode = "label" => /\ Len(rows') = Len(flat)
                              /\ \A i, j \in DOMAIN rows' : i < j => rows'[i].text < rows'[j].text
        BY <2>2, <2>7 DEF Labelled
      <3>6. QED
        BY <1>2, <2>6, <2>8, <3>1, <3>2, <3>3, <3>4, <3>5 DEF CorpusFollowsRequests
    <2>10. mode = "label" => Labelled'
      BY <1>2, <2>7 DEF Labelled, SentBy
    <2>11. QED
      BY <1>2, <2>1, <2>5, <2>9, <2>10 DEF Contents, Answers
  <1>7. QED
    BY <1>5, <1>6

LEMMA BuildCorpus ==
  ASSUME CorpusInv, BuildStep
  PROVE  CorpusInv'
  <1>1. PoolInv /\ Returned /\ Costs /\ Contents /\ exact \in BOOLEAN
    BY DEF CorpusInv, PoolInv, TypeOK
  <1>2. PoolInv' /\ Returned' /\ Costs'
    BY <1>1, BuildPool, BuildReturned, BuildCosts
  <1>3. builder # "done"
    BY <1>1, EndedIsQuiet DEF Ended
  <1>4. Contents'
    <2>1. ASSUME NEW t \in Task, StartCall(t) \/ Fails(t) \/ Retries(t)
          PROVE  Contents'
      BY <1>1, <1>3, <2>1, ContentsKeep DEF StartCall, Fails, Retries
    <2>2. ASSUME NEW t \in Task, NEW rs \in Seq(Row), NEW asked \in BOOLEAN, Respond(t, rs, asked)
          PROVE  Contents'
      BY <1>1, <1>3, <2>2, ContentsKeep DEF Respond
    <2>3. CASE Abort
      BY <1>1, <1>3, <2>3, ContentsKeep DEF Abort
    <2>4. CASE LeavePool
      BY <1>1, <1>3, <2>4, ContentsKeep DEF LeavePool
    <2>5. CASE Collect
      BY <1>1, <2>5, CollectContents
    <2>6. CASE Finish
      BY <2>6, FinishContents
    <2>7. QED
      BY <1>1, <2>1, <2>2, <2>3, <2>4, <2>5, <2>6, BuildSteps DEF PoolInv
  <1>5. QED
    BY <1>2, <1>4 DEF CorpusInv

\* A step of the engine leaves the corpus alone.
LEMMA CorpusStays ==
  ASSUME CorpusInv, UNCHANGED corpusVars
  PROVE  CorpusInv'
  <1>1. /\ mode' = mode /\ threads' = threads /\ call' = call /\ builder' = builder
        /\ collected' = collected /\ rows' = rows /\ tokens' = tokens /\ spent' = spent /\ exact' = exact
    BY DEF corpusVars
  <1>2. Task' = Task
    BY <1>1 DEF Task
  <1>3. Calling' = Calling /\ Answered' = Answered /\ AnswerRows' = AnswerRows
    BY <1>1, <1>2 DEF Calling, Answered, AnswerRows
  <1>4. PoolInv'
    BY <1>1, <1>2, <1>3 DEF CorpusInv, PoolInv, Pool, TypeOK, CallState, Row
  <1>5. Returned' /\ Costs'
    BY <1>1, <1>2, <1>3 DEF CorpusInv, Returned, Fits, Costs
  <1>6. CorpusFollowsRequests'
    BY <1>1, <1>2 DEF CorpusInv, Contents, CorpusFollowsRequests
  <1>7. Contents'
    <2>1. (mode = "label" => Labelled)'
      BY <1>1 DEF CorpusInv, Contents, Labelled, SentBy
    <2>2. Joined(AnswerRows, Cardinality(Task), collected)' = Joined(AnswerRows, Cardinality(Task), collected)
      BY <1>1, <1>2, <1>3 DEF Joined, Flat
    <2>3. AskedBy(collected)' = AskedBy(collected)
      BY <1>1 DEF AskedBy
    <2>4. QED
      BY <1>1, <1>6, <2>1, <2>2, <2>3 DEF CorpusInv, Contents, Answers
  <1>8. QED
    BY <1>4, <1>5, <1>7 DEF CorpusInv

-----------------------------------------------------------------------------
(* The resolution of labels.                                               *)

LEMMA MaxType ==
  ASSUME NEW S \in SUBSET Int, IsFiniteSet(S), S # {}
  PROVE  Max(S) \in S /\ \A y \in S : y <= Max(S)
  <1> DEFINE s == Sorted(S)
             n == Cardinality(S)
  <1>1. s \in [1 .. n -> S] /\ n \in Nat /\ Ascends(s)
    BY SortedType
  <1>2. ASSUME NEW y \in S
        PROVE  \E i \in 1 .. n : s[i] = y
    BY SortedPlace
  <1> HIDE DEF s, n
  <1>3. n \in 1 .. n
    <2>1. PICK y \in S : TRUE
      OBVIOUS
    <2>2. \E i \in 1 .. n : s[i] = y
      BY <1>2
    <2>3. QED
      BY <1>1, <2>2
  <1>4. s[n] \in S /\ s[n] \in Int
    BY <1>1, <1>3
  <1>5. ASSUME NEW y \in S
        PROVE  s[n] >= y
    <2>1. PICK i \in 1 .. n : s[i] = y
      BY <1>2
    <2>2. i < n \/ i = n
      BY <1>1
    <2>3. i < n => s[i] < s[n]
      BY <1>1, <1>3 DEF Ascends
    <2>4. QED
      BY <1>4, <2>1, <2>2, <2>3
  <1>6. \E x \in S : \A y \in S : x >= y
    BY <1>4, <1>5
  <1>7. Max(S) \in S /\ \A y \in S : Max(S) >= y
    BY <1>6 DEF Max
  <1>8. QED
    BY <1>7

LEMMA MinType ==
  ASSUME NEW S \in SUBSET Int, IsFiniteSet(S), S # {}
  PROVE  Min(S) \in S
  <1> DEFINE s == Sorted(S)
             n == Cardinality(S)
  <1>1. s \in [1 .. n -> S] /\ n \in Nat /\ Ascends(s)
    BY SortedType
  <1>2. ASSUME NEW y \in S
        PROVE  \E i \in 1 .. n : s[i] = y
    BY SortedPlace
  <1> HIDE DEF s, n
  <1>3. 1 \in 1 .. n
    <2>1. PICK y \in S : TRUE
      OBVIOUS
    <2>2. \E i \in 1 .. n : s[i] = y
      BY <1>2
    <2>3. QED
      BY <1>1, <2>2
  <1>4. s[1] \in S /\ s[1] \in Int
    BY <1>1, <1>3
  <1>5. ASSUME NEW y \in S
        PROVE  s[1] =< y
    <2>1. PICK i \in 1 .. n : s[i] = y
      BY <1>2
    <2>2. 1 < i \/ i = 1
      BY <1>1
    <2>3. 1 < i => s[1] < s[i]
      BY <1>1, <1>3 DEF Ascends
    <2>4. QED
      BY <1>4, <2>1, <2>2, <2>3
  <1>6. \E x \in S : \A y \in S : x =< y
    BY <1>4, <1>5
  <1>7. QED
    BY <1>6 DEF Min

LEMMA IndexType ==
  ASSUME NEW names \in Seq(Int), NEW text \in ToSet(names)
  PROVE  IndexOf(text, names) \in 0 .. Len(names) - 1
  <1> DEFINE I == {i \in DOMAIN names : names[i] = text}
  <1>1. Len(names) \in Nat /\ DOMAIN names = 1 .. Len(names)
    OBVIOUS
  <1>2. IsFiniteSet(1 .. Len(names))
    BY <1>1, FS_Interval
  <1>3. I \in SUBSET (1 .. Len(names)) /\ I \in SUBSET Int /\ I # {}
    BY <1>1 DEF ToSet
  <1>4. IsFiniteSet(I)
    BY <1>2, <1>3, FS_Subset
  <1> HIDE DEF I
  <1>5. Max(I) \in I
    BY <1>3, <1>4, MaxType
  <1>6. Max(I) \in 1 .. Len(names)
    BY <1>3, <1>5
  <1>7. QED
    BY <1>1, <1>6 DEF IndexOf, I

\* In a sorted table, a text is at the number of those before it.
LEMMA IndexSorted ==
  ASSUME NEW S \in SUBSET Int, IsFiniteSet(S), NEW text \in S
  PROVE  text \in ToSet(Sorted(S)) /\ IndexOf(text, Sorted(S)) = Cardinality(Before(S, text))
  <1> DEFINE s == Sorted(S)
             k == Cardinality(Before(S, text)) + 1
  <1>1. /\ k \in 1 .. Cardinality(S) /\ s[k] = text
        /\ \A j \in DOMAIN s : s[j] = text => j = k
    BY SortedPlace
  <1>2. DOMAIN s = 1 .. Cardinality(S) /\ Cardinality(S) \in Nat
    BY SortedType
  <1>3. Cardinality(Before(S, text)) \in Nat
    BY BeforeType, FS_CardinalityType
  <1> HIDE DEF s
  <1> HIDE DEF k
  <1>4. {i \in DOMAIN s : s[i] = text} = {k}
    BY <1>1, <1>2
  <1>5. k \in Int
    BY <1>1, <1>2
  <1>6. Max({k}) = k
    BY <1>5 DEF Max
  <1>7. IndexOf(text, s) = k - 1
    BY <1>4, <1>6 DEF IndexOf
  <1>8. text \in ToSet(s)
    BY <1>1, <1>2 DEF ToSet
  <1>9. QED
    BY <1>3, <1>7, <1>8 DEF s, k

LEMMA TextsOfType ==
  ASSUME NEW raw \in Seq(RawLabel)
  PROVE  /\ TextsOf(raw) \in SUBSET Int /\ IsFiniteSet(TextsOf(raw))
         /\ \A i \in DOMAIN raw : raw[i].text \in TextsOf(raw)
  <1>1. DOMAIN raw = 1 .. Len(raw) /\ Len(raw) \in Nat
    OBVIOUS
  <1>2. IsFiniteSet(DOMAIN raw)
    BY <1>1, FS_Interval
  <1> DEFINE f == [i \in DOMAIN raw |-> raw[i].text]
  <1>3. f \in Surjection(DOMAIN raw, TextsOf(raw))
    BY DEF Surjection, TextsOf
  <1>4. IsFiniteSet(TextsOf(raw))
    BY <1>2, <1>3, FS_Surjection
  <1>5. \A i \in DOMAIN raw : raw[i].text \in Int
    <2>1. \A i \in DOMAIN raw : raw[i] \in RawLabel
      OBVIOUS
    <2>2. QED
      BY <2>1 DEF RawLabel
  <1>6. QED
    BY <1>4, <1>5 DEF TextsOf

LEMMA CutType ==
  ASSUME NEW raw \in Seq(RawLabel), NEW max \in Nat
  PROVE  /\ Cut(raw, max) \in Seq(RawLabel) /\ Len(Cut(raw, max)) <= Len(raw)
         /\ max = 0 => Cut(raw, max) = raw
  <1>1. CASE max # 0 /\ Len(raw) > max
    <2>1. SubSeq(raw, 1, max) \in Seq(RawLabel) /\ Len(SubSeq(raw, 1, max)) = max
      BY <1>1
    <2>2. QED
      BY <1>1, <2>1 DEF Cut
  <1>2. CASE ~(max # 0 /\ Len(raw) > max)
    BY <1>2 DEF Cut
  <1>3. QED
    BY <1>1, <1>2

Unresolved(r) == r.ok = FALSE /\ r.ids = <<>> /\ r.names = <<>>

LEMMA TableResolves ==
  ASSUME NEW raw \in Seq(RawLabel), NEW names \in Seq(Int)
  PROVE  LET r == ResolveByTable(raw, names)
         IN  \/ Unresolved(r) /\ \E i \in DOMAIN raw : raw[i].kind = "str" /\ raw[i].text \notin ToSet(names)
             \/ /\ r.ok = TRUE /\ r.names = names /\ r.ids \in Seq(Int) /\ Len(r.ids) = Len(raw)
                /\ \A i \in DOMAIN raw :
                     r.ids[i] = IF raw[i].kind = "str" THEN IndexOf(raw[i].text, names) ELSE raw[i].value
                /\ \A i \in DOMAIN raw : raw[i].kind = "str" => r.ids[i] \in 0 .. Len(names) - 1
  <1> DEFINE unknown == \E i \in DOMAIN raw : raw[i].kind = "str" /\ raw[i].text \notin ToSet(names)
             ids == [i \in DOMAIN raw |-> IF raw[i].kind = "str" THEN IndexOf(raw[i].text, names)
                                                                ELSE raw[i].value]
  <1>1. CASE unknown
    <2>1. ResolveByTable(raw, names) = Failed
      BY <1>1 DEF ResolveByTable
    <2>2. QED
      BY <1>1, <2>1 DEF Failed, Unresolved
  <1>2. CASE ~unknown
    <2>1. ResolveByTable(raw, names) = Resolved(ids, names)
      BY <1>2 DEF ResolveByTable
    <2>2. ASSUME NEW i \in DOMAIN raw
          PROVE  ids[i] \in Int /\ (raw[i].kind = "str" => ids[i] \in 0 .. Len(names) - 1)
      <3>1. raw[i] \in RawLabel
        OBVIOUS
      <3>2. CASE raw[i].kind = "str"
        <4>1. IndexOf(raw[i].text, names) \in 0 .. Len(names) - 1
          BY <1>2, <3>2, IndexType
        <4>2. QED
          BY <3>2, <4>1
      <3>3. CASE raw[i].kind # "str"
        BY <3>1, <3>3 DEF RawLabel
      <3>4. QED
        BY <3>2, <3>3
    <2>3. \A i \in DOMAIN raw :
            ids[i] = IF raw[i].kind = "str" THEN IndexOf(raw[i].text, names) ELSE raw[i].value
      OBVIOUS
    <2>4. DOMAIN ids = 1 .. Len(raw) /\ Len(raw) \in Nat /\ DOMAIN raw = 1 .. Len(raw)
      OBVIOUS
    <2>5. ids = [i \in 1 .. Len(raw) |-> ids[i]]
      BY <2>4
    <2> HIDE DEF ids
    <2>6. ids \in Seq(Int) /\ Len(ids) = Len(raw)
      BY <2>2, <2>4, <2>5
    <2>7. QED
      BY <2>1, <2>2, <2>3, <2>6 DEF Resolved
  <1>3. QED
    BY <1>1, <1>2

LEMMA NumbersResolve ==
  ASSUME NEW raw \in Seq(RawLabel)
  PROVE  LET r == ResolveNumbers(raw)
         IN  /\ r.ok = TRUE /\ r.names \in Seq(Int) /\ r.ids \in Seq(Int) /\ Len(r.ids) = Len(raw)
             /\ \A i \in DOMAIN raw : r.ids[i] = raw[i].value
  <1> DEFINE ids  == [i \in DOMAIN raw |-> raw[i].value]
             last == IF raw = <<>> THEN -1 ELSE Max(ToSet(ids))
             names == [i \in 1 .. last + 1 |-> i - 1]
  <1>1. ResolveNumbers(raw) = Resolved(ids, names)
    BY DEF ResolveNumbers
  <1>2. ids \in Seq(Int) /\ Len(ids) = Len(raw) /\ \A i \in DOMAIN raw : ids[i] = raw[i].value
    <2>1. \A i \in DOMAIN raw : raw[i] \in RawLabel
      OBVIOUS
    <2>2. \A i \in DOMAIN raw : raw[i].value \in Int
      BY <2>1 DEF RawLabel
    <2>3. DOMAIN raw = 1 .. Len(raw) /\ Len(raw) \in Nat
      OBVIOUS
    <2>4. QED
      BY <2>2, <2>3
  <1>3. last \in Int
    <2>1. CASE raw = <<>>
      BY <2>1
    <2>2. CASE raw # <<>>
      <3>1. DOMAIN ids = 1 .. Len(ids) /\ Len(ids) \in Nat /\ 1 \in DOMAIN ids
        BY <1>2, <2>2
      <3> HIDE DEF ids
      <3>2. IsFiniteSet(DOMAIN ids)
        BY <3>1, FS_Interval
      <3>3. ids \in Surjection(DOMAIN ids, ToSet(ids))
        BY <1>2, <3>1 DEF Surjection, ToSet
      <3>4. IsFiniteSet(ToSet(ids))
        BY <3>2, <3>3, FS_Surjection
      <3>5. ToSet(ids) \in SUBSET Int /\ ToSet(ids) # {}
        BY <1>2, <3>1 DEF ToSet
      <3>6. Max(ToSet(ids)) \in Int
        BY <3>4, <3>5, MaxType
      <3>7. QED
        BY <2>2, <3>6
    <2>3. QED
      BY <2>1, <2>2
  <1> HIDE DEF ids, last
  <1>4. names \in Seq(Int)
    <2> DEFINE k == last + 1
    <2>1. names = [i \in 1 .. k |-> i - 1] /\ k \in Int
      BY <1>3
    <2> HIDE DEF k, names
    <2>2. CASE k \in Nat
      BY <2>1, <2>2
    <2>3. CASE k \notin Nat
      <3>1. 1 .. k = 1 .. 0
        BY <2>1, <2>3
      <3>2. names = [i \in 1 .. 0 |-> i - 1]
        BY <2>1, <3>1
      <3>3. QED
        BY <3>2
    <2>4. QED
      BY <2>1, <2>2, <2>3
  <1> HIDE DEF names
  <1>5. QED
    BY <1>1, <1>2, <1>4 DEF Resolved

LEMMA TextsResolve ==
  ASSUME NEW raw \in Seq(RawLabel)
  PROVE  LET r == ResolveTexts(raw)
         IN  /\ r.ok = TRUE /\ r.names = SortedNames(raw) /\ r.names \in Seq(Int)
             /\ r.ids \in Seq(Int) /\ Len(r.ids) = Len(raw)
             /\ \A i \in DOMAIN raw : /\ r.ids[i] = IndexOf(raw[i].text, SortedNames(raw))
                                      /\ r.ids[i] = Cardinality(Before(TextsOf(raw), raw[i].text))
  <1> DEFINE S == TextsOf(raw)
             names == Sorted(S)
             ids == [i \in DOMAIN raw |-> IndexOf(raw[i].text, names)]
  <1>1. S \in SUBSET Int /\ IsFiniteSet(S) /\ \A i \in DOMAIN raw : raw[i].text \in S
    BY TextsOfType
  <1>2. ResolveTexts(raw) = Resolved(ids, names) /\ SortedNames(raw) = names
    BY DEF ResolveTexts, SortedNames
  <1> HIDE DEF S
  <1>3. names \in [1 .. Cardinality(S) -> S] /\ Cardinality(S) \in Nat
    BY <1>1, SortedType
  <1> HIDE DEF names
  <1>4. names \in Seq(Int)
    <2>1. names \in [1 .. Cardinality(S) -> Int]
      BY <1>1, <1>3
    <2>2. QED
      BY <1>3, <2>1
  <1>5. \A i \in DOMAIN raw : ids[i] = Cardinality(Before(S, raw[i].text))
    BY <1>1, IndexSorted DEF names
  <1>6. \A i \in DOMAIN raw : Cardinality(Before(S, raw[i].text)) \in Int
    <2>1. SUFFICES ASSUME NEW i \in DOMAIN raw
                   PROVE  Cardinality(Before(S, raw[i].text)) \in Int
      OBVIOUS
    <2>2. Cardinality(Before(S, raw[i].text)) \in 0 .. Cardinality(S) - 1
      BY <1>1, BeforeType
    <2>3. QED
      BY <1>3, <2>2
  <1>7. \A i \in DOMAIN raw : ids[i] = IndexOf(raw[i].text, names)
    OBVIOUS
  <1>8. ids = [i \in 1 .. Len(raw) |-> ids[i]] /\ DOMAIN raw = 1 .. Len(raw) /\ Len(raw) \in Nat
    OBVIOUS
  <1> HIDE DEF ids
  <1>9. ids \in Seq(Int) /\ Len(ids) = Len(raw)
    BY <1>5, <1>6, <1>8
  <1>10. QED
    BY <1>2, <1>4, <1>5, <1>7, <1>9 DEF Resolved, S

LEMMA ResolveType ==
  ASSUME NEW raw \in Seq(RawLabel), NEW names \in Seq(Int)
  PROVE  LET r == Resolve(raw, names)
         IN  r.ok \in BOOLEAN /\ r.ids \in Seq(Int) /\ r.names \in Seq(Int)
  <1>1. <<>> \in Seq(Int)
    OBVIOUS
  <1>2. CASE names # <<>>
    <2> DEFINE r == ResolveByTable(raw, names)
    <2>1. Resolve(raw, names) = r
      BY <1>2 DEF Resolve
    <2>2. \/ Unresolved(r)
          \/ r.ok = TRUE /\ r.names = names /\ r.ids \in Seq(Int)
      BY TableResolves
    <2> HIDE DEF r
    <2>3. QED
      BY <1>1, <2>1, <2>2 DEF Unresolved
  <1>3. CASE names = <<>> /\ \A i \in DOMAIN raw : raw[i].kind = "int"
    <2>1. Resolve(raw, names) = ResolveNumbers(raw)
      BY <1>3 DEF Resolve
    <2>2. QED
      BY <2>1, NumbersResolve
  <1>4. CASE names = <<>> /\ ~ \A i \in DOMAIN raw : raw[i].kind = "int"
    <2>1. Resolve(raw, names) = ResolveTexts(raw)
      BY <1>4 DEF Resolve
    <2>2. QED
      BY <2>1, TextsResolve
  <1>5. QED
    BY <1>2, <1>3, <1>4

\* The rows of spec that are used.
TrainRows(spec) == Cut(spec.train, spec.maxTrain)

EvalRows(spec) == IF spec.evaluated THEN Cut(spec.eval, spec.maxEval) ELSE <<>>

LEMMA Bundles ==
  ASSUME NEW spec \in DatasetSpec
  PROVE  LET r == Resolve(TrainRows(spec), spec.names)
             e == Resolve(EvalRows(spec), r.names)
             b == BuildDatasets(spec)
         IN  /\ TrainRows(spec) \in Seq(RawLabel) /\ EvalRows(spec) \in Seq(RawLabel)
             /\ spec.names \in Seq(Int) /\ r.names \in Seq(Int) /\ r.ids \in Seq(Int)
             /\ b.train \in Seq(Int) /\ b.eval \in Seq(Int) /\ b.ok \in BOOLEAN
             /\ b.ok <=> r.ok /\ TrainRows(spec) # <<>> /\ (spec.evaluated => e.ok)
             /\ b.ok => b.train = r.ids /\ b.eval = e.ids /\ b.names = r.names
  <1> DEFINE r == Resolve(TrainRows(spec), spec.names)
             e == Resolve(EvalRows(spec), r.names)
             b == BuildDatasets(spec)
             n == Max({Len(r.names), Max(ToSet(r.ids)) + 1})
  <1>1. /\ spec.train \in Seq(RawLabel) /\ spec.eval \in Seq(RawLabel)
        /\ spec.names \in Seq(Int) /\ spec.maxTrain \in Nat /\ spec.maxEval \in Nat
        /\ spec.evaluated \in BOOLEAN
    BY DEF DatasetSpec
  <1>2. TrainRows(spec) \in Seq(RawLabel)
    BY <1>1, CutType DEF TrainRows
  <1>3. EvalRows(spec) \in Seq(RawLabel)
    <2>1. Cut(spec.eval, spec.maxEval) \in Seq(RawLabel)
      BY <1>1, CutType
    <2>2. QED
      BY <2>1 DEF EvalRows
  <1>4. r.ok \in BOOLEAN /\ r.ids \in Seq(Int) /\ r.names \in Seq(Int)
    BY <1>1, <1>2, ResolveType
  <1> HIDE DEF r
  <1>5. e.ok \in BOOLEAN /\ e.ids \in Seq(Int)
    BY <1>3, <1>4, ResolveType
  <1>6. b = IF ~r.ok \/ TrainRows(spec) = <<>> \/ (spec.evaluated /\ ~e.ok)
              THEN NoBundle
              ELSE [ok |-> TRUE, train |-> r.ids, eval |-> e.ids, names |-> r.names, numLabels |-> n]
    BY DEF BuildDatasets, TrainRows, EvalRows, EvalTable, r
  <1> HIDE DEF e, b, n
  <1>7. CASE ~r.ok \/ TrainRows(spec) = <<>> \/ (spec.evaluated /\ ~e.ok)
    <2>1. b.ok = FALSE /\ b.train = <<>> /\ b.eval = <<>>
      BY <1>6, <1>7 DEF NoBundle
    <2>2. <<>> \in Seq(Int)
      OBVIOUS
    <2>3. QED
      BY <1>1, <1>2, <1>3, <1>4, <1>5, <1>7, <2>1, <2>2 DEF r, e, b
  <1>8. CASE ~(~r.ok \/ TrainRows(spec) = <<>> \/ (spec.evaluated /\ ~e.ok))
    <2>1. b.ok = TRUE /\ b.train = r.ids /\ b.eval = e.ids /\ b.names = r.names
      BY <1>6, <1>8
    <2>2. QED
      BY <1>1, <1>2, <1>3, <1>4, <1>5, <1>8, <2>1 DEF r, e, b
  <1>9. QED
    BY <1>7, <1>8

\* What a table makes of a row.
LEMMA TableLooksUp ==
  ASSUME NEW raw \in Seq(RawLabel), NEW names \in Seq(Int), ResolveByTable(raw, names).ok,
         NEW m \in DOMAIN raw
  PROVE  /\ ResolveByTable(raw, names).names = names
         /\ ResolveByTable(raw, names).ids[m]
              = IF raw[m].kind = "str" THEN IndexOf(raw[m].text, names) ELSE raw[m].value
  <1> DEFINE ids == [i \in DOMAIN raw |-> IF raw[i].kind = "str" THEN IndexOf(raw[i].text, names)
                                                                ELSE raw[i].value]
  <1>1. ResolveByTable(raw, names) = Resolved(ids, names)
    BY DEF ResolveByTable, Failed
  <1>2. ids[m] = IF raw[m].kind = "str" THEN IndexOf(raw[m].text, names) ELSE raw[m].value
    OBVIOUS
  <1> HIDE DEF ids
  <1>3. QED
    BY <1>1, <1>2 DEF Resolved

\* Words are numbered from 0 without a gap, in their order.
LEMMA WordsInOrder ==
  ASSUME NEW spec \in DatasetSpec, spec.names = <<>>, BuildDatasets(spec).ok,
         NEW k \in DOMAIN TrainRows(spec), TrainRows(spec)[k].kind # "int",
         NEW i \in DOMAIN TrainRows(spec)
  PROVE  BuildDatasets(spec).train[i]
           = Cardinality(Before(TextsOf(TrainRows(spec)), TrainRows(spec)[i].text))
  <1> DEFINE train == TrainRows(spec)
             r == Resolve(train, spec.names)
  <1>1. train \in Seq(RawLabel) /\ BuildDatasets(spec).train = r.ids
    BY Bundles
  <1>2. r = ResolveTexts(train)
    BY DEF Resolve
  <1> HIDE DEF train, r
  <1>3. \A m \in DOMAIN train : r.ids[m] = Cardinality(Before(TextsOf(train), train[m].text))
    BY <1>1, <1>2, TextsResolve
  <1>4. QED
    BY <1>1, <1>3 DEF train

\* Equal rows are of the same class.
LEMMA SameRowSameClass ==
  ASSUME NEW spec \in DatasetSpec, BuildDatasets(spec).ok, spec.evaluated,
         BuildDatasets(spec).names # <<>>,
         \/ spec.names # <<>>
         \/ \A k \in DOMAIN TrainRows(spec) : TrainRows(spec)[k].kind = "int"
         \/ \A k \in DOMAIN TrainRows(spec) : TrainRows(spec)[k].kind = "str",
         NEW i \in DOMAIN TrainRows(spec), NEW j \in DOMAIN EvalRows(spec),
         TrainRows(spec)[i] = EvalRows(spec)[j]
  PROVE  BuildDatasets(spec).train[i] = BuildDatasets(spec).eval[j]
  <1> DEFINE train == TrainRows(spec)
             eval == EvalRows(spec)
             r == Resolve(train, spec.names)
             e == Resolve(eval, r.names)
             b == BuildDatasets(spec)
  <1>1. /\ train \in Seq(RawLabel) /\ eval \in Seq(RawLabel) /\ spec.names \in Seq(Int)
        /\ r.names \in Seq(Int) /\ r.names # <<>> /\ r.ok /\ e.ok
        /\ b.train = r.ids /\ b.eval = e.ids
    BY Bundles
  <1> HIDE DEF train, eval, b
  <1>2. e = ResolveByTable(eval, r.names)
    BY <1>1 DEF Resolve
  <1>3. e.ids[j] = IF eval[j].kind = "str" THEN IndexOf(eval[j].text, r.names) ELSE eval[j].value
    <2> HIDE DEF r, e
    <2>1. j \in DOMAIN eval
      BY DEF eval
    <2>2. QED
      BY <1>1, <1>2, <2>1, TableLooksUp
  <1>4. CASE spec.names # <<>>
    <2>1. r = ResolveByTable(train, spec.names)
      BY <1>4 DEF Resolve
    <2> HIDE DEF r, e
    <2>2. /\ r.ids[i] = IF train[i].kind = "str" THEN IndexOf(train[i].text, spec.names) ELSE train[i].value
          /\ r.names = spec.names
      <3>1. i \in DOMAIN train
        BY DEF train
      <3>2. QED
        BY <1>1, <2>1, <3>1, TableLooksUp
    <2>3. QED
      BY <1>1, <1>3, <2>2 DEF train, eval, b
  <1>5. CASE spec.names = <<>> /\ \A k \in DOMAIN train : train[k].kind = "int"
    <2>1. r = ResolveNumbers(train)
      BY <1>5 DEF Resolve
    <2> HIDE DEF r, e
    <2>2. r.ids[i] = train[i].value
      BY <1>1, <2>1, NumbersResolve DEF train
    <2>3. train[i].kind = "int"
      BY <1>5 DEF train
    <2>4. QED
      BY <1>1, <1>3, <2>2, <2>3 DEF train, eval, b
  <1>6. CASE spec.names = <<>> /\ \A k \in DOMAIN train : train[k].kind = "str"
    <2>1. train[i].kind = "str"
      BY <1>6 DEF train
    <2>2. r = ResolveTexts(train)
      BY <1>6, <2>1 DEF Resolve, train
    <2> HIDE DEF r, e
    <2>3. r.ids[i] = IndexOf(train[i].text, SortedNames(train)) /\ r.names = SortedNames(train)
      BY <1>1, <2>2, TextsResolve DEF train
    <2>4. QED
      BY <1>1, <1>3, <2>1, <2>3 DEF train, eval, b
  <1>7. QED
    BY <1>4, <1>5, <1>6 DEF train

-----------------------------------------------------------------------------
(* The dataset made of a corpus.                                           *)

LEMMA NameOfType ==
  ASSUME NEW label \in ToSet(Labels)
  PROVE  NameOf(label) \in RawLabel /\ NameOf(label).kind = "str"
  <1> DEFINE I == {i \in DOMAIN Labels : Labels[i] = label} \cup {Len(Labels) + 1}
  <1>1. DOMAIN Labels = 1 .. Len(Labels) /\ Len(Labels) \in Nat
    BY Numbers
  <1>2. I \in SUBSET (1 .. Len(Labels) + 1) /\ I # {}
    BY <1>1
  <1>3. IsFiniteSet(1 .. Len(Labels) + 1)
    BY <1>1, FS_Interval
  <1>4. IsFiniteSet(I) /\ I \in SUBSET Int
    BY <1>2, <1>3, FS_Subset
  <1>5. Min(I) \in Int
    <2> HIDE DEF I
    <2>1. Min(I) \in I
      BY <1>2, <1>4, MinType
    <2>2. QED
      BY <1>4, <2>1
  <1>6. NameOf(label) = [kind |-> "str", value |-> 0, text |-> 10 + Min(I)]
    BY DEF NameOf
  <1> HIDE DEF I
  <1>7. QED
    BY <1>5, <1>6 DEF RawLabel

LEMMA CorpusDatasetType ==
  ASSUME TypeOK, Answers(rows)
  PROVE  /\ CorpusDataset \in DatasetSpec
         /\ CorpusDataset.evaluated = FALSE
         /\ CorpusDataset.names # <<>> /\ Len(CorpusDataset.names) = Len(Labels)
         /\ TrainRows(CorpusDataset) = CorpusDataset.train
         /\ CorpusDataset.train \in Seq(RawLabel) /\ CorpusDataset.names \in Seq(Int)
         /\ Len(CorpusDataset.train) = Len(rows)
         /\ \A i \in DOMAIN CorpusDataset.train :
              /\ CorpusDataset.train[i].kind = "str"
              /\ CorpusDataset.train[i].text \in ToSet(CorpusDataset.names)
  <1> DEFINE train == [i \in DOMAIN rows |-> NameOf(rows[i].label)]
             names == [i \in DOMAIN Labels |-> NameOf(Labels[i]).text]
  <1>1. DOMAIN rows = 1 .. Len(rows) /\ Len(rows) \in Nat
    BY DEF TypeOK
  <1>2. DOMAIN Labels = 1 .. Len(Labels) /\ Len(Labels) \in Nat \ {0}
    BY Numbers
  <1>3. \A i \in DOMAIN rows : rows[i].label \in ToSet(Labels)
    BY DEF Answers
  <1>4. \A i \in DOMAIN rows : NameOf(rows[i].label) \in RawLabel /\ NameOf(rows[i].label).kind = "str"
    BY <1>3, NameOfType
  <1>5. train \in Seq(RawLabel) /\ Len(train) = Len(rows)
    BY <1>1, <1>4
  <1>6. \A i \in DOMAIN Labels : NameOf(Labels[i]).text \in Int
    <2>1. \A i \in DOMAIN Labels : Labels[i] \in ToSet(Labels)
      BY DEF ToSet
    <2>2. \A i \in DOMAIN Labels : NameOf(Labels[i]) \in RawLabel
      BY <2>1, NameOfType
    <2>3. QED
      BY <2>2 DEF RawLabel
  <1>7. names \in Seq(Int) /\ Len(names) = Len(Labels) /\ names # <<>>
    BY <1>2, <1>6
  <1>8. \A i \in DOMAIN rows : train[i].kind = "str" /\ train[i].text \in ToSet(names)
    <2>1. SUFFICES ASSUME NEW i \in DOMAIN rows
                   PROVE  train[i].kind = "str" /\ train[i].text \in ToSet(names)
      OBVIOUS
    <2>2. PICK j \in DOMAIN Labels : rows[i].label = Labels[j]
      BY <1>3 DEF ToSet
    <2>3. train[i].text = names[j] /\ DOMAIN names = DOMAIN Labels
      BY <2>2
    <2> HIDE DEF names
    <2>4. QED
      BY <1>4, <2>3 DEF ToSet
  <1>9. /\ CorpusDataset.train = train /\ CorpusDataset.names = names
        /\ CorpusDataset = [train |-> train, evaluated |-> FALSE, eval |-> <<>>, names |-> names,
                            maxTrain |-> 0, maxEval |-> 0]
    <2>1. CorpusDataset = [NoDataset EXCEPT !.train = train, !.names = names]
      BY DEF CorpusDataset
    <2> HIDE DEF train, names
    <2>2. QED
      BY <2>1 DEF NoDataset
  <1> HIDE DEF train, names
  <1>10. CorpusDataset \in DatasetSpec /\ CorpusDataset.evaluated = FALSE
    <2>1. <<>> \in Seq(RawLabel)
      OBVIOUS
    <2>2. QED
      BY <1>5, <1>7, <1>9, <2>1 DEF DatasetSpec
  <1>11. TrainRows(CorpusDataset) = train
    BY <1>5, <1>9, CutType DEF TrainRows
  <1>12. DOMAIN train = DOMAIN rows
    BY <1>1, <1>5
  <1>13. QED
    BY <1>5, <1>7, <1>8, <1>9, <1>10, <1>11, <1>12

\* A corpus that is not empty resolves, and to the classes of the student.
LEMMA CorpusResolves ==
  ASSUME TypeOK, Answers(rows), rows # <<>>
  PROVE  LET b == BuildDatasets(CorpusDataset)
         IN  /\ b.ok /\ Len(b.train) = Len(rows)
             /\ \A i \in DOMAIN b.train : b.train[i] \in 0 .. Len(Labels) - 1
  <1> DEFINE spec == CorpusDataset
             raw == spec.train
             r == Resolve(raw, spec.names)
             e == Resolve(EvalRows(spec), r.names)
             b == BuildDatasets(spec)
  <1>1. /\ spec \in DatasetSpec /\ spec.evaluated = FALSE /\ spec.names # <<>>
        /\ Len(spec.names) = Len(Labels) /\ TrainRows(spec) = raw
        /\ raw \in Seq(RawLabel) /\ spec.names \in Seq(Int) /\ Len(raw) = Len(rows)
        /\ \A i \in DOMAIN raw : raw[i].kind = "str" /\ raw[i].text \in ToSet(spec.names)
    BY CorpusDatasetType
  <1> HIDE DEF spec, raw
  <1>2. r = ResolveByTable(raw, spec.names)
    BY <1>1 DEF Resolve
  <1>3. raw # <<>>
    <2>1. Len(rows) # 0
      BY DEF TypeOK
    <2>2. QED
      BY <1>1, <2>1
  <1>4. /\ b.ok <=> r.ok /\ raw # <<>> /\ (spec.evaluated => e.ok)
        /\ b.ok => b.train = r.ids
    BY <1>1, Bundles
  <1> HIDE DEF r, e, b
  <1>5. /\ r.ok = TRUE /\ r.ids \in Seq(Int) /\ Len(r.ids) = Len(raw)
        /\ \A i \in DOMAIN raw : r.ids[i] \in 0 .. Len(spec.names) - 1
    BY <1>1, <1>2, TableResolves DEF Unresolved
  <1>6. DOMAIN r.ids = DOMAIN raw
    BY <1>1, <1>5
  <1>7. b.ok /\ b.train = r.ids
    BY <1>1, <1>3, <1>4, <1>5
  <1>8. QED
    BY <1>1, <1>5, <1>6, <1>7 DEF b, spec

-----------------------------------------------------------------------------
(* The engine.                                                             *)

\* Where the data come from, and what was made of them.
Flow ==
  /\ strategy \in Strategy
  /\ stage \in {"corpus", "data", "training", "failed"}
  /\ dataset \in DatasetSpec
  /\ bundle.train \in Seq(Int) /\ bundle.eval \in Seq(Int)
  /\ strategy = "llm" /\ stage \in {"data", "training"} => dataset = CorpusDataset /\ rows # <<>>
  /\ strategy = "llm" /\ stage = "failed" => builder = "failed" \/ rows = <<>>
  /\ stage = "training" => bundle = BuildDatasets(dataset) /\ bundle.ok

EngineInv == CorpusInv /\ Flow

LEMMA NoDatasetType ==
  NoDataset \in DatasetSpec /\ NoBundle.train \in Seq(Int) /\ NoBundle.eval \in Seq(Int)
  <1>1. <<>> \in Seq(RawLabel) /\ <<>> \in Seq(Int)
    OBVIOUS
  <1>2. QED
    BY <1>1 DEF NoDataset, NoBundle, DatasetSpec

LEMMA InitEngine ==
  ASSUME EngineInit
  PROVE  EngineInv
  <1>1. CorpusInv
    BY InitCorpus DEF EngineInit
  <1>2. Flow
    <2>1. strategy \in Strategy /\ bundle = NoBundle
      BY DEF EngineInit
    <2>2. CASE strategy = "llm"
      BY <2>1, <2>2, NoDatasetType DEF EngineInit, Flow
    <2>3. CASE strategy # "llm"
      <3>1. stage = "data" /\ dataset \in Datasets
        BY <2>3 DEF EngineInit
      <3>2. QED
        BY <2>1, <2>3, <3>1, NoDatasetType, EngineAssumption DEF Flow
    <2>4. QED
      BY <2>2, <2>3
  <1>3. QED
    BY <1>1, <1>2 DEF EngineInv

LEMMA NextEngine ==
  ASSUME EngineInv, [EngineNext]_vars
  PROVE  EngineInv'
  <1>1. CorpusInv /\ Flow /\ TypeOK /\ Answers(rows)
    BY DEF EngineInv, CorpusInv, PoolInv, Contents
  <1>2. CASE stage = "corpus" /\ BuildStep /\ UNCHANGED engineVars
    <2>1. CorpusInv'
      BY <1>1, <1>2, BuildCorpus
    <2>2. Flow'
      BY <1>1, <1>2 DEF Flow, engineVars
    <2>3. QED
      BY <2>1, <2>2 DEF EngineInv
  <1>3. ASSUME UNCHANGED corpusVars
        PROVE  CorpusInv' /\ CorpusDataset' = CorpusDataset /\ rows' = rows /\ builder' = builder
    BY <1>1, <1>3, CorpusStays DEF CorpusDataset, NameOf, corpusVars
  <1>4. CASE CorpusFails
    <2>1. Flow'
      BY <1>1, <1>3, <1>4 DEF CorpusFails, Flow
    <2>2. QED
      BY <1>3, <1>4, <2>1 DEF CorpusFails, EngineInv
  <1>5. CASE CorpusReady
    <2>1. CorpusDataset \in DatasetSpec
      BY <1>1, CorpusDatasetType
    <2>2. Flow'
      BY <1>1, <1>3, <1>5, <2>1 DEF CorpusReady, Flow
    <2>3. QED
      BY <1>3, <1>5, <2>2 DEF CorpusReady, EngineInv
  <1>6. CASE PrepareData
    <2> DEFINE b == BuildDatasets(dataset)
    <2>1. /\ stage = "data" /\ bundle' = b /\ dataset' = dataset /\ strategy' = strategy
          /\ stage' = (IF b.ok THEN "training" ELSE "failed")
          /\ UNCHANGED corpusVars
      BY <1>6 DEF PrepareData
    <2>2. b.train \in Seq(Int) /\ b.eval \in Seq(Int) /\ b.ok \in BOOLEAN
      BY <1>1, Bundles DEF Flow
    <2>3. strategy = "llm" => b.ok /\ dataset = CorpusDataset /\ rows # <<>>
      BY <1>1, <2>1, CorpusResolves DEF Flow
    <2>4. BuildDatasets(dataset)' = b
      BY <2>1 DEF b
    <2> HIDE DEF b
    <2>5. Flow'
      BY <1>1, <1>3, <2>1, <2>2, <2>3, <2>4 DEF Flow
    <2>6. QED
      BY <1>3, <2>1, <2>5 DEF EngineInv
  <1>7. CASE UNCHANGED vars
    <2>1. UNCHANGED corpusVars /\ UNCHANGED engineVars
      BY <1>7 DEF vars
    <2>2. Flow'
      BY <1>1, <1>3, <2>1 DEF Flow, engineVars
    <2>3. QED
      BY <1>3, <2>1, <2>2 DEF EngineInv
  <1>8. QED
    BY <1>2, <1>4, <1>5, <1>6, <1>7 DEF EngineNext, EngineStep

LEMMA EngineAlways == EngineSpec => []EngineInv
  <1>1. EngineInit => EngineInv
    BY InitEngine
  <1>2. EngineInv /\ [EngineNext]_vars => EngineInv'
    BY NextEngine
  <1>3. QED
    BY <1>1, <1>2, PTL DEF EngineSpec

-----------------------------------------------------------------------------
(* What holds of every run.                                                *)

\* The state is of the expected shape; above all, whatever the labels are, what
\* build_datasets returns are sequences of numbers.
THEOREM EngineTypeCorrect == EngineSpec => []EngineTypeOK
  <1>1. EngineInv => EngineTypeOK
    BY DEF EngineInv, CorpusInv, PoolInv, Flow, EngineTypeOK
  <1>2. QED
    BY <1>1, EngineAlways, PTL

\* However many requests there are and whichever of them fail, no more than
\* max_concurrency are under way in _map, and none once the build is over.
THEOREM PoolIsBounded == EngineSpec => []RequestsBounded
  <1>1. EngineInv => RequestsBounded
    BY PoolImplies DEF EngineInv, CorpusInv
  <1>2. QED
    BY <1>1, EngineAlways, PTL

\* Whatever the order in which the answers come in, LLMDatasetBuilder.build
\* returns them in the order of the requests, as many as were wanted if the
\* teacher does what it is asked, and counts the tokens of all of them.
THEOREM CorpusIsTheAnswers == EngineSpec => []CorpusFollowsRequests
  <1>1. EngineInv => CorpusFollowsRequests
    BY DEF EngineInv, CorpusInv, Contents
  <1>2. QED
    BY <1>1, EngineAlways, PTL

\* A corpus that _build_llm_dataset accepts never fails in build_datasets, and its
\* classes are those of the student.
THEOREM CorpusTrains == EngineSpec => []StudentFitsCorpus
  <1>1. EngineInv => StudentFitsCorpus
    <2>1. SUFFICES ASSUME EngineInv, strategy = "llm"
                   PROVE  /\ stage = "failed" => builder = "failed" \/ rows = <<>>
                          /\ stage = "training" =>
                               /\ Len(bundle.train) = Len(rows)
                               /\ \A i \in DOMAIN bundle.train : bundle.train[i] \in 0 .. Len(Labels) - 1
      BY DEF StudentFitsCorpus
    <2>2. TypeOK /\ Answers(rows) /\ Flow
      BY <2>1 DEF EngineInv, CorpusInv, PoolInv, Contents
    <2>3. QED
      BY <2>1, <2>2, CorpusResolves DEF Flow
  <1>2. QED
    BY <1>1, EngineAlways, PTL

\* _resolve_labels numbers the words of any training rows by their order alone.
THEOREM WordsAreNumbered == EngineSpec => []ClassesInOrder
  <1>1. EngineInv => ClassesInOrder
    <2> DEFINE train == Cut(dataset.train, dataset.maxTrain)
    <2>1. SUFFICES ASSUME EngineInv, stage = "training", dataset.names = <<>>,
                          NEW k \in DOMAIN train, train[k].kind # "int", NEW i \in DOMAIN train
                   PROVE  bundle.train[i] = Cardinality({text \in TextsOf(train) : text < train[i].text})
      BY DEF ClassesInOrder
    <2>2. dataset \in DatasetSpec /\ bundle = BuildDatasets(dataset) /\ bundle.ok
      BY <2>1 DEF EngineInv, Flow
    <2>3. train = TrainRows(dataset)
      BY DEF TrainRows
    <2> HIDE DEF train
    <2>4. bundle.train[i] = Cardinality(Before(TextsOf(train), train[i].text))
      BY <2>1, <2>2, <2>3, WordsInOrder
    <2>5. QED
      BY <2>4 DEF Before
  <1>2. QED
    BY <1>1, EngineAlways, PTL

\* build_datasets gives a row of the evaluation data the class that the same row
\* has in training, whatever else the two contain.
THEOREM SameClassForSameRow == EngineSpec => []SameClassInEvaluation
  <1>1. EngineInv => SameClassInEvaluation
    <2> DEFINE train == Cut(dataset.train, dataset.maxTrain)
               eval == Cut(dataset.eval, dataset.maxEval)
               kinds == {train[i].kind : i \in DOMAIN train}
    <2>1. SUFFICES ASSUME EngineInv, stage = "training", dataset.evaluated, bundle.names # <<>>,
                          dataset.names # <<>> \/ kinds \in {{"str"}, {"int"}},
                          NEW i \in DOMAIN train, NEW j \in DOMAIN eval, train[i] = eval[j]
                   PROVE  bundle.train[i] = bundle.eval[j]
      BY DEF SameClassInEvaluation
    <2>2. dataset \in DatasetSpec /\ bundle = BuildDatasets(dataset) /\ bundle.ok
      BY <2>1 DEF EngineInv, Flow
    <2>3. train = TrainRows(dataset) /\ eval = EvalRows(dataset)
      BY <2>1 DEF TrainRows, EvalRows
    <2>4. \/ dataset.names # <<>>
          \/ \A k \in DOMAIN train : train[k].kind = "int"
          \/ \A k \in DOMAIN train : train[k].kind = "str"
      BY <2>1
    <2> HIDE DEF train, eval, kinds
    <2>5. QED
      BY <2>1, <2>2, <2>3, <2>4, SameRowSameClass
  <1>2. QED
    BY <1>1, EngineAlways, PTL
=============================================================================

-------------------------- MODULE ApiRequests_proofs --------------------------
(***************************************************************************)
(* Proofs about ApiRequests for any number of clients and jobs, any roles  *)
(* and any size of a page.                                                 *)
(***************************************************************************)
EXTENDS ApiRequests, FiniteSetTheorems, TLAPS

-----------------------------------------------------------------------------
(* Positions in a list.                                                    *)

\* The jobs of a list have different positions, below their number.
LEMMA PositionType ==
  ASSUME NEW S, IsFiniteSet(S), NEW when, NEW j
  PROVE  /\ Position(j, S, when) \in Nat
         /\ IsFiniteSet({i \in S : when[i] > when[j]})
  <1>1. {i \in S : when[i] > when[j]} \in SUBSET S
    OBVIOUS
  <1>2. IsFiniteSet({i \in S : when[i] > when[j]})
    BY <1>1, FS_Subset
  <1>3. QED
    BY <1>2, FS_CardinalityType DEF Position

LEMMA PositionGrows ==
  ASSUME NEW S, IsFiniteSet(S), NEW when, \A i \in S : when[i] \in Int,
         NEW i \in S, NEW j \in S, when[i] > when[j]
  PROVE  Position(i, S, when) < Position(j, S, when)
  <1> DEFINE I == {k \in S : when[k] > when[i]}
             J == {k \in S : when[k] > when[j]}
  <1>1. I \subseteq J /\ i \in J /\ i \notin I
    OBVIOUS
  <1>2. IsFiniteSet(I) /\ IsFiniteSet(J) /\ Cardinality(I) \in Nat /\ Cardinality(J) \in Nat
    BY PositionType DEF Position
  <1>3. Cardinality(I) <= Cardinality(J) /\ Cardinality(I) # Cardinality(J)
    <2> HIDE DEF I, J
    <2>1. I \in SUBSET J
      BY <1>1
    <2>2. QED
      BY <1>1, <1>2, <2>1, FS_Subset
  <1>4. QED
    BY <1>2, <1>3 DEF Position

LEMMA PositionsDiffer ==
  ASSUME NEW S, IsFiniteSet(S), NEW when, \A i \in S : when[i] \in Int,
         NEW i \in S, NEW j \in S, when[i] # when[j]
  PROVE  Position(i, S, when) # Position(j, S, when)
  <1>1. when[i] > when[j] \/ when[j] > when[i]
    OBVIOUS
  <1>2. Position(i, S, when) \in Nat /\ Position(j, S, when) \in Nat
    BY PositionType
  <1>3. QED
    BY <1>1, <1>2, PositionGrows

LEMMA PositionBelow ==
  ASSUME NEW S, IsFiniteSet(S), NEW when, \A i \in S : when[i] \in Int, NEW j \in S
  PROVE  Position(j, S, when) < Cardinality(S)
  <1> DEFINE J == {k \in S : when[k] > when[j]}
  <1>1. J \in SUBSET S /\ j \notin J
    OBVIOUS
  <1>2. IsFiniteSet(J) /\ Cardinality(J) <= Cardinality(S) /\ Cardinality(J) # Cardinality(S)
    BY <1>1, FS_Subset
  <1>3. Cardinality(J) \in Nat /\ Cardinality(S) \in Nat
    BY <1>2, FS_CardinalityType
  <1>4. QED
    BY <1>2, <1>3 DEF Position

\* No more jobs than there are positions.
LEMMA JobsBetween ==
  ASSUME NEW S, IsFiniteSet(S), NEW when, \A i \in S : when[i] \in Int,
         \A i, j \in S : when[i] = when[j] => i = j,
         NEW m \in Int, NEW n \in Int, m <= n,
         NEW T \in SUBSET S, \A j \in T : Position(j, S, when) \in m .. n - 1
  PROVE  IsFiniteSet(T) /\ Cardinality(T) <= n - m
  <1> DEFINE f == [j \in T |-> Position(j, S, when)]
  <1>1. f \in Injection(T, m .. n - 1)
    <2>1. f \in [T -> m .. n - 1]
      OBVIOUS
    <2>2. ASSUME NEW i \in T, NEW j \in T, f[i] = f[j] PROVE i = j
      BY <2>2, PositionsDiffer
    <2> HIDE DEF f
    <2>3. QED
      BY <2>1, <2>2 DEF Injection, IsInjective
  <1>2. IsFiniteSet(m .. n - 1) /\ Cardinality(m .. n - 1) = n - m
    <2>1. n - 1 \in Int
      OBVIOUS
    <2>2. QED
      BY <2>1, FS_Interval
  <1> HIDE DEF f
  <1>3. QED
    BY <1>1, <1>2, FS_Injection

\* The position of a job among others only depends on when those were created.
LEMMA PositionKept ==
  ASSUME NEW S, NEW when, NEW then, \A i \in S : then[i] = when[i], NEW j \in S
  PROVE  Position(j, S, then) = Position(j, S, when)
  <1>1. {i \in S : then[i] > then[j]} = {i \in S : when[i] > when[j]}
    OBVIOUS
  <1>2. QED
    BY <1>1 DEF Position

\* What leaves moves what is behind it up by one.
LEMMA PositionWithout ==
  ASSUME NEW S, IsFiniteSet(S), NEW when, NEW x, NEW j
  PROVE  /\ Position(j, S \ {x}, when) <= Position(j, S, when)
         /\ Position(j, S, when) <= Position(j, S \ {x}, when) + 1
         /\ Position(j, S, when) \in Nat /\ Position(j, S \ {x}, when) \in Nat
  <1> DEFINE J == {i \in S : when[i] > when[j]}
  <1>1. {i \in S \ {x} : when[i] > when[j]} = J \ {x}
    OBVIOUS
  <1>2. IsFiniteSet(J) /\ Cardinality(J) \in Nat
    BY PositionType DEF Position
  <1>3. Cardinality(J \ {x}) \in {Cardinality(J), Cardinality(J) - 1} /\ Cardinality(J \ {x}) \in Nat
    <2> HIDE DEF J
    <2>1. IsFiniteSet(J \ {x}) /\ Cardinality(J \ {x}) \in {Cardinality(J), Cardinality(J) - 1}
      BY <1>2, FS_RemoveElement
    <2>2. QED
      BY <2>1, FS_CardinalityType
  <1> HIDE DEF J
  <1>4. Position(j, S, when) = Cardinality(J) /\ Position(j, S \ {x}, when) = Cardinality(J \ {x})
    BY <1>1 DEF Position, J
  <1>5. QED
    BY <1>2, <1>3, <1>4

-----------------------------------------------------------------------------
(* What a walk misses, and what it sees again, as the list changes.        *)

\* Jobs that were there all the time and lie behind the walk unseen.
Missed(there, seen, end, jobs, when) == {j \in there \ seen : Position(j, jobs, when) < end}

\* Jobs that the walk has seen and has still before it.
Again(seen, end, jobs, when) == {j \in jobs \cap seen : Position(j, jobs, when) >= end}

\* One more element at most, in a set that is finite.
LEMMA OneMore ==
  ASSUME NEW A, IsFiniteSet(A), NEW B, IsFiniteSet(B), Cardinality(B) <= 1, NEW C \in SUBSET (A \cup B)
  PROVE  IsFiniteSet(C) /\ Cardinality(C) <= Cardinality(A) + 1
  <1>1. /\ Cardinality(A) \in Nat /\ Cardinality(B) \in Nat
        /\ IsFiniteSet(A \cap B) /\ Cardinality(A \cap B) \in Nat
    BY FS_Intersection, FS_CardinalityType
  <1>2. IsFiniteSet(A \cup B) /\ Cardinality(A \cup B) <= Cardinality(A) + 1
    <2>1. /\ IsFiniteSet(A \cup B)
          /\ Cardinality(A \cup B) = Cardinality(A) + Cardinality(B) - Cardinality(A \cap B)
      BY FS_Union
    <2>2. QED
      BY <1>1, <2>1
  <1>3. IsFiniteSet(C) /\ Cardinality(C) <= Cardinality(A \cup B)
    BY <1>2, FS_Subset
  <1>4. Cardinality(C) \in Nat /\ Cardinality(A \cup B) \in Nat
    BY <1>2, <1>3, FS_CardinalityType
  <1>5. QED
    BY <1>1, <1>2, <1>3, <1>4

LEMMA FinitePart ==
  ASSUME NEW S, IsFiniteSet(S), NEW T \in SUBSET S
  PROVE  IsFiniteSet(T) /\ Cardinality(T) \in Nat /\ Cardinality(S) \in Nat
         /\ Cardinality(T) <= Cardinality(S)
  BY FS_Subset, FS_CardinalityType

\* When a job leaves, at most one more is missed, and none more seen again.
LEMMA WhenOneLeaves ==
  ASSUME NEW S, IsFiniteSet(S), NEW when, \A i \in S : when[i] \in Int,
         \A i, j \in S : when[i] = when[j] => i = j,
         NEW there \in SUBSET S, NEW seen, NEW end \in Nat, NEW x \in S
  PROVE  /\ Cardinality(Missed(there \ {x}, seen, end, S \ {x}, when))
              <= Cardinality(Missed(there, seen, end, S, when)) + 1
         /\ Cardinality(Again(seen, end, S \ {x}, when)) <= Cardinality(Again(seen, end, S, when))
  <1> DEFINE A == Missed(there, seen, end, S, when)
             B == {j \in S : Position(j, S, when) \in end .. (end + 1) - 1}
             C == Missed(there \ {x}, seen, end, S \ {x}, when)
             D == Again(seen, end, S, when)
             E == Again(seen, end, S \ {x}, when)
  <1>1. IsFiniteSet(A)
    <2>1. A \in SUBSET S
      BY DEF Missed
    <2>2. QED
      BY <2>1, FS_Subset
  <1>2. IsFiniteSet(B) /\ Cardinality(B) <= 1
    <2>1. B \in SUBSET S /\ \A j \in B : Position(j, S, when) \in end .. (end + 1) - 1
      OBVIOUS
    <2>2. end + 1 \in Int /\ end \in Int /\ end <= end + 1 /\ (end + 1) - end = 1
      OBVIOUS
    <2> HIDE DEF B
    <2>3. IsFiniteSet(B) /\ Cardinality(B) <= (end + 1) - end
      BY <2>1, <2>2, JobsBetween
    <2>4. QED
      BY <2>2, <2>3
  <1>3. C \subseteq A \cup B
    <2>1. SUFFICES ASSUME NEW j \in C
                   PROVE  j \in A \cup B
      OBVIOUS
    <2>2. j \in there /\ j \notin seen /\ Position(j, S \ {x}, when) < end /\ j \in S
      BY DEF Missed
    <2>3. /\ Position(j, S, when) <= Position(j, S \ {x}, when) + 1
          /\ Position(j, S, when) \in Nat /\ Position(j, S \ {x}, when) \in Nat
      BY PositionWithout
    <2>4. Position(j, S, when) < end \/ Position(j, S, when) = end
      BY <2>2, <2>3
    <2>5. QED
      BY <2>2, <2>4 DEF Missed
  <1>4. E \subseteq D
    <2>1. SUFFICES ASSUME NEW j \in E
                   PROVE  j \in D
      OBVIOUS
    <2>2. j \in S /\ j \in seen /\ Position(j, S \ {x}, when) >= end
      BY DEF Again
    <2>3. /\ Position(j, S \ {x}, when) <= Position(j, S, when)
          /\ Position(j, S, when) \in Nat /\ Position(j, S \ {x}, when) \in Nat
      BY PositionWithout
    <2>4. QED
      BY <2>2, <2>3 DEF Again
  <1>5. IsFiniteSet(D)
    <2>1. D \in SUBSET S
      BY DEF Again
    <2>2. QED
      BY <2>1, FS_Subset
  <1> HIDE DEF A, B, C, D, E
  <1>6. Cardinality(C) <= Cardinality(A) + 1
    BY <1>1, <1>2, <1>3, OneMore
  <1>7. Cardinality(E) <= Cardinality(D)
    BY <1>4, <1>5, FinitePart
  <1>8. QED
    BY <1>6, <1>7 DEF A, C, D, E

\* When a job comes, none more is missed, and at most one more seen again.
LEMMA WhenOneComes ==
  ASSUME NEW S, IsFiniteSet(S), NEW when, \A i \in S : when[i] \in Int,
         \A i, j \in S : when[i] = when[j] => i = j,
         NEW then, \A i \in S : then[i] = when[i],
         NEW there \in SUBSET S, NEW seen, NEW end \in Nat, NEW x, x \notin S, x \notin seen
  PROVE  /\ Cardinality(Missed(there, seen, end, S \cup {x}, then))
              <= Cardinality(Missed(there, seen, end, S, when))
         /\ Cardinality(Again(seen, end, S \cup {x}, then)) <= Cardinality(Again(seen, end, S, when)) + 1
  <1> DEFINE A == Missed(there, seen, end, S, when)
             B == {j \in S : Position(j, S, when) \in end - 1 .. end - 1}
             C == Missed(there, seen, end, S \cup {x}, then)
             D == Again(seen, end, S, when)
             E == Again(seen, end, S \cup {x}, then)
  <1>1. \A j \in S : /\ Position(j, S, when) <= Position(j, S \cup {x}, then)
                     /\ Position(j, S \cup {x}, then) <= Position(j, S, when) + 1
                     /\ Position(j, S \cup {x}, then) \in Nat /\ Position(j, S, when) \in Nat
    <2>1. ASSUME NEW j \in S
          PROVE  Position(j, S, then) = Position(j, S, when)
      BY PositionKept
    <2>2. IsFiniteSet(S \cup {x}) /\ (S \cup {x}) \ {x} = S
      BY FS_AddElement
    <2>3. QED
      BY <2>1, <2>2, PositionWithout
  <1>2. IsFiniteSet(A) /\ IsFiniteSet(D)
    <2>1. A \in SUBSET S /\ D \in SUBSET S
      BY DEF Missed, Again
    <2>2. QED
      BY <2>1, FS_Subset
  <1>3. IsFiniteSet(B) /\ Cardinality(B) <= 1
    <2>1. B \in SUBSET S /\ \A j \in B : Position(j, S, when) \in end - 1 .. end - 1
      OBVIOUS
    <2>2. end \in Int /\ end - 1 \in Int /\ end - 1 <= end /\ end - (end - 1) = 1
      OBVIOUS
    <2> HIDE DEF B
    <2>3. IsFiniteSet(B) /\ Cardinality(B) <= end - (end - 1)
      BY <2>1, <2>2, JobsBetween
    <2>4. QED
      BY <2>2, <2>3
  <1>4. C \subseteq A
    <2>1. SUFFICES ASSUME NEW j \in C
                   PROVE  j \in A
      OBVIOUS
    <2>2. j \in there /\ j \in S /\ j \notin seen /\ Position(j, S \cup {x}, then) < end
      BY DEF Missed
    <2>3. /\ Position(j, S, when) <= Position(j, S \cup {x}, then)
          /\ Position(j, S \cup {x}, then) \in Nat /\ Position(j, S, when) \in Nat
      BY <1>1, <2>2
    <2>4. Position(j, S, when) < end
      BY <2>2, <2>3
    <2>5. QED
      BY <2>2, <2>4 DEF Missed
  <1>5. E \subseteq D \cup B
    <2>1. SUFFICES ASSUME NEW j \in E
                   PROVE  j \in D \cup B
      OBVIOUS
    <2>2. j \in S /\ j \in seen /\ Position(j, S \cup {x}, then) >= end
      BY DEF Again
    <2>3. Position(j, S, when) >= end \/ Position(j, S, when) = end - 1
      <3>1. /\ Position(j, S \cup {x}, then) <= Position(j, S, when) + 1
            /\ Position(j, S \cup {x}, then) \in Nat /\ Position(j, S, when) \in Nat
        BY <1>1, <2>2
      <3>2. QED
        BY <2>2, <3>1
    <2>4. QED
      BY <2>2, <2>3 DEF Again
  <1> HIDE DEF A, B, C, D, E
  <1>6. Cardinality(C) <= Cardinality(A)
    BY <1>2, <1>4, FinitePart
  <1>7. Cardinality(E) <= Cardinality(D) + 1
    BY <1>2, <1>3, <1>5, OneMore
  <1>8. QED
    BY <1>6, <1>7 DEF A, C, D, E

LEMMA PageFits ==
  ASSUME NEW S, IsFiniteSet(S), NEW when, \A i \in S : when[i] \in Int,
         \A i, j \in S : when[i] = when[j] => i = j,
         NEW offset \in Nat, NEW size \in Nat,
         NEW page \in SUBSET S, \A j \in page : Position(j, S, when) \in offset .. offset + size - 1
  PROVE  IsFiniteSet(page) /\ Cardinality(page) <= size /\ Cardinality(page) \in Nat
  <1>1. \A j \in page : Position(j, S, when) \in offset .. (offset + size) - 1
    OBVIOUS
  <1>2. /\ offset \in Int /\ offset + size \in Int /\ offset <= offset + size
        /\ (offset + size) - offset = size
    OBVIOUS
  <1>3. IsFiniteSet(page) /\ Cardinality(page) <= (offset + size) - offset
    BY <1>1, <1>2, JobsBetween
  <1>4. QED
    BY <1>2, <1>3, FS_CardinalityType

\* A page takes the next positions, and no more than fit on it: what it skips
\* was missed before, and what it shows again was before it.
LEMMA PageReads ==
  ASSUME NEW S, IsFiniteSet(S), NEW when, \A i \in S : when[i] \in Int,
         \A i, j \in S : when[i] = when[j] => i = j,
         NEW there \in SUBSET S, NEW seen, NEW offset \in Nat, NEW size \in Nat,
         NEW page \in SUBSET S,
         \A j \in S : j \in page <=> Position(j, S, when) \in offset .. offset + size - 1
  PROVE  /\ IsFiniteSet(page) /\ Cardinality(page) <= size
         /\ Cardinality(Missed(there, seen \cup page, offset + Cardinality(page), S, when))
              <= Cardinality(Missed(there, seen, offset, S, when))
         /\ Cardinality(page \cap seen)
              + Cardinality(Again(seen \cup page, offset + Cardinality(page), S, when))
              <= Cardinality(Again(seen, offset, S, when))
  <1> DEFINE n == Cardinality(page)
             A == Missed(there, seen, offset, S, when)
             C == Missed(there, seen \cup page, offset + n, S, when)
             D == Again(seen, offset, S, when)
             E == Again(seen \cup page, offset + n, S, when)
             F == page \cap seen
  <1>1. \A j \in S : Position(j, S, when) \in Nat
    BY PositionType
  <1>2. IsFiniteSet(page) /\ n <= size /\ n \in Nat
    <2>1. page \in SUBSET S /\ \A j \in page : Position(j, S, when) \in offset .. offset + size - 1
      OBVIOUS
    <2>2. QED
      BY <2>1, PageFits
  <1>3. C \subseteq A
    <2>1. SUFFICES ASSUME NEW j \in C
                   PROVE  j \in A
      OBVIOUS
    <2>2. j \in there /\ j \in S /\ j \notin seen /\ j \notin page /\ Position(j, S, when) < offset + n
      BY DEF Missed
    <2>3. Position(j, S, when) < offset
      BY <1>1, <1>2, <2>2
    <2>4. QED
      BY <2>2, <2>3 DEF Missed
  <1>4. \A j \in page : Position(j, S, when) < offset + n
    <2>1. SUFFICES ASSUME NEW j \in page
                   PROVE  Position(j, S, when) < offset + n
      OBVIOUS
    <2> DEFINE before == {i \in S : when[i] > when[j]}
               old == {i \in before : Position(i, S, when) < offset}
               new == before \ old
    <2>2. IsFiniteSet(before) /\ Position(j, S, when) = Cardinality(before)
          /\ Cardinality(before) \in Nat
      <3>1. IsFiniteSet(before)
        <4>1. before \in SUBSET S
          OBVIOUS
        <4> HIDE DEF before
        <4>2. QED
          BY <4>1, FS_Subset
      <3>2. Position(j, S, when) = Cardinality(before)
        BY DEF Position
      <3> HIDE DEF before
      <3>3. QED
        BY <3>1, <3>2, FS_CardinalityType
    <2>3. IsFiniteSet(old) /\ Cardinality(old) <= offset /\ Cardinality(old) \in Nat
      <3>1. old \in SUBSET S /\ \A i \in old : Position(i, S, when) \in 0 .. offset - 1
        BY <1>1
      <3>2. 0 \in Int /\ offset \in Int /\ 0 <= offset /\ offset - 0 = offset
        OBVIOUS
      <3> HIDE DEF old
      <3>3. IsFiniteSet(old) /\ Cardinality(old) <= offset - 0
        BY <3>1, <3>2, JobsBetween
      <3>4. QED
        BY <3>2, <3>3, FS_CardinalityType
    <2>4. new \cup {j} \subseteq page
      <3>1. SUFFICES ASSUME NEW i \in new
                     PROVE  i \in page
        OBVIOUS
      <3>2. i \in S /\ when[i] > when[j] /\ Position(i, S, when) >= offset /\ j \in S
        BY <1>1
      <3>3. Position(i, S, when) < Position(j, S, when)
        BY <3>2, PositionGrows
      <3>4. Position(j, S, when) <= offset + size - 1
        OBVIOUS
      <3>5. QED
        BY <1>1, <3>2, <3>3, <3>4
    <2>5. j \notin new /\ new \cup old = before /\ new \cap old = {}
      OBVIOUS
    <2>6. IsFiniteSet(new) /\ Cardinality(new) \in Nat
          /\ Cardinality(before) = Cardinality(new) + Cardinality(old)
      <3>1. IsFiniteSet(new)
        BY <2>2, FS_Difference
      <3> HIDE DEF new, old, before
      <3>2. Cardinality(new \cup old) = Cardinality(new) + Cardinality(old) - Cardinality(new \cap old)
        BY <2>3, <3>1, FS_Union
      <3>3. Cardinality(new \cap old) = 0 /\ Cardinality(new) \in Nat
        BY <2>5, <3>1, FS_EmptySet, FS_CardinalityType
      <3>4. Cardinality(new) + Cardinality(old) - 0 = Cardinality(new) + Cardinality(old)
        BY <2>3, <3>3
      <3>5. QED
        BY <2>5, <3>1, <3>2, <3>3, <3>4
    <2> HIDE DEF new, old, before
    <2>7. IsFiniteSet(new \cup {j}) /\ Cardinality(new \cup {j}) = Cardinality(new) + 1
      BY <2>5, <2>6, FS_AddElement
    <2>8. Cardinality(new \cup {j}) <= n
      BY <1>2, <2>4, FinitePart
    <2>9. QED
      BY <1>2, <2>2, <2>3, <2>6, <2>7, <2>8
  <1>5. E \subseteq D /\ F \subseteq D /\ E \cap F = {}
    <2>1. ASSUME NEW j \in E PROVE j \in D /\ j \notin page
      <3>1. j \in S /\ j \in seen \cup page /\ Position(j, S, when) >= offset + n
        BY DEF Again
      <3>2. j \notin page
        BY <1>1, <1>2, <1>4, <3>1
      <3>3. QED
        BY <1>1, <1>2, <3>1, <3>2 DEF Again
    <2>2. ASSUME NEW j \in F PROVE j \in D
      BY <1>1 DEF Again
    <2> HIDE DEF D, E
    <2>3. QED
      BY <2>1, <2>2
  <1>6. IsFiniteSet(A) /\ IsFiniteSet(D)
    <2>1. A \in SUBSET S /\ D \in SUBSET S
      BY DEF Missed, Again
    <2>2. QED
      BY <2>1, FS_Subset
  <1> HIDE DEF A, C, D, E, F
  <1>7. Cardinality(C) <= Cardinality(A)
    BY <1>3, <1>6, FinitePart
  <1>8. Cardinality(F) + Cardinality(E) <= Cardinality(D)
    <2>1. IsFiniteSet(E) /\ IsFiniteSet(F) /\ Cardinality(E) \in Nat /\ Cardinality(F) \in Nat
      BY <1>5, <1>6, FinitePart
    <2>2. Cardinality(F \cup E) = Cardinality(F) + Cardinality(E) - Cardinality(F \cap E)
      BY <2>1, FS_Union
    <2>3. F \cap E = {} /\ F \cup E \in SUBSET D
      BY <1>5
    <2>4. Cardinality(F \cup E) <= Cardinality(D)
      BY <1>6, <2>3, FinitePart
    <2>5. Cardinality(F \cap E) = 0
      BY <2>3, FS_EmptySet
    <2>6. Cardinality(F) + Cardinality(E) - 0 = Cardinality(F) + Cardinality(E)
      BY <2>1
    <2>7. Cardinality(F \cup E) = Cardinality(F) + Cardinality(E)
      BY <2>2, <2>5, <2>6
    <2>8. QED
      BY <2>4, <2>7
  <1>9. QED
    BY <1>2, <1>7, <1>8 DEF A, C, D, E, F

-----------------------------------------------------------------------------
(* Typing.                                                                 *)

\* The table is finite at any time, and so is what a walk has seen; no two jobs
\* of the table were created at the same time.
TypeInv ==
  /\ TypeOK
  /\ IsFiniteSet(rows) /\ IsFiniteSet(walk.there) /\ IsFiniteSet(walk.shown)
  /\ \A i, j \in rows : created[i] = created[j] => i = j

\* The jobs that the walk's filter lets through now.
Here == Selected(walk.filter, rows, owner, status)

Quiet == UNCHANGED <<tableVars, walk, role>>

Moves(c, r) == req' = [req EXCEPT ![c] = r]

\* A job is added, is no longer active, or is removed.
Comes(x) == \E c \in Client : AddRow(x, c)

Ends(x) ==
  x \in rows /\ status[x] = "active" /\ (SetStatus(x, "cancelled") \/ SetStatus(x, "finished"))

Goes(x) == x \in rows /\ DropRow(x)

LEMMA IdleType == Idle \in Request /\ Idle.at = "idle" /\ Idle.items = {}
  <1>1. {} \in Items
    BY FS_EmptySet, ListingAssumption DEF Items
  <1>2. QED
    BY <1>1 DEF Idle, Request, JobCall

\* What a handler does next, once the caller has the role.
NextStep(call) == CASE call \in OnJob   -> "load"
                    [] call = "list"   -> "items"
                    [] call = "create" -> "act"

\* Every step, by what it does to the table, the walk and the requests.
LEMMA StepKinds ==
  ASSUME TypeInv, Next
  PROVE  \/ \E c \in Client : Quiet /\ Moves(c, Idle)
         \/ \E c \in Client : \E call \in CallsOf[c] : Arrive(c, call)
         \/ \E c \in Client : /\ Quiet /\ req[c].at = "authenticate"
                              /\ HasRole(c, Needs(req[c].call))
                              /\ Moves(c, [req[c] EXCEPT !.at = NextStep(req[c].call)])
         \/ \E c \in Client, j \in Job :
              /\ Quiet /\ req[c].at = "load" /\ Present(j) /\ Authorized(c, j)
              /\ req[c].call # "get" /\ Moves(c, [req[c] EXCEPT !.at = "act", !.job = j])
         \/ \E c \in Client, x \in Job : /\ Create(c) /\ Comes(x) /\ WalkNotices
                                         /\ UNCHANGED role /\ Moves(c, Idle)
         \/ \E c \in Client, x \in Job : /\ (Ends(x) /\ Cancel(c)) \/ (Goes(x) /\ Delete(c))
                                         /\ req[c].at = "act" /\ req[c].job = x
                                         /\ WalkNotices /\ UNCHANGED role /\ Moves(c, Idle)
         \/ \E x \in Job : Ends(x) /\ Finish(x) /\ WalkNotices /\ UNCHANGED <<role, req>>
         \/ \E c \in Client : ReadItems(c)
         \/ \E c \in Client : ReadCount(c)
  <1>1. ASSUME NEW c \in Client, Preflight(c) \/ NoRoute(c) \/ Probe(c) \/ TurnAway(c) \/ HandlerRaises(c)
                                 \/ AuthenticationFails(c) \/ BodyInvalid(c)
        PROVE  Quiet /\ Moves(c, Idle)
    BY <1>1 DEF Preflight, NoRoute, Probe, TurnAway, HandlerRaises, AuthenticationFails, BodyInvalid,
                Refuse, Reply, Quiet, Moves
  <1>2. ASSUME NEW c \in Client, Authenticate(c)
        PROVE  \/ Quiet /\ Moves(c, Idle)
               \/ /\ Quiet /\ req[c].at = "authenticate" /\ HasRole(c, Needs(req[c].call))
                  /\ Moves(c, [req[c] EXCEPT !.at = NextStep(req[c].call)])
    BY <1>2 DEF Authenticate, Refuse, Reply, Goto, Quiet, Moves, NextStep
  <1>3. ASSUME NEW c \in Client, NEW j \in Job, Load(c, j)
        PROVE  \/ Quiet /\ Moves(c, Idle)
               \/ /\ Quiet /\ req[c].at = "load" /\ Present(j) /\ Authorized(c, j)
                  /\ req[c].call # "get" /\ Moves(c, [req[c] EXCEPT !.at = "act", !.job = j])
    BY <1>3 DEF Load, Refuse, Reply, Quiet, Moves
  <1>4. ASSUME NEW c \in Client, Create(c)
        PROVE  \E x \in Job : Create(c) /\ Comes(x) /\ WalkNotices /\ UNCHANGED role /\ Moves(c, Idle)
    BY <1>4 DEF Create, Comes, Reply, Moves
  <1>5. ASSUME NEW c \in Client, Cancel(c) \/ Delete(c)
        PROVE  \/ Quiet /\ Moves(c, Idle)
               \/ \E x \in Job : /\ (Ends(x) /\ Cancel(c)) \/ (Goes(x) /\ Delete(c))
                                 /\ req[c].at = "act" /\ req[c].job = x
                                 /\ WalkNotices /\ UNCHANGED role /\ Moves(c, Idle)
    <2>1. rows \subseteq Job
      BY DEF TypeInv, TypeOK, TableOK
    <2>2. QED
      BY <1>5, <2>1 DEF Cancel, Delete, Refuse, Reply, Quiet, Moves, Ends, Goes, Present
  <1>6. ASSUME NEW x \in Job, Finish(x)
        PROVE  Ends(x) /\ Finish(x) /\ WalkNotices /\ UNCHANGED <<role, req>>
    BY <1>6 DEF Finish, Ends, Present
  <1>7. QED
    BY <1>1, <1>2, <1>3, <1>4, <1>5, <1>6 DEF Next

\* What a change of the table does to a list.
LEMMA ListChanges ==
  ASSUME TypeInv, NEW f \in Filter, NEW x \in Job, Comes(x) \/ Ends(x) \/ Goes(x)
  PROVE  LET S == Selected(f, rows, owner, status)
             T == Selected(f, rows', owner', status')
         IN  \/ T = S /\ \A i \in S : created'[i] = created[i]
             \/ x \in S /\ T = S \ {x} /\ created' = created
             \/ /\ x \notin S /\ owner[x] = NoOne /\ T = S \cup {x}
                /\ \A i \in S : created'[i] = created[i]
  <1> DEFINE S == Selected(f, rows, owner, status)
             T == Selected(f, rows', owner', status')
  <1>1. /\ rows \subseteq Job /\ owner \in [Job -> Client \cup {NoOne}]
        /\ status \in [Job -> {"active", "finished", "cancelled"}] /\ created \in [Job -> Int]
        /\ \A j \in rows : owner[j] # NoOne
    BY DEF TypeInv, TypeOK, TableOK, Present
  <1>2. CASE Comes(x)
    <2>1. PICK c \in Client : AddRow(x, c)
      BY <1>2 DEF Comes
    <2>2. owner[x] = NoOne /\ x \notin rows
      BY <1>1, <2>1 DEF AddRow
    <2>3. \A i \in rows : owner'[i] = owner[i] /\ status'[i] = status[i] /\ created'[i] = created[i]
      BY <1>1, <2>1, <2>2 DEF AddRow
    <2>4. rows' = rows \cup {x}
      BY <2>1 DEF AddRow
    <2>5. T = S \/ T = S \cup {x}
      BY <2>3, <2>4 DEF Selected, Matches
    <2>6. x \notin S /\ \A i \in S : created'[i] = created[i]
      BY <2>2, <2>3 DEF Selected
    <2>7. QED
      BY <2>2, <2>5, <2>6
  <1>3. CASE Ends(x)
    <2>1. /\ rows' = rows /\ owner' = owner /\ created' = created /\ x \in rows
          /\ status[x] = "active" /\ status'[x] # "active"
          /\ \A i \in rows \ {x} : status'[i] = status[i]
      BY <1>1, <1>3 DEF Ends, SetStatus
    <2>2. T = S \/ (x \in S /\ T = S \ {x})
      BY <2>1 DEF Selected, Matches
    <2>3. QED
      BY <2>1, <2>2
  <1>4. CASE Goes(x)
    <2>1. /\ rows' = rows \ {x} /\ owner' = owner /\ status' = status /\ created' = created
      BY <1>4 DEF Goes, DropRow
    <2>2. T = S \/ (x \in S /\ T = S \ {x})
      BY <2>1 DEF Selected, Matches
    <2>3. QED
      BY <2>1, <2>2
  <1>5. QED
    BY <1>2, <1>3, <1>4

\* The table after a change.
LEMMA TableType ==
  ASSUME TypeInv, NEW x \in Job, Comes(x) \/ Ends(x) \/ Goes(x)
  PROVE  /\ rows' \subseteq Job /\ IsFiniteSet(rows')
         /\ owner' \in [Job -> Client \cup {NoOne}]
         /\ status' \in [Job -> {"active", "finished", "cancelled"}]
         /\ created' \in [Job -> Int]
         /\ \A i, j \in rows' : created'[i] = created'[j] => i = j
         /\ \A j \in Job : j \in rows' => owner'[j] # NoOne
         /\ \A j \in Job : owner[j] # NoOne => owner'[j] = owner[j]
  <1>1. /\ rows \subseteq Job /\ owner \in [Job -> Client \cup {NoOne}]
        /\ status \in [Job -> {"active", "finished", "cancelled"}] /\ created \in [Job -> Int]
        /\ \A j \in rows : owner[j] # NoOne
        /\ \A i, j \in rows : created[i] = created[j] => i = j
        /\ IsFiniteSet(rows)
    BY DEF TypeInv, TypeOK, TableOK, Present
  <1>2. CASE Comes(x)
    <2>1. PICK c \in Client : AddRow(x, c)
      BY <1>2 DEF Comes
    <2>2. c # NoOne /\ Clock \subseteq Int
      BY ListingAssumption
    <2>3. PICK now \in Clock \ {created[i] : i \in rows} : created' = [created EXCEPT ![x] = now]
      BY <2>1 DEF AddRow
    <2>4. rows' = rows \cup {x} /\ owner' = [owner EXCEPT ![x] = c] /\ status' = status
          /\ owner[x] = NoOne
      BY <2>1 DEF AddRow
    <2>5. created' \in [Job -> Int] /\ \A i, j \in rows' : created'[i] = created'[j] => i = j
      BY <1>1, <2>2, <2>3, <2>4
    <2>6. IsFiniteSet(rows')
      BY <1>1, <2>4, FS_AddElement
    <2>7. QED
      BY <1>1, <2>2, <2>4, <2>5, <2>6
  <1>3. CASE Ends(x)
    BY <1>1, <1>3 DEF Ends, SetStatus
  <1>4. CASE Goes(x)
    <2>1. rows' = rows \ {x} /\ owner' = owner /\ status' = status /\ created' = created
      BY <1>4 DEF Goes, DropRow
    <2>2. IsFiniteSet(rows')
      BY <1>1, <2>1, FS_RemoveElement
    <2>3. QED
      BY <1>1, <2>1, <2>2
  <1>5. QED
    BY <1>2, <1>3, <1>4

LEMMA HereType ==
  ASSUME TypeInv, NEW f
  PROVE  LET S == Selected(f, rows, owner, status)
         IN  S \subseteq rows /\ S \in SUBSET Job /\ IsFiniteSet(S) /\ Cardinality(S) \in Nat
  <1>1. Selected(f, rows, owner, status) \in SUBSET rows /\ rows \subseteq Job
    BY DEF Selected, TypeInv, TypeOK, TableOK
  <1>2. IsFiniteSet(rows)
    BY DEF TypeInv
  <1>3. QED
    BY <1>1, <1>2, FinitePart

\* What a walk notices, in terms of its filter's list before and after.
LEMMA NoticedIs ==
  ASSUME TypeInv, WalkNotices
  PROVE  LET T == Selected(walk.filter, rows', owner', status')
         IN  IF walk.over
               THEN walk' = walk
               ELSE walk' = [walk EXCEPT !.there = walk.there \cap T,
                                         !.gone = walk.gone + Cardinality(Here \ T),
                                         !.come = walk.come + Cardinality(T \ Here)]
  BY DEF WalkNotices, Noticed, Here

LEMMA NoticedType ==
  ASSUME TypeInv, WalkNotices, NEW x \in Job, Comes(x) \/ Ends(x) \/ Goes(x)
  PROVE  /\ walk' \in Walk /\ IsFiniteSet(walk'.there) /\ IsFiniteSet(walk'.shown)
         /\ walk'.filter = walk.filter /\ walk'.over = walk.over /\ walk'.shown = walk.shown
         /\ walk'.offset = walk.offset /\ walk'.twice = walk.twice
  <1> DEFINE T == Selected(walk.filter, rows', owner', status')
             gone == walk.gone + Cardinality(Here \ T)
             come == walk.come + Cardinality(T \ Here)
  <1>1. walk \in Walk /\ IsFiniteSet(walk.there) /\ IsFiniteSet(walk.shown)
    BY DEF TypeInv, TypeOK, TableOK
  <1>2. CASE walk.over
    BY <1>1, <1>2, NoticedIs
  <1>3. CASE ~walk.over
    <2>1. walk' = [walk EXCEPT !.there = walk.there \cap T, !.gone = gone, !.come = come]
      BY <1>3, NoticedIs
    <2>2. IsFiniteSet(Here) /\ IsFiniteSet(T)
      <3>1. T \in SUBSET rows' /\ IsFiniteSet(rows')
        BY TableType DEF Selected
      <3>2. QED
        BY <3>1, HereType, FS_Subset DEF Here
    <2>3. Cardinality(Here \ T) \in Nat /\ Cardinality(T \ Here) \in Nat
      BY <2>2, FS_Difference, FS_CardinalityType
    <2>4. gone \in Nat /\ come \in Nat
      BY <1>1, <2>3 DEF Walk
    <2>5. IsFiniteSet(walk.there \cap T) /\ walk.there \cap T \in SUBSET Job
      BY <1>1, FS_Intersection DEF Walk
    <2> HIDE DEF T, gone, come
    <2>6. QED
      BY <1>1, <2>1, <2>4, <2>5 DEF Walk
  <1>4. QED
    BY <1>2, <1>3

\* A page fits, and is part of what its filter lets through.
LEMMA PageType ==
  ASSUME TypeInv
  PROVE  /\ PageItems(walk.filter, walk.offset) \in Items
         /\ PageItems(walk.filter, walk.offset) \subseteq Here
  <1> DEFINE page == PageItems(walk.filter, walk.offset)
  <1>1. page = {j \in Here : Position(j, Here, created)
                               \in walk.offset .. walk.offset + Limit - 1}
    BY DEF PageItems, Here
  <1>2. Here \subseteq rows /\ Here \in SUBSET Job /\ IsFiniteSet(Here)
    BY HereType DEF Here
  <1>3. \A i, j \in Here : created[i] = created[j] => i = j
    BY <1>2 DEF TypeInv
  <1>4. \A i \in Here : created[i] \in Int
    BY <1>2 DEF TypeInv, TypeOK, TableOK
  <1>5. walk.offset \in Nat /\ Limit \in Nat
    BY ListingAssumption DEF TypeInv, TypeOK, TableOK, Walk
  <1>6. page \in SUBSET Here /\ \A j \in page : Position(j, Here, created)
                                                 \in walk.offset .. walk.offset + Limit - 1
    BY <1>1
  <1> HIDE DEF page
  <1>7. IsFiniteSet(page) /\ Cardinality(page) <= Limit
    BY <1>2, <1>3, <1>4, <1>5, <1>6, PageFits
  <1>8. page \in Items
    BY <1>2, <1>6, <1>7 DEF Items
  <1>9. QED
    BY <1>6, <1>8 DEF page

LEMMA ItemsType ==
  ASSUME NEW page \in Items
  PROVE  page \in SUBSET Job /\ IsFiniteSet(page) /\ Cardinality(page) \in Nat
         /\ Cardinality(page) <= Limit
  BY FS_CardinalityType DEF Items

LEMMA MovesType ==
  ASSUME TypeInv, NEW c \in Client, NEW r \in Request, Moves(c, r)
  PROVE  /\ req' \in [Client -> Request] /\ req'[c] = r
         /\ \A d \in Client \ {c} : req'[d] = req[d]
  BY DEF TypeInv, TypeOK, Moves

\* What a handler answers with has the type of an answer.
LEMMA AnswerType ==
  ASSUME NEW c \in Client, NEW a, NEW shows \in SUBSET Job, Reply(c, a, shows),
         a = Unhandled \/ \E layer \in {"cors", "size", "limit", "app"}, st \in Statuses : a = By(layer, st)
  PROVE  answer' \in Answer
  <1>1. a.status \in Statuses /\ a.passed \in SUBSET Middleware
    BY DEF Unhandled, By, Passed, Statuses
  <1>2. QED
    BY <1>1 DEF Reply, Answer

LEMMA RefusalType ==
  ASSUME NEW exception \in DOMAIN StatusOf
  PROVE  \E st \in Statuses : Refusal(exception) = By("app", st)
  BY DEF Refusal, StatusOf, Statuses

LEMMA NoAnswerType == NoAnswer \in Answer
  BY DEF NoAnswer, Answer, Statuses

LEMMA AnswerStep ==
  ASSUME TypeInv, [Next]_vars
  PROVE  answer' \in Answer
  <1>1. ASSUME NEW c \in Client, NEW a, Refuse(c, a),
               a = Unhandled \/ \E layer \in {"cors", "size", "limit", "app"}, st \in Statuses : a = By(layer, st)
        PROVE  answer' \in Answer
    BY <1>1, AnswerType DEF Refuse
  <1>2. ASSUME NEW c \in Client, NEW exception \in DOMAIN StatusOf, Refuse(c, Refusal(exception))
        PROVE  answer' \in Answer
    BY <1>1, <1>2, RefusalType
  <1>3. {200, 202, 204, 400, 404, 405, 413, 422, 429, 503} \subseteq Statuses
        /\ {"AuthenticationError", "AuthorizationError", "EntityNotFoundError", "ConflictError"}
             \subseteq DOMAIN StatusOf
    BY DEF Statuses, StatusOf
  <1>4. ASSUME NEW c \in Client, Preflight(c) \/ NoRoute(c) \/ Probe(c)
        PROVE  answer' \in Answer
    <2>1. \/ Refuse(c, By("cors", 200)) \/ Refuse(c, By("cors", 400))
          \/ Refuse(c, By("app", 404)) \/ Refuse(c, By("app", 405))
          \/ Refuse(c, By("app", 200)) \/ Refuse(c, By("app", 503))
      BY <1>4 DEF Preflight, NoRoute, Probe
    <2>2. QED
      BY <1>1, <1>3, <2>1
  <1>5. ASSUME NEW c \in Client,
               TurnAway(c) \/ HandlerRaises(c) \/ AuthenticationFails(c) \/ BodyInvalid(c)
        PROVE  answer' \in Answer
    <2>1. \/ Refuse(c, By("size", 413)) \/ Refuse(c, By("limit", 429))
          \/ Refuse(c, Unhandled) \/ Refuse(c, Refusal("AuthenticationError")) \/ Refuse(c, By("app", 422))
      BY <1>5 DEF TurnAway, HandlerRaises, AuthenticationFails, BodyInvalid
    <2>2. QED
      BY <1>1, <1>2, <1>3, <2>1
  <1>6. ASSUME NEW c \in Client, Authenticate(c) PROVE answer' \in Answer
    <2>1. Refuse(c, Refusal("AuthorizationError")) \/ answer' = NoAnswer
      BY <1>6 DEF Authenticate, Goto
    <2>2. QED
      BY <1>2, <1>3, <2>1, NoAnswerType
  <1>7. ASSUME NEW c \in Client, NEW j \in Job, Load(c, j) PROVE answer' \in Answer
    <2>1. \/ Refuse(c, Refusal("EntityNotFoundError")) \/ Refuse(c, Refusal("AuthorizationError"))
          \/ Reply(c, By("app", 200), {j}) \/ answer' = NoAnswer
      BY <1>7 DEF Load
    <2>2. {j} \in SUBSET Job
      OBVIOUS
    <2>3. QED
      BY <1>2, <1>3, <2>1, <2>2, AnswerType, NoAnswerType
  <1>8. ASSUME NEW c \in Client, Create(c) PROVE answer' \in Answer
    <2>1. Reply(c, By("app", 202), {}) \/ Reply(c, Unhandled, {})
      BY <1>8 DEF Create
    <2>2. {} \in SUBSET Job
      OBVIOUS
    <2>3. QED
      BY <1>3, <2>1, <2>2, AnswerType
  <1>9. ASSUME NEW c \in Client, Cancel(c) \/ Delete(c) PROVE answer' \in Answer
    <2>1. \/ Refuse(c, Refusal("EntityNotFoundError")) \/ Refuse(c, Refusal("ConflictError"))
          \/ Present(req[c].job) /\ Reply(c, By("app", 200), {req[c].job})
          \/ Reply(c, By("app", 204), {})
      BY <1>9 DEF Cancel, Delete
    <2>2. {} \in SUBSET Job /\ (Present(req[c].job) => {req[c].job} \in SUBSET Job)
      BY DEF Present, TypeInv, TypeOK, TableOK
    <2>3. QED
      BY <1>2, <1>3, <2>1, <2>2, AnswerType
  <1>10. ASSUME NEW c \in Client, ReadCount(c) PROVE answer' \in Answer
    <2>1. Reply(c, By("app", 200), req[c].items)
      BY <1>10 DEF ReadCount
    <2>2. req[c].items \in SUBSET Job
      BY ItemsType DEF TypeInv, TypeOK, Request
    <2>3. QED
      BY <1>3, <2>1, <2>2, AnswerType
  <1>11. ASSUME NEW c \in Client, ReadItems(c) \/ (\E call \in CallsOf[c] : Arrive(c, call))
         PROVE  answer' \in Answer
    BY <1>11, NoAnswerType DEF ReadItems, Arrive
  <1>12. ASSUME NEW j \in Job, Finish(j) PROVE answer' \in Answer
    BY <1>12, NoAnswerType DEF Finish
  <1>13. CASE UNCHANGED vars
    BY <1>13 DEF vars, TypeInv, TypeOK
  <1>14. QED
    BY <1>4, <1>5, <1>6, <1>7, <1>8, <1>9, <1>10, <1>11, <1>12, <1>13 DEF Next

\* What a request becomes, step by step.
LEMMA ArriveType ==
  ASSUME TypeInv, NEW c \in Client, NEW call \in CallsOf[c], Arrive(c, call)
  PROVE  /\ LET r == [req[c] EXCEPT !.at = "authenticate", !.call = call]
            IN  r \in Request /\ Moves(c, r) /\ r.at = "authenticate" /\ r.call = call
         /\ UNCHANGED <<tableVars, role>>
         /\ \/ walk' = walk /\ (call # "list" \/ ~walk.over)
            \/ walk.over /\ \E f \in FilterChoice(c) : f \in Filter /\ walk' = NewWalk(f)
  <1>1. call \in JobCall /\ req[c] \in Request
    BY ApiAssumption DEF TypeInv, TypeOK
  <1>2. FilterChoice(c) \subseteq Filter
    BY DEF FilterChoice, Filter
  <1> DEFINE r == [req[c] EXCEPT !.at = "authenticate", !.call = call]
  <1>3. r \in Request /\ r.at = "authenticate" /\ r.call = call
    BY <1>1 DEF Request
  <1>4. Moves(c, r)
    BY DEF Arrive, Moves, TypeInv, TypeOK
  <1>5. QED
    BY <1>2, <1>3, <1>4 DEF Arrive

LEMMA NewWalkType ==
  ASSUME TypeInv, NEW f \in Filter, walk' = NewWalk(f)
  PROVE  /\ walk' \in Walk /\ IsFiniteSet(walk'.there) /\ IsFiniteSet(walk'.shown)
         /\ walk'.filter = f /\ ~walk'.over /\ walk'.there = Selected(f, rows, owner, status)
         /\ walk'.shown = {} /\ walk'.offset = 0 /\ walk'.gone = 0 /\ walk'.come = 0 /\ walk'.twice = 0
  <1> DEFINE S == Selected(f, rows, owner, status)
  <1>1. S \in SUBSET Job /\ IsFiniteSet(S)
    BY HereType
  <1>2. walk' = [NoWalk EXCEPT !.filter = f, !.over = FALSE, !.there = S]
    BY DEF NewWalk
  <1> HIDE DEF S
  <1>3. /\ walk'.filter = f /\ ~walk'.over /\ walk'.there = S
        /\ walk'.shown = {} /\ walk'.offset = 0 /\ walk'.gone = 0 /\ walk'.come = 0
        /\ walk'.twice = 0 /\ walk' \in Walk
    <2>1. NoWalk \in Walk /\ NoWalk.shown = {} /\ NoWalk.offset = 0 /\ NoWalk.gone = 0
          /\ NoWalk.come = 0 /\ NoWalk.twice = 0
      BY DEF NoWalk, Walk, Filter
    <2>2. QED
      BY <1>1, <1>2, <2>1 DEF Walk
  <1>4. QED
    BY <1>1, <1>3, FS_EmptySet DEF S

LEMMA ReadItemsType ==
  ASSUME TypeInv, NEW c \in Client, ReadItems(c)
  PROVE  LET page == PageItems(walk.filter, walk.offset)
             r == [req[c] EXCEPT !.at = "count", !.items = page]
         IN  /\ r \in Request /\ Moves(c, r) /\ r.at = "count" /\ r.items = page
             /\ r.call = req[c].call /\ req[c].at = "items" /\ Quiet
  <1> DEFINE page == PageItems(walk.filter, walk.offset)
             r == [req[c] EXCEPT !.at = "count", !.items = page]
  <1>1. page \in Items
    BY PageType
  <1>2. Moves(c, r) /\ req[c].at = "items" /\ Quiet
    BY DEF ReadItems, Moves, Quiet, TypeInv, TypeOK
  <1> HIDE DEF page
  <1>3. r \in Request /\ r.at = "count" /\ r.items = page /\ r.call = req[c].call
    BY <1>1 DEF TypeInv, TypeOK, Request
  <1>4. QED
    BY <1>2, <1>3 DEF page

LEMMA ReadCountType ==
  ASSUME TypeInv, NEW c \in Client, ReadCount(c)
  PROVE  LET page == req[c].items
         IN  /\ page \in Items /\ Moves(c, Idle) /\ req[c].at = "count"
             /\ UNCHANGED <<tableVars, role>>
             /\ walk' \in Walk /\ IsFiniteSet(walk'.shown) /\ walk'.there = walk.there
             /\ walk'.filter = walk.filter /\ walk'.gone = walk.gone /\ walk'.come = walk.come
             /\ walk'.offset = walk.offset + Cardinality(page)
             /\ walk'.shown = walk.shown \cup page
             /\ walk'.twice = walk.twice + Cardinality(page \cap walk.shown)
             /\ walk'.over = ~(walk.offset + Cardinality(page) < Cardinality(Here))
  <1> DEFINE page == req[c].items
             more == HasMore(walk.offset, page, Total(walk.filter))
             offset == walk.offset + Cardinality(page)
             twice == walk.twice + Cardinality(page \cap walk.shown)
  <1>1. page \in Items
    BY DEF TypeInv, TypeOK, Request
  <1>2. page \in SUBSET Job /\ IsFiniteSet(page) /\ Cardinality(page) \in Nat
    BY <1>1, ItemsType
  <1>3. Cardinality(page \cap walk.shown) \in Nat
    BY <1>2, FS_Intersection, FS_CardinalityType
  <1>4. walk \in Walk /\ IsFiniteSet(walk.shown)
    BY DEF TypeInv, TypeOK, TableOK
  <1>5. offset \in Nat /\ twice \in Nat
    BY <1>2, <1>3, <1>4 DEF Walk
  <1>6. more = (offset < Cardinality(Here)) /\ more \in BOOLEAN
    BY DEF HasMore, Total, Here
  <1>7. walk' = [walk EXCEPT !.offset = offset, !.over = ~more, !.shown = walk.shown \cup page,
                             !.twice = twice]
    BY DEF ReadCount, Turned
  <1>8. IsFiniteSet(walk.shown \cup page) /\ walk.shown \cup page \in SUBSET Job
    BY <1>2, <1>4, FS_Union DEF Walk
  <1>9. Moves(c, Idle) /\ req[c].at = "count" /\ UNCHANGED <<tableVars, role>>
    BY DEF ReadCount, Reply, Moves
  <1> HIDE DEF more, offset, twice
  <1>10. /\ walk' \in Walk /\ walk'.there = walk.there
         /\ walk'.filter = walk.filter /\ walk'.gone = walk.gone /\ walk'.come = walk.come
         /\ walk'.offset = offset /\ walk'.shown = walk.shown \cup page
         /\ walk'.twice = twice /\ walk'.over = ~more
    BY <1>4, <1>5, <1>6, <1>7, <1>8 DEF Walk
  <1>11. QED
    BY <1>1, <1>6, <1>8, <1>9, <1>10 DEF offset, twice

LEMMA ToActType ==
  ASSUME TypeInv, NEW c \in Client
  PROVE  /\ LET r == [req[c] EXCEPT !.at = NextStep(req[c].call)]
            IN  r \in Request /\ r.call = req[c].call /\ r.at = NextStep(req[c].call)
         /\ \A j \in Job : LET r == [req[c] EXCEPT !.at = "act", !.job = j]
                           IN  r \in Request /\ r.call = req[c].call /\ r.at = "act" /\ r.job = j
         /\ NextStep(req[c].call) \in {"load", "items", "act"}
         /\ NextStep(req[c].call) = "load" => req[c].call \in OnJob
         /\ NextStep(req[c].call) = "items" => req[c].call = "list"
         /\ NextStep(req[c].call) = "act" => req[c].call = "create"
  <1>1. req[c] \in Request /\ req[c].call \in JobCall
    BY DEF TypeInv, TypeOK, Request
  <1>2. /\ NextStep(req[c].call) \in {"load", "items", "act"}
        /\ NextStep(req[c].call) = "load" => req[c].call \in OnJob
        /\ NextStep(req[c].call) = "items" => req[c].call = "list"
        /\ NextStep(req[c].call) = "act" => req[c].call = "create"
    BY <1>1 DEF NextStep, JobCall, OnJob
  <1>3. QED
    BY <1>1, <1>2 DEF Request

LEMMA TypeStep ==
  ASSUME TypeInv, [Next]_vars
  PROVE  TypeInv'
  <1>1. ASSUME Quiet, req' \in [Client -> Request]
        PROVE  TypeInv'
    BY <1>1, AnswerStep DEF Quiet, tableVars, TypeInv, TypeOK, TableOK, Present
  <1>2. ASSUME UNCHANGED <<tableVars, role>>, req' \in [Client -> Request],
               walk' \in Walk, IsFiniteSet(walk'.there), IsFiniteSet(walk'.shown)
        PROVE  TypeInv'
    BY <1>2, AnswerStep DEF tableVars, TypeInv, TypeOK, TableOK, Present
  <1>3. ASSUME NEW x \in Job, Comes(x) \/ Ends(x) \/ Goes(x), WalkNotices, UNCHANGED role,
               req' \in [Client -> Request]
        PROVE  TypeInv'
    BY <1>3, AnswerStep, TableType, NoticedType DEF TypeInv, TypeOK, TableOK, Present
  <1>4. CASE UNCHANGED vars
    BY <1>1, <1>4 DEF vars, Quiet, TypeInv, TypeOK
  <1>5. CASE Next
    <2>1. ASSUME NEW c \in Client, Quiet, Moves(c, Idle)
          PROVE  TypeInv'
      BY <1>1, <2>1, IdleType, MovesType
    <2>2. ASSUME NEW c \in Client, NEW call \in CallsOf[c], Arrive(c, call)
          PROVE  TypeInv'
      <3>1. req' \in [Client -> Request]
        BY <2>2, ArriveType, MovesType
      <3>2. CASE walk' = walk
        BY <1>1, <2>2, <3>1, <3>2, ArriveType DEF Quiet
      <3>3. CASE walk' # walk
        <4>1. PICK f \in Filter : walk' = NewWalk(f)
          BY <2>2, <3>3, ArriveType
        <4>2. walk' \in Walk /\ IsFiniteSet(walk'.there) /\ IsFiniteSet(walk'.shown)
          BY <4>1, NewWalkType
        <4>3. UNCHANGED <<tableVars, role>>
          BY <2>2, ArriveType
        <4>4. QED
          BY <1>2, <3>1, <4>2, <4>3
      <3>4. QED
        BY <3>2, <3>3
    <2>3. ASSUME NEW c \in Client, Quiet, Moves(c, [req[c] EXCEPT !.at = NextStep(req[c].call)])
          PROVE  TypeInv'
      BY <1>1, <2>3, ToActType, MovesType
    <2>4. ASSUME NEW c \in Client, NEW j \in Job, Quiet,
                 Moves(c, [req[c] EXCEPT !.at = "act", !.job = j])
          PROVE  TypeInv'
      BY <1>1, <2>4, ToActType, MovesType
    <2>5. ASSUME NEW c \in Client, NEW x \in Job, Comes(x) \/ Ends(x) \/ Goes(x), WalkNotices,
                 UNCHANGED role, Moves(c, Idle)
          PROVE  TypeInv'
      BY <1>3, <2>5, IdleType, MovesType
    <2>6. ASSUME NEW x \in Job, Ends(x), WalkNotices, UNCHANGED <<role, req>>
          PROVE  TypeInv'
      BY <1>3, <2>6 DEF TypeInv, TypeOK
    <2>7. ASSUME NEW c \in Client, ReadItems(c)
          PROVE  TypeInv'
      BY <1>1, <2>7, ReadItemsType, MovesType
    <2>8. ASSUME NEW c \in Client, ReadCount(c)
          PROVE  TypeInv'
      <3>1. req' \in [Client -> Request]
        BY <2>8, ReadCountType, IdleType, MovesType
      <3>2. IsFiniteSet(walk'.there)
        BY <2>8, ReadCountType DEF TypeInv
      <3>3. QED
        BY <1>2, <2>8, <3>1, <3>2, ReadCountType
    <2>9. QED
      BY <1>5, <2>1, <2>2, <2>3, <2>4, <2>5, <2>6, <2>7, <2>8, StepKinds
  <1>6. QED
    BY <1>4, <1>5

LEMMA InitTypeInv ==
  ASSUME Init
  PROVE  TypeInv
  <1>1. role \in RoleChoice /\ NoWalk \in Walk /\ NoWalk.there = {} /\ NoWalk.shown = {}
    BY DEF Init, NoWalk, Walk, Filter
  <1>2. QED
    BY <1>1, IdleType, NoAnswerType, FS_EmptySet DEF Init, ListInit, TypeInv, TypeOK, TableOK, Present

\* Every state of the API has its type, for tables, walks and pages of any size:
\* a page holds no more than its limit, and every job in the table has an owner.
THEOREM ApiTypeCorrect == Spec => []TypeOK
  <1>1. TypeInv => TypeOK
    BY DEF TypeInv
  <1>2. QED
    BY <1>1, InitTypeInv, TypeStep, PTL DEF Spec

-----------------------------------------------------------------------------
(* The invariant of the handlers: what one has found out before its second *)
(* unit of work still holds when it acts, because roles stay, and the      *)
(* owner of a job that was created does not change; what one has read of a *)
(* list may be shown, because its filter was chosen for the role.          *)

\* The handler waits for the unit of work that changes the job.
ToChange(c) == req[c].at = "act" /\ req[c].call \in {"cancel", "delete"}

Entitled(c) ==
  /\ req[c].at = "load" => req[c].call \in OnJob /\ HasRole(c, Needs(req[c].call))
  /\ ToChange(c) =>
       /\ req[c].job \in Job
       /\ owner[req[c].job] # NoOne
       /\ HasRole(c, "operator")
       /\ Authorized(c, req[c].job)

\* Who lists walks, and what it has read is let through by the walk's filter.
Lists(c) ==
  /\ req[c].at \in {"items", "count"} => req[c].call = "list"
  /\ req[c].call = "list" /\ req[c].at # "idle" => c = Walker /\ ~walk.over
  /\ req[c].at = "count" => \A j \in req[c].items : /\ owner[j] # NoOne
                                                    /\ walk.filter.owner \in {NoOne, owner[j]}

Handlers ==
  /\ \A c \in Client : Entitled(c) /\ Lists(c)
  /\ ~walk.over => walk.filter.owner = Walker \/ role[Walker] = "admin"

\* A step of one handler that leaves the table alone keeps what is known, if
\* that handler is entitled to what it does next.
LEMMA HandlerMoves ==
  ASSUME TypeInv, Handlers, UNCHANGED <<tableVars, role>>, NEW c \in Client, NEW r \in Request,
         Moves(c, r), Entitled(c)', Lists(c)',
         walk'.over = walk.over, walk'.filter = walk.filter
  PROVE  Handlers'
  <1>1. \A d \in Client \ {c} : req'[d] = req[d]
    BY MovesType
  <1>2. owner' = owner /\ role' = role
    BY DEF tableVars
  <1>3. ASSUME NEW d \in Client \ {c}
        PROVE  Entitled(d)' /\ Lists(d)'
    <2>1. Entitled(d) /\ Lists(d) /\ req'[d] = req[d]
      BY <1>1 DEF Handlers
    <2>2. Entitled(d)'
      BY <1>2, <2>1 DEF Entitled, ToChange, HasRole, Authorized
    <2>3. Lists(d)'
      BY <1>2, <2>1 DEF Lists
    <2>4. QED
      BY <2>2, <2>3
  <1>4. (~walk.over => walk.filter.owner = Walker \/ role[Walker] = "admin")'
    BY <1>2 DEF Handlers
  <1>5. QED
    BY <1>3, <1>4 DEF Handlers

\* A change of the table that keeps the owners of the jobs there are.
LEMMA HandlersStand ==
  ASSUME TypeInv, Handlers, UNCHANGED role, NEW x \in Job, Comes(x) \/ Ends(x) \/ Goes(x), WalkNotices,
         req' = req \/ \E c \in Client : Moves(c, Idle)
  PROVE  Handlers'
  <1>1. \A d \in Client : req'[d] = req[d] \/ req'[d] = Idle
    BY IdleType, MovesType
  <1>2. /\ \A j \in Job : owner[j] # NoOne => owner'[j] = owner[j]
        /\ walk'.over = walk.over /\ walk'.filter = walk.filter /\ role' = role
    BY TableType, NoticedType
  <1>3. ASSUME NEW d \in Client
        PROVE  Entitled(d)' /\ Lists(d)'
    <2>1. CASE req'[d] = Idle
      BY <2>1, IdleType DEF Entitled, ToChange, Lists
    <2>2. CASE req'[d] = req[d]
      <3>1. Entitled(d) /\ Lists(d) /\ req[d].items \in SUBSET Job
        BY ItemsType DEF Handlers, TypeInv, TypeOK, Request
      <3>2. Entitled(d)'
        BY <1>2, <2>2, <3>1 DEF Entitled, ToChange, HasRole, Authorized
      <3>3. Lists(d)'
        BY <1>2, <2>2, <3>1 DEF Lists
      <3>4. QED
        BY <3>2, <3>3
    <2>3. QED
      BY <1>1, <2>1, <2>2
  <1>4. (~walk.over => walk.filter.owner = Walker \/ role[Walker] = "admin")'
    BY <1>2 DEF Handlers
  <1>5. QED
    BY <1>3, <1>4 DEF Handlers

LEMMA HandlersStep ==
  ASSUME TypeInv, Handlers, [Next]_vars
  PROVE  Handlers'
  <1>1. CASE UNCHANGED vars
    BY <1>1 DEF vars, tableVars, Handlers, Entitled, ToChange, HasRole, Authorized, Lists
  <1>2. ASSUME NEW c \in Client, Quiet, Moves(c, Idle)
        PROVE  Handlers'
    <2>1. Entitled(c)' /\ Lists(c)'
      BY <1>2, IdleType, MovesType DEF Entitled, ToChange, Lists
    <2>2. QED
      BY <1>2, <2>1, IdleType, HandlerMoves DEF Quiet
  <1>3. ASSUME NEW c \in Client, NEW call \in CallsOf[c], Arrive(c, call)
        PROVE  Handlers'
    <2> DEFINE r == [req[c] EXCEPT !.at = "authenticate", !.call = call]
    <2>1. /\ r \in Request /\ Moves(c, r) /\ r.at = "authenticate" /\ r.call = call
          /\ UNCHANGED <<tableVars, role>>
      BY <1>3, ArriveType
    <2> HIDE DEF r
    <2>2. req'[c] = r /\ \A d \in Client \ {c} : req'[d] = req[d]
      BY <2>1, MovesType
    <2>3. Entitled(c)'
      BY <2>1, <2>2 DEF Entitled, ToChange
    <2>4. call = "list" => c = Walker
      BY ApiAssumption
    <2>5. CASE walk' = walk /\ (call # "list" \/ ~walk.over)
      <3>1. Lists(c)'
        BY <2>1, <2>2, <2>4, <2>5 DEF Lists
      <3>2. QED
        BY <2>1, <2>3, <2>5, <3>1, HandlerMoves
    <2>6. CASE walk' # walk \/ ~(call # "list" \/ ~walk.over)
      <3>1. walk.over /\ call = "list" /\ \E f \in FilterChoice(c) : f \in Filter /\ walk' = NewWalk(f)
        BY <1>3, <2>6, ArriveType DEF Arrive
      <3>2. PICK f \in FilterChoice(c) : f \in Filter /\ walk' = NewWalk(f)
        BY <3>1
      <3>3. ~walk'.over /\ walk'.filter = f
        BY <3>2, NewWalkType
      <3>4. f.owner = c \/ role[c] = "admin"
        BY DEF FilterChoice
      <3>5. Lists(c)'
        BY <2>1, <2>2, <2>4, <3>1, <3>3 DEF Lists
      <3>6. owner' = owner /\ role' = role
        BY <2>1 DEF tableVars
      <3>7. ASSUME NEW d \in Client \ {c}
            PROVE  Entitled(d)' /\ Lists(d)'
        <4>1. Entitled(d) /\ Lists(d) /\ req'[d] = req[d]
          BY <2>2 DEF Handlers
        <4>2. req[d].at \notin {"items", "count"} /\ ~(req[d].call = "list" /\ req[d].at # "idle")
          BY <3>1, <4>1 DEF Lists
        <4>3. Entitled(d)'
          BY <3>6, <4>1 DEF Entitled, ToChange, HasRole, Authorized
        <4>4. Lists(d)'
          BY <4>1, <4>2 DEF Lists
        <4>5. QED
          BY <4>3, <4>4
      <3>8. walk'.filter.owner = Walker \/ role'[Walker] = "admin"
        BY <2>4, <3>1, <3>3, <3>4, <3>6
      <3>9. QED
        BY <2>3, <3>5, <3>7, <3>8 DEF Handlers
    <2>7. QED
      BY <2>5, <2>6
  <1>4. ASSUME NEW c \in Client, Quiet, req[c].at = "authenticate", HasRole(c, Needs(req[c].call)),
               Moves(c, [req[c] EXCEPT !.at = NextStep(req[c].call)])
        PROVE  Handlers'
    <2> DEFINE r == [req[c] EXCEPT !.at = NextStep(req[c].call)]
    <2>1. /\ r \in Request /\ r.call = req[c].call /\ r.at = NextStep(req[c].call)
          /\ NextStep(req[c].call) \in {"load", "items", "act"}
          /\ NextStep(req[c].call) = "load" => req[c].call \in OnJob
          /\ NextStep(req[c].call) = "items" => req[c].call = "list"
          /\ NextStep(req[c].call) = "act" => req[c].call = "create"
      BY ToActType
    <2>2. Moves(c, r) /\ Quiet
      BY <1>4
    <2> HIDE DEF r
    <2>3. req'[c] = r
      BY <2>1, <2>2, MovesType
    <2>4. Entitled(c)'
      BY <1>4, <2>1, <2>2, <2>3 DEF Entitled, ToChange, HasRole, Quiet
    <2>5. Lists(c)
      BY DEF Handlers
    <2>6. Lists(c)'
      BY <1>4, <2>1, <2>2, <2>3, <2>5 DEF Lists, Quiet
    <2>7. QED
      BY <2>1, <2>2, <2>4, <2>6, HandlerMoves DEF Quiet
  <1>5. ASSUME NEW c \in Client, NEW j \in Job, Quiet, req[c].at = "load", Present(j), Authorized(c, j),
               req[c].call # "get", Moves(c, [req[c] EXCEPT !.at = "act", !.job = j])
        PROVE  Handlers'
    <2> DEFINE r == [req[c] EXCEPT !.at = "act", !.job = j]
    <2>1. r \in Request /\ r.call = req[c].call /\ r.at = "act" /\ r.job = j
      BY ToActType
    <2>2. Moves(c, r) /\ Quiet
      BY <1>5
    <2> HIDE DEF r
    <2>3. req'[c] = r
      BY <2>1, <2>2, MovesType
    <2>4. Entitled(c) /\ Lists(c)
      BY DEF Handlers
    <2>5. req[c].call \in {"cancel", "delete"} /\ HasRole(c, "operator") /\ owner[j] # NoOne
      <3>1. req[c].call \in OnJob /\ HasRole(c, Needs(req[c].call))
        BY <1>5, <2>4 DEF Entitled
      <3>2. QED
        BY <1>5, <3>1 DEF OnJob, Needs, TypeInv, TypeOK
    <2>6. owner' = owner /\ role' = role /\ walk' = walk
      BY <2>2 DEF Quiet, tableVars
    <2>7. Entitled(c)'
      BY <1>5, <2>1, <2>3, <2>5, <2>6 DEF Entitled, ToChange, HasRole, Authorized
    <2>8. Lists(c)'
      BY <2>1, <2>3, <2>5 DEF Lists
    <2>9. QED
      BY <2>1, <2>2, <2>7, <2>8, HandlerMoves DEF Quiet
  <1>6. ASSUME NEW x \in Job, Comes(x) \/ Ends(x) \/ Goes(x), WalkNotices, UNCHANGED role,
               req' = req \/ \E c \in Client : Moves(c, Idle)
        PROVE  Handlers'
    BY <1>6, HandlersStand
  <1>7. ASSUME NEW c \in Client, ReadItems(c)
        PROVE  Handlers'
    <2> DEFINE page == PageItems(walk.filter, walk.offset)
               r == [req[c] EXCEPT !.at = "count", !.items = page]
    <2>1. /\ r \in Request /\ Moves(c, r) /\ r.at = "count" /\ r.items = page
          /\ r.call = req[c].call /\ req[c].at = "items" /\ Quiet
      BY <1>7, ReadItemsType
    <2>2. \A j \in page : owner[j] # NoOne /\ walk.filter.owner \in {NoOne, owner[j]}
      <3>1. page \subseteq Here /\ Here \subseteq rows /\ rows \subseteq Job
        BY PageType, HereType DEF Here, TypeInv, TypeOK, TableOK
      <3>2. \A j \in Here : walk.filter.owner \in {NoOne, owner[j]}
        BY DEF Here, Selected, Matches
      <3>3. QED
        BY <3>1, <3>2 DEF TypeInv, TypeOK, Present
    <2> HIDE DEF page, r
    <2>3. req'[c] = r
      BY <2>1, MovesType
    <2>4. Lists(c) /\ owner' = owner /\ walk' = walk
      BY <2>1 DEF Handlers, Quiet, tableVars
    <2>5. Entitled(c)' /\ Lists(c)'
      BY <2>1, <2>2, <2>3, <2>4 DEF Entitled, ToChange, Lists
    <2>6. QED
      BY <2>1, <2>5, HandlerMoves DEF Quiet
  <1>8. ASSUME NEW c \in Client, ReadCount(c)
        PROVE  Handlers'
    <2>1. /\ Moves(c, Idle) /\ req[c].at = "count" /\ UNCHANGED <<tableVars, role>>
          /\ walk'.filter = walk.filter
      BY <1>8, ReadCountType
    <2>2. req'[c] = Idle /\ \A d \in Client \ {c} : req'[d] = req[d]
      BY <2>1, IdleType, MovesType
    <2>3. c = Walker /\ ~walk.over
      BY <2>1 DEF Handlers, Lists
    <2>4. owner' = owner /\ role' = role
      BY <2>1 DEF tableVars
    <2>5. ASSUME NEW d \in Client
          PROVE  Entitled(d)' /\ Lists(d)'
      <3>1. CASE d = c
        BY <2>2, <3>1, IdleType DEF Entitled, ToChange, Lists
      <3>2. CASE d # c
        <4>1. Entitled(d) /\ Lists(d) /\ req'[d] = req[d]
          BY <2>2, <3>2 DEF Handlers
        <4>2. req[d].at \notin {"items", "count"} /\ ~(req[d].call = "list" /\ req[d].at # "idle")
          BY <2>3, <3>2, <4>1 DEF Lists
        <4>3. Entitled(d)'
          BY <2>4, <4>1 DEF Entitled, ToChange, HasRole, Authorized
        <4>4. Lists(d)'
          BY <4>1, <4>2 DEF Lists
        <4>5. QED
          BY <4>3, <4>4
      <3>3. QED
        BY <3>1, <3>2
    <2>6. walk'.filter.owner = Walker \/ role'[Walker] = "admin"
      BY <2>1, <2>3, <2>4 DEF Handlers
    <2>7. QED
      BY <2>5, <2>6 DEF Handlers
  <1>9. CASE Next
    BY <1>2, <1>3, <1>4, <1>5, <1>6, <1>7, <1>8, <1>9, StepKinds
  <1>10. QED
    BY <1>1, <1>9

LEMMA InitHandlers ==
  ASSUME Init
  PROVE  Handlers
  <1>1. \A c \in Client : req[c] = Idle
    BY DEF Init
  <1>2. walk.over
    BY DEF Init, ListInit, NoWalk
  <1>3. QED
    BY <1>1, <1>2, IdleType DEF Handlers, Entitled, ToChange, Lists

LEMMA HandlersAlways == Spec => [](TypeInv /\ Handlers)
  BY InitTypeInv, InitHandlers, TypeStep, HandlersStep, PTL DEF Spec

-----------------------------------------------------------------------------
\* Only its owner or an administrator cancels or deletes a job, and no viewer
\* does, for any number of clients and jobs: between the unit of work that
\* authorises and the one that acts, the job may change, but not its owner.
THEOREM OwnersAct == Spec => OnlyOwnersAct
  <1> DEFINE Step ==
        \A j \in Job :
          (status'[j] = "cancelled" /\ status[j] # "cancelled") \/ (Present(j) /\ ~Present(j)') =>
            \E c \in Client :
              /\ req[c].at = "act" /\ req[c].job = j
              /\ role[c] = "admin" \/ (role[c] = "operator" /\ owner[j] = c)
  <1>1. TypeInv /\ Handlers /\ [Next]_vars => [Step]_vars
    <2> SUFFICES ASSUME TypeInv, Handlers, Next, NEW j \in Job,
                        (status'[j] = "cancelled" /\ status[j] # "cancelled")
                          \/ (Present(j) /\ ~Present(j)')
                 PROVE  \E c \in Client :
                          /\ req[c].at = "act" /\ req[c].job = j
                          /\ role[c] = "admin" \/ (role[c] = "operator" /\ owner[j] = c)
      OBVIOUS
    <2>1. \E c \in Client : ToChange(c) /\ req[c].job = j
      <3>1. UNCHANGED tableVars => FALSE
        BY DEF tableVars, Present
      <3>2. ASSUME NEW x \in Job, Comes(x) PROVE FALSE
        BY <3>2 DEF Comes, AddRow, Present
      <3>3. ASSUME NEW x \in Job, Finish(x) PROVE FALSE
        BY <3>3 DEF Finish, SetStatus, Present, TypeInv, TypeOK, TableOK
      <3>4. ASSUME NEW c \in Client, NEW x \in Job, Ends(x), Cancel(c), req[c].at = "act", req[c].job = x
            PROVE  ToChange(c) /\ x = j
        BY <3>4 DEF Ends, SetStatus, Cancel, ToChange, Present, TypeInv, TypeOK, TableOK
      <3>5. ASSUME NEW c \in Client, NEW x \in Job, Goes(x), Delete(c), req[c].at = "act", req[c].job = x
            PROVE  ToChange(c) /\ x = j
        BY <3>5 DEF Goes, DropRow, Delete, ToChange, Present
      <3>6. ASSUME NEW c \in Client, \/ Quiet \/ (\E call \in CallsOf[c] : Arrive(c, call))
                                     \/ ReadItems(c) \/ ReadCount(c)
            PROVE  UNCHANGED tableVars
        BY <3>6 DEF Quiet, Arrive, ReadItems, ReadCount
      <3>7. QED
        BY <3>1, <3>2, <3>3, <3>4, <3>5, <3>6, StepKinds
    <2>2. PICK c \in Client : ToChange(c) /\ req[c].job = j
      BY <2>1
    <2>3. HasRole(c, "operator") /\ Authorized(c, j) /\ role[c] \in Role
      BY <2>2, ApiAssumption DEF Handlers, Entitled, TypeInv, TypeOK
    <2>4. role[c] \in {"operator", "admin"}
      BY <2>3 DEF HasRole, Rank, Role
    <2>5. QED
      BY <2>2, <2>3, <2>4 DEF ToChange, Authorized
  <1>2. QED
    BY <1>1, HandlersAlways, PTL DEF Spec, OnlyOwnersAct

LEMMA ShownStep ==
  ASSUME TypeInv, Handlers, OnlyOwnShown, [Next]_vars
  PROVE  OnlyOwnShown'
  <1> DEFINE Shown(c, shows) == \A j \in shows : role[c] = "admin" \/ owner[j] = c
  <1>1. ASSUME NEW c \in Client, NEW a, NEW shows, Reply(c, a, shows), Shown(c, shows),
               \A j \in shows : owner'[j] = owner[j], role' = role
        PROVE  OnlyOwnShown'
    BY <1>1 DEF Reply, OnlyOwnShown
  <1>2. ASSUME answer' = NoAnswer
        PROVE  OnlyOwnShown'
    BY <1>2 DEF NoAnswer, OnlyOwnShown
  <1>3. ASSUME NEW c \in Client, NEW a, Reply(c, a, {}), role' = role
        PROVE  OnlyOwnShown'
    BY <1>3, <1>1
  <1>4. CASE UNCHANGED vars
    BY <1>4 DEF vars, tableVars, OnlyOwnShown
  <1>5. ASSUME NEW c \in Client, Preflight(c) \/ NoRoute(c) \/ Probe(c) \/ TurnAway(c) \/ HandlerRaises(c)
                                 \/ AuthenticationFails(c) \/ BodyInvalid(c) \/ Create(c)
        PROVE  OnlyOwnShown'
    <2>1. role' = role /\ \E a : Reply(c, a, {})
      BY <1>5 DEF Preflight, NoRoute, Probe, TurnAway, HandlerRaises, AuthenticationFails, BodyInvalid,
                  Create, Refuse
    <2>2. QED
      BY <1>3, <2>1
  <1>6. ASSUME NEW c \in Client, Authenticate(c) \/ ReadItems(c)
                                 \/ (\E call \in CallsOf[c] : Arrive(c, call))
        PROVE  OnlyOwnShown'
    <2>1. answer' = NoAnswer \/ (role' = role /\ \E a : Reply(c, a, {}))
      BY <1>6 DEF Authenticate, ReadItems, Arrive, Goto, Refuse
    <2>2. QED
      BY <1>2, <1>3, <2>1
  <1>7. ASSUME NEW c \in Client, NEW j \in Job, Load(c, j)
        PROVE  OnlyOwnShown'
    <2>1. \/ answer' = NoAnswer \/ (role' = role /\ \E a : Reply(c, a, {}))
          \/ /\ Authorized(c, j) /\ UNCHANGED tableVars /\ role' = role
             /\ Reply(c, By("app", 200), {j})
      BY <1>7 DEF Load, Refuse
    <2>2. ASSUME Authorized(c, j), UNCHANGED tableVars, role' = role, Reply(c, By("app", 200), {j})
          PROVE  OnlyOwnShown'
      BY <1>1, <2>2 DEF Authorized, tableVars
    <2>3. QED
      BY <1>2, <1>3, <2>1, <2>2
  <1>8. ASSUME NEW c \in Client, Cancel(c) \/ Delete(c)
        PROVE  OnlyOwnShown'
    <2>1. \/ role' = role /\ \E a : Reply(c, a, {})
          \/ /\ ToChange(c) /\ SetStatus(req[c].job, "cancelled") /\ role' = role
             /\ Reply(c, By("app", 200), {req[c].job})
      BY <1>8 DEF Cancel, Delete, Refuse, ToChange
    <2>2. ASSUME ToChange(c), SetStatus(req[c].job, "cancelled"), role' = role,
                 Reply(c, By("app", 200), {req[c].job})
          PROVE  OnlyOwnShown'
      <3>1. Authorized(c, req[c].job) /\ owner' = owner
        BY <2>2 DEF Handlers, Entitled, SetStatus
      <3>2. QED
        BY <1>1, <2>2, <3>1 DEF Authorized
    <2>3. QED
      BY <1>3, <2>1, <2>2
  <1>9. ASSUME NEW c \in Client, ReadCount(c)
        PROVE  OnlyOwnShown'
    <2>1. Reply(c, By("app", 200), req[c].items) /\ role' = role /\ owner' = owner
          /\ req[c].at = "count"
      BY <1>9 DEF ReadCount, tableVars
    <2>2. Shown(c, req[c].items)
      <3>1. /\ c = Walker /\ ~walk.over
            /\ \A j \in req[c].items : owner[j] # NoOne /\ walk.filter.owner \in {NoOne, owner[j]}
        BY <2>1 DEF Handlers, Lists
      <3>2. walk.filter.owner = c \/ role[c] = "admin"
        BY <3>1 DEF Handlers
      <3>3. c # NoOne
        BY ListingAssumption
      <3>4. QED
        BY <3>1, <3>2, <3>3
    <2> HIDE DEF Shown
    <2>3. QED
      BY <1>1, <2>1, <2>2
  <1>10. ASSUME NEW j \in Job, Finish(j)
         PROVE  OnlyOwnShown'
    BY <1>2, <1>10 DEF Finish
  <1>11. QED
    BY <1>4, <1>5, <1>6, <1>7, <1>8, <1>9, <1>10 DEF Next

\* No answer shows a job of somebody else to a caller who is not an
\* administrator: a page is read with the filter that fits the role, and a job
\* that was asked for by its id is answered with after it was authorised.
THEOREM OwnShown == Spec => []OnlyOwnShown
  <1>1. Init => OnlyOwnShown
    BY DEF Init, NoAnswer, OnlyOwnShown
  <1>2. QED
    BY <1>1, ShownStep, HandlersAlways, PTL DEF Spec


-----------------------------------------------------------------------------
(* The invariant of a walk: at any time, what left the list explains what  *)
(* lies unseen behind the walk, and what came explains what it has seen    *)
(* twice or will.  It holds of the walk as its last answer left it and of  *)
(* the walk as the page on its way would leave it, because that answer may *)
(* never be given.                                                         *)

\* A walk that has seen some jobs, and so many of them twice, comes to position end.
Explained(w, seen, end, twice, jobs, when) ==
  /\ Cardinality(Missed(w.there, seen, end, jobs, when)) <= w.gone
  /\ twice + Cardinality(Again(seen, end, jobs, when)) <= w.come

OnItsWay(c) ==
  LET page == req[c].items
  IN  Explained(walk, walk.shown \cup page, walk.offset + Cardinality(page),
                walk.twice + Cardinality(page \cap walk.shown), Here, created)

WalkInv ==
  /\ WalkComplete
  /\ \A j \in walk.shown : owner[j] # NoOne
  /\ ~walk.over => /\ walk.there \subseteq Here
                   /\ Explained(walk, walk.shown, walk.offset, walk.twice, Here, created)
  /\ \A c \in Client : req[c].at = "count" => OnItsWay(c)

\* The list a walk goes through, as the lemmas about positions want it.
LEMMA HereFacts ==
  ASSUME TypeInv
  PROVE  /\ Here \subseteq rows /\ Here \in SUBSET Job /\ IsFiniteSet(Here) /\ Cardinality(Here) \in Nat
         /\ \A i \in Here : created[i] \in Int
         /\ \A i, j \in Here : created[i] = created[j] => i = j
         /\ walk.offset \in Nat /\ walk.twice \in Nat /\ walk.gone \in Nat /\ walk.come \in Nat
         /\ walk.shown \in SUBSET Job /\ walk.filter \in Filter
  <1>1. Here \subseteq rows /\ Here \in SUBSET Job /\ IsFiniteSet(Here) /\ Cardinality(Here) \in Nat
    BY HereType DEF Here
  <1>2. walk \in Walk
    BY DEF TypeInv, TypeOK, TableOK
  <1>3. QED
    BY <1>1, <1>2 DEF TypeInv, TypeOK, TableOK, Walk

\* What is missed and what is seen again are numbers.
LEMMA ExplainedType ==
  ASSUME NEW S, IsFiniteSet(S), NEW when, NEW there \in SUBSET S, NEW seen, NEW end
  PROVE  /\ Cardinality(Missed(there, seen, end, S, when)) \in Nat
         /\ Cardinality(Again(seen, end, S, when)) \in Nat
  <1>1. Missed(there, seen, end, S, when) \in SUBSET S /\ Again(seen, end, S, when) \in SUBSET S
    BY DEF Missed, Again
  <1>2. QED
    BY <1>1, FinitePart

\* A change of the table is explained by what the walk notices of it.
LEMMA NoticedExplains ==
  ASSUME TypeInv, WalkNotices, ~walk.over, walk.there \subseteq Here,
         NEW x \in Job, Comes(x) \/ Ends(x) \/ Goes(x),
         NEW seen, \A j \in seen : owner[j] # NoOne, NEW end \in Nat, NEW twice \in Nat,
         Explained(walk, seen, end, twice, Here, created)
  PROVE  /\ walk'.there \subseteq Here'
         /\ Explained(walk', seen, end, twice, Here', created')
  <1> DEFINE S == Here
             T == Selected(walk.filter, rows', owner', status')
             there == walk.there
             M == Cardinality(Missed(there, seen, end, S, created))
             A == Cardinality(Again(seen, end, S, created))
  <1>1. Here' = T
    BY NoticedType DEF Here
  <1>2. /\ IsFiniteSet(S) /\ \A i \in S : created[i] \in Int
        /\ \A i, j \in S : created[i] = created[j] => i = j
        /\ walk.gone \in Nat /\ walk.come \in Nat /\ walk.filter \in Filter
    BY HereFacts
  <1>3. /\ walk'.there = there \cap T
        /\ walk'.gone = walk.gone + Cardinality(S \ T)
        /\ walk'.come = walk.come + Cardinality(T \ S)
    <2>1. walk' = [walk EXCEPT !.there = there \cap T,
                               !.gone = walk.gone + Cardinality(S \ T),
                               !.come = walk.come + Cardinality(T \ S)]
      BY NoticedIs
    <2>2. walk \in Walk
      BY DEF TypeInv, TypeOK, TableOK
    <2> HIDE DEF S, T, there
    <2>3. QED
      BY <2>1, <2>2 DEF Walk
  <1>4. M \in Nat /\ A \in Nat /\ M <= walk.gone /\ twice + A <= walk.come
    <2>1. M \in Nat /\ A \in Nat
      BY <1>2, ExplainedType
    <2>2. QED
      BY <2>1 DEF Explained
  <1>5. \/ T = S /\ \A i \in S : created'[i] = created[i]
        \/ x \in S /\ T = S \ {x} /\ created' = created
        \/ /\ x \notin S /\ owner[x] = NoOne /\ T = S \cup {x}
           /\ \A i \in S : created'[i] = created[i]
    BY <1>2, ListChanges DEF Here
  <1>6. there \subseteq S
    OBVIOUS
  <1>7. Cardinality({}) = 0 /\ Cardinality({x}) = 1
    BY FS_EmptySet, FS_Singleton
  <1>8. walk'.there \subseteq T
    BY <1>3
  <1> DEFINE N == Cardinality(Missed(walk'.there, seen, end, T, created'))
             B == Cardinality(Again(seen, end, T, created'))
  <1>9. IsFiniteSet(T) /\ N \in Nat /\ B \in Nat
    <2>1. T \in SUBSET rows' /\ IsFiniteSet(rows')
      BY TableType DEF Selected
    <2>2. IsFiniteSet(T)
      BY <2>1, FS_Subset
    <2>3. walk'.there \in SUBSET T
      BY <1>8
    <2> HIDE DEF T
    <2>4. QED
      BY <2>2, <2>3, ExplainedType
  <1> HIDE DEF S, T, there
  <1>10. N <= walk'.gone /\ twice + B <= walk'.come
    <2>1. CASE T = S /\ \A i \in S : created'[i] = created[i]
      <3>1. walk'.there = there /\ S \ T = {} /\ T \ S = {}
        BY <1>3, <1>6, <2>1
      <3>2. \A j \in S : Position(j, S, created') = Position(j, S, created)
        BY <2>1, PositionKept
      <3>3. /\ Missed(there, seen, end, T, created') = Missed(there, seen, end, S, created)
            /\ Again(seen, end, T, created') = Again(seen, end, S, created)
        BY <1>6, <2>1, <3>2 DEF Missed, Again
      <3>4. N = M /\ B = A
        BY <3>1, <3>3
      <3>5. walk'.gone = walk.gone + 0 /\ walk'.come = walk.come + 0
        BY <1>3, <1>7, <3>1
      <3> HIDE DEF M, A, N, B
      <3>6. QED
        BY <1>2, <1>4, <3>4, <3>5
    <2>2. CASE x \in S /\ T = S \ {x} /\ created' = created
      <3>1. walk'.there = there \ {x} /\ S \ T = {x} /\ T \ S = {}
        BY <1>3, <1>6, <2>2
      <3>2. N <= M + 1 /\ B <= A
        BY <1>2, <1>6, <2>2, <3>1, WhenOneLeaves
      <3>3. walk'.gone = walk.gone + 1 /\ walk'.come = walk.come + 0
        BY <1>3, <1>7, <3>1
      <3> HIDE DEF M, A, N, B
      <3>4. QED
        BY <1>2, <1>4, <1>9, <3>2, <3>3
    <2>3. CASE /\ x \notin S /\ owner[x] = NoOne /\ T = S \cup {x}
               /\ \A i \in S : created'[i] = created[i]
      <3>1. walk'.there = there /\ S \ T = {} /\ T \ S = {x}
        BY <1>3, <1>6, <2>3
      <3>2. x \notin seen
        BY <2>3
      <3>3. N <= M /\ B <= A + 1
        BY <1>2, <1>6, <2>3, <3>1, <3>2, WhenOneComes
      <3>4. walk'.gone = walk.gone + 0 /\ walk'.come = walk.come + 1
        BY <1>3, <1>7, <3>1
      <3> HIDE DEF M, A, N, B
      <3>5. QED
        BY <1>2, <1>4, <1>9, <3>3, <3>4
    <2>4. QED
      BY <1>5, <2>1, <2>2, <2>3
  <1>11. QED
    BY <1>1, <1>8, <1>10 DEF Explained

\* What is seen twice so far is explained.
LEMMA TwiceSoFar ==
  ASSUME TypeInv, ~walk.over, walk.there \subseteq Here,
         Explained(walk, walk.shown, walk.offset, walk.twice, Here, created)
  PROVE  WalkComplete
  <1>1. IsFiniteSet(Here) /\ walk.twice \in Nat /\ walk.come \in Nat
    BY HereFacts
  <1>2. Cardinality(Again(walk.shown, walk.offset, Here, created)) \in Nat
    BY <1>1, ExplainedType
  <1>3. QED
    BY <1>1, <1>2 DEF Explained, WalkComplete

\* Without a change of the table or of the walk, and without a page that was read.
LEMMA WalkStands ==
  ASSUME WalkInv, UNCHANGED <<tableVars, walk>>,
         \A d \in Client : req'[d] = req[d] \/ req'[d].at # "count"
  PROVE  WalkInv'
  <1>1. Here' = Here /\ created' = created /\ owner' = owner /\ walk' = walk
    BY DEF Here, tableVars
  <1>2. ASSUME NEW d \in Client, req'[d].at = "count"
        PROVE  OnItsWay(d)'
    BY <1>1, <1>2 DEF WalkInv, OnItsWay
  <1>3. QED
    BY <1>1, <1>2 DEF WalkInv, WalkComplete

\* A walk begins.
LEMMA WalkBegins ==
  ASSUME TypeInv, TypeInv', NEW f \in Filter, walk' = NewWalk(f), UNCHANGED tableVars,
         \A d \in Client : req'[d].at # "count"
  PROVE  WalkInv'
  <1>1. /\ walk'.filter = f /\ ~walk'.over /\ walk'.there = Selected(f, rows, owner, status)
        /\ walk'.shown = {} /\ walk'.offset = 0 /\ walk'.gone = 0 /\ walk'.come = 0 /\ walk'.twice = 0
    BY NewWalkType
  <1>2. Here' = walk'.there
    BY <1>1 DEF Here, tableVars
  <1>3. \A j \in Here' : Position(j, Here', created') \in Nat
    <2>1. IsFiniteSet(Here')
      BY <1>1, <1>2, HereType
    <2>2. QED
      BY <2>1, PositionType
  <1>4. Missed(walk'.there, {}, 0, Here', created') = {} /\ Again({}, 0, Here', created') = {}
    BY <1>2, <1>3 DEF Missed, Again
  <1>5. Explained(walk', walk'.shown, walk'.offset, walk'.twice, Here', created')
    BY <1>1, <1>4, FS_EmptySet DEF Explained
  <1>6. WalkComplete'
    BY <1>1 DEF WalkComplete
  <1>7. QED
    BY <1>1, <1>2, <1>5, <1>6 DEF WalkInv

\* The table changes under the walk, and perhaps under a page on its way.
LEMMA WalkChanges ==
  ASSUME TypeInv, Handlers, WalkInv, TypeInv', WalkNotices,
         NEW x \in Job, Comes(x) \/ Ends(x) \/ Goes(x),
         \A d \in Client : req'[d] = req[d] \/ req'[d].at # "count"
  PROVE  WalkInv'
  <1>1. /\ walk'.over = walk.over /\ walk'.shown = walk.shown
        /\ walk'.offset = walk.offset /\ walk'.twice = walk.twice
    BY NoticedType
  <1>2. \A j \in walk.shown : owner[j] # NoOne /\ owner'[j] # NoOne
    <2>1. walk.shown \in SUBSET Job
      BY HereFacts
    <2>2. QED
      BY <2>1, TableType DEF WalkInv
  <1>3. ASSUME walk.over
        PROVE  WalkInv'
    <2>1. walk' = walk
      BY <1>3, NoticedIs
    <2>2. \A d \in Client : req'[d].at # "count"
      BY <1>3 DEF Handlers, Lists
    <2>3. QED
      BY <1>2, <1>3, <2>1, <2>2 DEF WalkInv, WalkComplete
  <1>4. ASSUME ~walk.over
        PROVE  WalkInv'
    <2>1. walk.there \subseteq Here /\ walk.offset \in Nat /\ walk.twice \in Nat
      BY <1>4, HereFacts DEF WalkInv
    <2>2. walk'.there \subseteq Here' /\ Explained(walk', walk'.shown, walk'.offset, walk'.twice, Here', created')
      BY <1>1, <1>2, <1>4, <2>1, NoticedExplains DEF WalkInv
    <2>3. ASSUME NEW d \in Client, req'[d].at = "count"
          PROVE  OnItsWay(d)'
      <3> DEFINE page == req[d].items
                 seen == walk.shown \cup page
                 end == walk.offset + Cardinality(page)
                 twice == walk.twice + Cardinality(page \cap walk.shown)
      <3>1. req'[d] = req[d] /\ page \in Items
        BY <2>3 DEF TypeInv, TypeOK, Request
      <3>2. \A j \in page : owner[j] # NoOne
        BY <2>3, <3>1 DEF Handlers, Lists
      <3>3. page \in SUBSET Job /\ IsFiniteSet(page) /\ Cardinality(page) \in Nat
        BY <3>1, ItemsType
      <3>4. Cardinality(page \cap walk.shown) \in Nat
        BY <3>3, FS_Intersection, FS_CardinalityType
      <3>5. end \in Nat /\ twice \in Nat
        BY <2>1, <3>3, <3>4
      <3>6. Explained(walk, seen, end, twice, Here, created)
        BY <2>3, <3>1 DEF WalkInv, OnItsWay
      <3>7. \A j \in seen : owner[j] # NoOne
        BY <1>2, <3>2
      <3> HIDE DEF seen, end, twice
      <3>8. Explained(walk', seen, end, twice, Here', created')
        BY <1>4, <2>1, <3>5, <3>6, <3>7, NoticedExplains
      <3>9. QED
        BY <1>1, <3>1, <3>8 DEF OnItsWay, seen, end, twice
    <2>4. WalkComplete'
      <3>1. WalkInv => walk.twice <= walk.come
        BY DEF WalkInv, WalkComplete
      <3>2. (TypeInv /\ ~walk.over /\ walk.there \subseteq Here
              /\ Explained(walk, walk.shown, walk.offset, walk.twice, Here, created)
              => WalkComplete)'
        BY TwiceSoFar, PTL
      <3>3. QED
        BY <1>1, <1>4, <2>2, <3>2
    <2>5. QED
      BY <1>1, <1>2, <2>2, <2>3, <2>4 DEF WalkInv
  <1>5. QED
    BY <1>3, <1>4

\* A page is read: what it skips was missed before, and what it shows again the
\* walk had still before it.
LEMMA PageIsExplained ==
  ASSUME TypeInv, Handlers, WalkInv, NEW c \in Client, ReadItems(c)
  PROVE  WalkInv'
  <1> DEFINE page == PageItems(walk.filter, walk.offset)
             r == [req[c] EXCEPT !.at = "count", !.items = page]
             end == walk.offset + Cardinality(page)
             twice == walk.twice + Cardinality(page \cap walk.shown)
  <1>1. r \in Request /\ Moves(c, r) /\ r.at = "count" /\ r.items = page /\ req[c].at = "items" /\ Quiet
    BY ReadItemsType
  <1>2. req[c].call = "list"
    BY <1>1 DEF Handlers, Lists
  <1>3. ~walk.over
    BY <1>1, <1>2 DEF Handlers, Lists
  <1>4. /\ page \in SUBSET Here
        /\ \A j \in Here : j \in page <=> Position(j, Here, created)
                                            \in walk.offset .. walk.offset + Limit - 1
    BY DEF PageItems, Here
  <1>5. /\ Here' = Here /\ created' = created /\ owner' = owner /\ walk' = walk
    BY <1>1 DEF Here, Quiet, tableVars
  <1> HIDE DEF page, r
  <1>6. /\ walk.there \in SUBSET Here
        /\ Explained(walk, walk.shown, walk.offset, walk.twice, Here, created)
    BY <1>3 DEF WalkInv
  <1>7. /\ IsFiniteSet(Here) /\ \A i \in Here : created[i] \in Int
        /\ \A i, j \in Here : created[i] = created[j] => i = j
        /\ walk.offset \in Nat /\ walk.twice \in Nat /\ walk.gone \in Nat /\ walk.come \in Nat
        /\ Limit \in Nat
    BY HereFacts, ListingAssumption
  <1>8. /\ IsFiniteSet(page)
        /\ Cardinality(Missed(walk.there, walk.shown \cup page, end, Here, created))
             <= Cardinality(Missed(walk.there, walk.shown, walk.offset, Here, created))
        /\ Cardinality(page \cap walk.shown) + Cardinality(Again(walk.shown \cup page, end, Here, created))
             <= Cardinality(Again(walk.shown, walk.offset, Here, created))
    BY <1>4, <1>6, <1>7, PageReads
  <1>9. /\ Cardinality(Missed(walk.there, walk.shown \cup page, end, Here, created)) \in Nat
        /\ Cardinality(Missed(walk.there, walk.shown, walk.offset, Here, created)) \in Nat
        /\ Cardinality(Again(walk.shown \cup page, end, Here, created)) \in Nat
        /\ Cardinality(Again(walk.shown, walk.offset, Here, created)) \in Nat
        /\ Cardinality(page \cap walk.shown) \in Nat
    BY <1>6, <1>7, <1>8, ExplainedType, FS_Intersection, FS_CardinalityType
  <1>10. Explained(walk, walk.shown \cup page, end, twice, Here, created)
    <2>1. Cardinality(Missed(walk.there, walk.shown, walk.offset, Here, created)) <= walk.gone
          /\ walk.twice + Cardinality(Again(walk.shown, walk.offset, Here, created)) <= walk.come
      BY <1>6 DEF Explained
    <2>2. QED
      BY <1>7, <1>8, <1>9, <2>1 DEF Explained
  <1>11. req'[c] = r /\ \A d \in Client \ {c} : req'[d] = req[d]
    BY <1>1, MovesType
  <1>12. ASSUME NEW d \in Client, req'[d].at = "count"
         PROVE  OnItsWay(d)'
    <2>1. CASE d = c
      BY <1>1, <1>5, <1>10, <1>11, <2>1 DEF OnItsWay
    <2>2. CASE d # c
      BY <1>5, <1>11, <1>12, <2>2 DEF WalkInv, OnItsWay
    <2>3. QED
      BY <2>1, <2>2
  <1>13. QED
    BY <1>5, <1>12 DEF WalkInv, WalkComplete

\* The page is given: the walk becomes what it would be, and if there is no more
\* behind the page, all that it has not seen lies behind it.
LEMMA PageIsGiven ==
  ASSUME TypeInv, Handlers, WalkInv, TypeInv', NEW c \in Client, ReadCount(c)
  PROVE  WalkInv'
  <1> DEFINE page == req[c].items
             seen == walk.shown \cup page
             end == walk.offset + Cardinality(page)
             twice == walk.twice + Cardinality(page \cap walk.shown)
  <1>1. /\ page \in Items /\ Moves(c, Idle) /\ req[c].at = "count"
        /\ UNCHANGED <<tableVars, role>>
        /\ walk'.there = walk.there /\ walk'.filter = walk.filter
        /\ walk'.gone = walk.gone /\ walk'.come = walk.come
        /\ walk'.offset = end /\ walk'.shown = seen /\ walk'.twice = twice
        /\ walk'.over = ~(end < Cardinality(Here))
    BY ReadCountType
  <1>2. Explained(walk, seen, end, twice, Here, created)
    BY <1>1 DEF WalkInv, OnItsWay
  <1>3. c = Walker /\ ~walk.over /\ \A j \in page : owner[j] # NoOne
    BY <1>1 DEF Handlers, Lists
  <1>4. Here' = Here /\ created' = created /\ owner' = owner
    BY <1>1 DEF Here, tableVars
  <1>5. \A d \in Client : req'[d].at # "count"
    <2>1. req'[c] = Idle /\ \A d \in Client \ {c} : req'[d] = req[d]
      BY <1>1, IdleType, MovesType
    <2>2. ASSUME NEW d \in Client \ {c}
          PROVE  req[d].at # "count"
      BY <1>3 DEF Handlers, Lists
    <2>3. QED
      BY <2>1, <2>2, IdleType
  <1>6. walk.there \subseteq Here /\ \A j \in walk.shown : owner[j] # NoOne
    BY <1>3 DEF WalkInv
  <1>7. IsFiniteSet(Here) /\ Cardinality(Here) \in Nat /\ walk'.offset \in Nat /\ walk'.twice \in Nat
        /\ walk.come \in Nat /\ walk.gone \in Nat /\ \A j \in Here : created[j] \in Int
    BY HereFacts DEF TypeInv, TypeOK, TableOK, Walk
  <1> HIDE DEF page, seen, end, twice
  <1>8. Explained(walk', seen, end, twice, Here', created')
    BY <1>1, <1>2, <1>4 DEF Explained
  <1>9. twice <= walk.come
    <2>1. Cardinality(Again(seen, end, Here, created)) \in Nat
      BY <1>6, <1>7, ExplainedType
    <2>2. QED
      BY <1>1, <1>2, <1>7, <2>1 DEF Explained
  <1>10. walk'.over => Cardinality(walk.there \ seen) <= walk.gone
    <2>1. SUFFICES ASSUME walk'.over
                   PROVE  Cardinality(walk.there \ seen) <= walk.gone
      OBVIOUS
    <2>2. end >= Cardinality(Here)
      <3>1. ~(end < Cardinality(Here))
        BY <1>1, <2>1, Zenon
      <3>2. QED
        BY <1>1, <1>7, <3>1
    <2>3. ASSUME NEW j \in Here
          PROVE  Position(j, Here, created) < end
      <3>1. Position(j, Here, created) < Cardinality(Here) /\ Position(j, Here, created) \in Nat
        BY <1>7, PositionBelow, PositionType
      <3>2. end \in Nat
        BY <1>1, <1>7
      <3>3. QED
        BY <1>7, <2>2, <3>1, <3>2
    <2>4. Missed(walk.there, seen, end, Here, created) = walk.there \ seen
      BY <1>6, <2>3 DEF Missed
    <2>5. QED
      BY <1>2, <2>4 DEF Explained
  <1>11. WalkComplete'
    BY <1>1, <1>9, <1>10 DEF WalkComplete
  <1>12. (\A j \in walk.shown : owner[j] # NoOne)'
    BY <1>1, <1>3, <1>4, <1>6 DEF page, seen
  <1>13. walk'.there \subseteq Here'
    BY <1>1, <1>4, <1>6
  <1>14. QED
    BY <1>1, <1>5, <1>8, <1>11, <1>12, <1>13 DEF WalkInv

LEMMA WalkStep ==
  ASSUME TypeInv, Handlers, WalkInv, [Next]_vars
  PROVE  WalkInv'
  <1>1. TypeInv'
    BY TypeStep
  <1>2. CASE UNCHANGED vars
    BY <1>2, WalkStands DEF vars
  <1>3. ASSUME NEW c \in Client, NEW r \in Request, Quiet, Moves(c, r), r.at # "count"
        PROVE  WalkInv'
    <2>1. \A d \in Client : req'[d] = req[d] \/ req'[d].at # "count"
      BY <1>3, MovesType
    <2>2. QED
      BY <1>3, <2>1, WalkStands DEF Quiet
  <1>4. ASSUME NEW c \in Client, NEW call \in CallsOf[c], Arrive(c, call)
        PROVE  WalkInv'
    <2> DEFINE r == [req[c] EXCEPT !.at = "authenticate", !.call = call]
    <2>1. r \in Request /\ Moves(c, r) /\ r.at = "authenticate" /\ UNCHANGED <<tableVars, role>>
      BY <1>4, ArriveType
    <2> HIDE DEF r
    <2>2. req'[c].at # "count" /\ \A d \in Client \ {c} : req'[d] = req[d]
      BY <2>1, MovesType
    <2>3. CASE walk' = walk
      BY <2>1, <2>2, <2>3, WalkStands
    <2>4. ASSUME walk.over, NEW f \in Filter, walk' = NewWalk(f)
          PROVE  WalkInv'
      <3>1. \A d \in Client : req[d].at # "count"
        BY <2>4 DEF Handlers, Lists
      <3>2. \A d \in Client : req'[d].at # "count"
        BY <2>2, <3>1
      <3>3. QED
        BY <1>1, <2>1, <2>4, <3>2, WalkBegins
    <2>5. QED
      BY <1>4, <2>3, <2>4, ArriveType
  <1>5. ASSUME NEW x \in Job, Comes(x) \/ Ends(x) \/ Goes(x), WalkNotices,
               req' = req \/ \E c \in Client : Moves(c, Idle)
        PROVE  WalkInv'
    <2>1. \A d \in Client : req'[d] = req[d] \/ req'[d].at # "count"
      BY <1>5, IdleType, MovesType
    <2>2. QED
      BY <1>1, <1>5, <2>1, WalkChanges
  <1>6. ASSUME NEW c \in Client, Quiet,
               Moves(c, [req[c] EXCEPT !.at = NextStep(req[c].call)])
        PROVE  WalkInv'
    BY <1>3, <1>6, ToActType
  <1>7. ASSUME NEW c \in Client, NEW j \in Job, Quiet, Moves(c, [req[c] EXCEPT !.at = "act", !.job = j])
        PROVE  WalkInv'
    BY <1>3, <1>7, ToActType
  <1>8. CASE Next
    <2>1. ASSUME NEW c \in Client, Quiet, Moves(c, Idle)
          PROVE  WalkInv'
      BY <1>3, <2>1, IdleType
    <2>2. ASSUME NEW c \in Client, NEW x \in Job, Comes(x) \/ Ends(x) \/ Goes(x), WalkNotices, Moves(c, Idle)
          PROVE  WalkInv'
      BY <1>5, <2>2
    <2>3. ASSUME NEW x \in Job, Ends(x), WalkNotices, UNCHANGED <<role, req>>
          PROVE  WalkInv'
      BY <1>5, <2>3
    <2>4. ASSUME NEW c \in Client, ReadItems(c) \/ ReadCount(c)
          PROVE  WalkInv'
      BY <1>1, <2>4, PageIsExplained, PageIsGiven
    <2>5. QED
      BY <1>4, <1>6, <1>7, <1>8, <2>1, <2>2, <2>3, <2>4, StepKinds
  <1>9. QED
    BY <1>2, <1>8

\* A client that pages through a list of any length misses no more of the jobs
\* that are there all the time than left the list meanwhile, and sees no more
\* twice than came, however the table changes between its requests and between
\* the two statements of each: has_more compares the end of the page with a
\* total that is newer than its items, and what it then leaves out has left.
THEOREM WalksAreComplete == Spec => []WalkComplete
  <1>1. Init => WalkInv
    <2>1. SUFFICES ASSUME Init
                   PROVE  WalkInv
      OBVIOUS
    <2>2. walk = NoWalk /\ \A c \in Client : req[c] = Idle
      BY <2>1 DEF Init, ListInit
    <2>3. walk.over /\ walk.there = {} /\ walk.shown = {} /\ walk.gone = 0 /\ walk.come = 0 /\ walk.twice = 0
      BY <2>2 DEF NoWalk
    <2>4. {} \ {} = {} /\ Cardinality({}) = 0
      BY FS_EmptySet
    <2>5. WalkComplete
      BY <2>3, <2>4 DEF WalkComplete
    <2>6. QED
      BY <2>2, <2>3, <2>5, IdleType DEF WalkInv
  <1>2. WalkInv => WalkComplete
    BY DEF WalkInv
  <1>3. QED
    BY <1>1, <1>2, WalkStep, HandlersAlways, PTL DEF Spec
=============================================================================

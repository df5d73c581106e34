------------------------- MODULE Matchmaker_proofs --------------------------
(* Proofs about the search of Queue, by itself and in the Matchmaker.      *)
EXTENDS Matchmaker, Search, FiniteSetTheorems, WellFoundedInduction, TLAPS

-----------------------------------------------------------------------------
(* The search.                                                             *)

\* A nonempty set of positions has a first one.
LEMMA FirstPosition ==
  ASSUME NEW n \in Nat, NEW I \in SUBSET (1..n), I # {}
  PROVE  \E k \in I : \A l \in I : k <= l
<1>1. I \subseteq Nat
  OBVIOUS
<1>2. \E x \in I : \A y \in I : ~ (<<y, x>> \in OpToRel(<, Nat))
  BY <1>1, WFMin, NatLessThanWellFounded
<1>3. ASSUME NEW x \in Nat, NEW y \in Nat, y < x
      PROVE  <<y, x>> \in OpToRel(<, Nat)
  <2>1. <<y, x>> \in {ss \in Nat \X Nat : ss[1] < ss[2]}
    BY <1>3
  <2> QED BY <2>1, Zenon DEF OpToRel
<1>4. \E x \in I : \A y \in I : ~(y < x)
  BY <1>1, <1>2, <1>3, Zenon
<1> QED BY <1>1, <1>4

\* Induction over the positions of a queue: what holds of 0, and of k + 1
\* whenever of k, holds of all of them.
LEMMA PositionInduction ==
  ASSUME NEW n \in Nat, NEW T, 0 \in T, \A k \in 0..(n - 1) : k \in T => k + 1 \in T
  PROVE  \A k \in 0..n : k \in T
<1> DEFINE I == (0..n) \ T
<1> SUFFICES ASSUME I # {} PROVE FALSE
  OBVIOUS
<1>1. I \in SUBSET (1..n)
  OBVIOUS
<1>2. PICK k \in I : \A l \in I : k <= l
  <2> HIDE DEF I
  <2> QED BY <1>1, FirstPosition
<1>3. k - 1 \in 0..(n - 1) /\ k - 1 \notin I
  BY <1>1, <1>2
<1>4. k - 1 \in T
  BY <1>3
<1> QED BY <1>2, <1>3, <1>4

\* A function may be defined by recursion over the positions.
LEMMA Recursion ==
  ASSUME NEW n \in Nat, NEW z \in Nat, NEW step \in [1..n -> [Nat -> Nat]]
  PROVE  \E f \in [0..n -> Nat] : /\ f[0] = z
                                  /\ \A j \in 1..n : f[j] = step[j][f[j - 1]]
<1> DEFINE T == {k \in 0..n : \E f \in [0..k -> Nat] :
                                /\ f[0] = z
                                /\ \A j \in 1..k : f[j] = step[j][f[j - 1]]}
<1>1. 0 \in T
  <2> DEFINE f == [j \in 0..0 |-> z]
  <2>1. f \in [0..0 -> Nat] /\ f[0] = z /\ \A j \in 1..0 : f[j] = step[j][f[j - 1]]
    OBVIOUS
  <2> HIDE DEF f
  <2>2. \E h \in [0..0 -> Nat] : h[0] = z /\ \A j \in 1..0 : h[j] = step[j][h[j - 1]]
    BY <2>1
  <2>3. 0 \in 0..n
    OBVIOUS
  <2> QED BY <2>2, <2>3, Zenon
<1>2. \A k \in 0..(n - 1) : k \in T => k + 1 \in T
  <2> SUFFICES ASSUME NEW k \in 0..(n - 1), k \in T PROVE k + 1 \in T
    OBVIOUS
  <2>1. PICK f \in [0..k -> Nat] : f[0] = z /\ \A j \in 1..k : f[j] = step[j][f[j - 1]]
    OBVIOUS
  <2> HIDE DEF T
  <2> DEFINE next == step[k + 1][f[k]]
             g    == [j \in 0..(k + 1) |-> IF j = k + 1 THEN next ELSE f[j]]
  <2>2. next \in Nat
    <3>1. k + 1 \in 1..n /\ k \in 0..k
      OBVIOUS
    <3>2. f[k] \in Nat /\ step[k + 1] \in [Nat -> Nat]
      BY <3>1
    <3> QED BY <3>2
  <2> HIDE DEF next
  <2>3. g \in [0..(k + 1) -> Nat] /\ g[0] = z
    <3>1. \A j \in 0..(k + 1) : j # k + 1 => j \in 0..k
      OBVIOUS
    <3>2. \A j \in 0..(k + 1) : (IF j = k + 1 THEN next ELSE f[j]) \in Nat
      BY <2>2, <3>1
    <3>3. 0 \in 0..(k + 1) /\ 0 # k + 1
      OBVIOUS
    <3> QED BY <2>1, <3>2, <3>3
  <2>4. \A j \in 0..k : g[j] = f[j]
    OBVIOUS
  <2>5. g[k + 1] = next
    OBVIOUS
  <2> HIDE DEF g
  <2>6. ASSUME NEW j \in 1..(k + 1) PROVE g[j] = step[j][g[j - 1]]
    <3>1. CASE j = k + 1
      <4>1. j - 1 = k /\ g[k] = f[k]
        BY <2>4, <3>1
      <4> QED BY <2>5, <3>1, <4>1 DEF next
    <3>2. CASE j \in 1..k
      <4>1. j \in 0..k /\ j - 1 \in 0..k
        BY <3>2
      <4>2. g[j] = f[j] /\ g[j - 1] = f[j - 1]
        BY <2>4, <4>1
      <4> QED BY <2>1, <3>2, <4>2
    <3> QED BY <3>1, <3>2
  <2>7. k + 1 \in 0..n
    OBVIOUS
  <2>8. \E h \in [0..(k + 1) -> Nat] :
           h[0] = z /\ \A j \in 1..(k + 1) : h[j] = step[j][h[j - 1]]
    BY <2>3, <2>6
  <2> QED BY <2>7, <2>8 DEF T
<1>3. n \in T
  <2> HIDE DEF T
  <2>1. \A k \in 0..n : k \in T
    BY <1>1, <1>2, PositionInduction
  <2> QED BY <2>1
<1> QED BY <1>3

\* currentCount starts with the base, and grows by the entries taken.
LEMMA CountProperties ==
  ASSUME NEW s, Len(s) \in Nat, NEW i \in 1..Len(s), NEW age,
         \A j \in 1..Len(s) : Size(s[j]) \in Nat
  PROVE  LET f == Count(s, i, age)
         IN  /\ f \in [0..Len(s) -> Nat]
             /\ f[0] = Size(s[i])
             /\ \A j \in 1..Len(s) : f[j] = IF Takes(s, i, j, f[j - 1], age)
                                            THEN f[j - 1] + Size(s[j]) ELSE f[j - 1]
<1> DEFINE n    == Len(s)
           Add(j, c) == IF Takes(s, i, j, c, age) THEN c + Size(s[j]) ELSE c
           step == [j \in 1..n |-> [c \in Nat |-> Add(j, c)]]
           f    == Count(s, i, age)
<1>1. \A j \in 1..n, c \in Nat : Add(j, c) \in Nat
  OBVIOUS
<1>2. f = CHOOSE h : h = [j \in 0..n |-> IF j = 0 THEN Size(s[i]) ELSE Add(j, h[j - 1])]
  BY DEF Count
<1>3. Size(s[i]) \in Nat
  OBVIOUS
<1> HIDE DEF Add, f, n
<1>4. step \in [1..n -> [Nat -> Nat]]
  BY <1>1
<1>5. PICK g \in [0..n -> Nat] : /\ g[0] = Size(s[i])
                                 /\ \A j \in 1..n : g[j] = step[j][g[j - 1]]
  <2> HIDE DEF step
  <2>1. n \in Nat
    BY DEF n
  <2> QED BY <1>3, <1>4, <2>1, Recursion
<1>6. g = [j \in 0..n |-> IF j = 0 THEN Size(s[i]) ELSE Add(j, g[j - 1])]
  <2>1. ASSUME NEW j \in 0..n, j # 0 PROVE g[j] = Add(j, g[j - 1])
    <3>1. j \in 1..n /\ j - 1 \in 0..n
      BY <2>1 DEF n
    <3>2. step[j][g[j - 1]] = Add(j, g[j - 1])
      BY <3>1
    <3> QED BY <1>5, <3>1, <3>2
  <2> QED BY <1>5, <2>1
<1>7. f = [j \in 0..n |-> IF j = 0 THEN Size(s[i]) ELSE Add(j, f[j - 1])]
  BY <1>2, <1>6, Zenon
<1>8. n \in Nat
  BY DEF n
<1>9. f[0] = Size(s[i]) /\ \A j \in 1..n : f[j] = Add(j, f[j - 1])
  <2>1. 0 \in 0..n /\ \A j \in 1..n : j \in 0..n /\ j # 0
    BY <1>8
  <2> DEFINE Rec(h, j) == IF j = 0 THEN Size(s[i]) ELSE Add(j, h[j - 1])
  <2>2. f = [j \in 0..n |-> Rec(f, j)]
    BY <1>7
  <2>3. \A j \in 0..n : f[j] = Rec(f, j)
    <3> HIDE DEF Rec
    <3> QED BY <2>2, Zenon
  <2> QED BY <2>1, <2>3
<1>10. \A j \in 0..n : f[j] \in Nat
  <2> DEFINE T == {j \in 0..n : f[j] \in Nat}
  <2>1. 0 \in T
    BY <1>3, <1>8, <1>9
  <2>2. ASSUME NEW k \in 0..(n - 1), k \in T PROVE k + 1 \in T
    <3>1. k + 1 \in 1..n /\ k + 1 \in 0..n /\ (k + 1) - 1 = k
      BY <1>8
    <3>2. f[k + 1] = Add(k + 1, f[k])
      BY <1>9, <3>1
    <3> QED BY <1>1, <2>2, <3>1, <3>2
  <2>3. \A k \in 0..n : k \in T
    <3> HIDE DEF T
    <3> QED BY <1>8, <2>1, <2>2, PositionInduction
  <2> QED BY <2>3
<1>11. f \in [0..n -> Nat]
  <2>1. DOMAIN f = 0..n /\ f = [j \in DOMAIN f |-> f[j]]
    BY <1>7, Zenon
  <2> QED BY <1>10, <2>1
<1> QED BY <1>9, <1>11 DEF Add, f, n

\* What getMatch searches: teams, each of somebody, nobody in two of them,
\* those that waited longer first.
IsQueue(s) ==
  /\ Len(s) \in Nat /\ DOMAIN s = 1..Len(s)
  /\ \A j \in 1..Len(s) :
       /\ IsFiniteSet(s[j].members) /\ s[j].members # {}
       /\ s[j].averageRating \in Int /\ s[j].targetMatchSize \in Int /\ s[j].waited \in Nat
  /\ \A j, k \in 1..Len(s) : j # k => s[j].members \cap s[k].members = {}
  /\ \A j, k \in 1..Len(s) : j < k => s[j].waited >= s[k].waited

\* The types of what the search reads of an entry.
LEMMA QueueTypes ==
  ASSUME NEW s, IsQueue(s)
  PROVE  /\ Len(s) \in Nat
         /\ \A j \in 1..Len(s) :
              /\ Size(s[j]) \in Nat \ {0} /\ Goal(s[j]) \in Int
              /\ s[j].averageRating \in Int /\ s[j].targetMatchSize \in Int
              /\ s[j].waited \in Nat
<1>1. Len(s) \in Nat
  BY DEF IsQueue
<1>2. ASSUME NEW j \in 1..Len(s)
      PROVE  /\ Size(s[j]) \in Nat \ {0} /\ Goal(s[j]) \in Int
             /\ s[j].averageRating \in Int /\ s[j].targetMatchSize \in Int
             /\ s[j].waited \in Nat
  <2>1. /\ IsFiniteSet(s[j].members) /\ s[j].members # {}
        /\ s[j].averageRating \in Int /\ s[j].targetMatchSize \in Int /\ s[j].waited \in Nat
    BY DEF IsQueue
  <2>2. Size(s[j]) \in Nat /\ Size(s[j]) # 0
    BY <2>1, FS_CardinalityType, FS_EmptySet DEF Size
  <2>3. Goal(s[j]) \in Int
    BY <2>1, ConfigAssumption DEF Goal
  <2> QED BY <2>1, <2>2, <2>3
<1> QED BY <1>1, <1>2

\* The count of the match around s[i] while the queue is looked through.
LEMMA CountTypes ==
  ASSUME NEW s, IsQueue(s), NEW i \in 1..Len(s), NEW age
  PROVE  LET f == Count(s, i, age)
         IN  /\ f[0] = Size(s[i])
             /\ \A j \in 0..Len(s) : f[j] \in Nat
             /\ \A j \in 1..Len(s) : f[j] = IF Takes(s, i, j, f[j - 1], age)
                                            THEN f[j - 1] + Size(s[j]) ELSE f[j - 1]
<1>1. Len(s) \in Nat /\ \A j \in 1..Len(s) : Size(s[j]) \in Nat
  BY QueueTypes
<1> DEFINE f == Count(s, i, age)
<1>2. /\ f \in [0..Len(s) -> Nat]
      /\ f[0] = Size(s[i])
      /\ \A j \in 1..Len(s) : f[j] = IF Takes(s, i, j, f[j - 1], age)
                                     THEN f[j - 1] + Size(s[j]) ELSE f[j - 1]
  BY <1>1, CountProperties
<1> HIDE DEF f
<1>3. \A j \in 0..Len(s) : f[j] \in Nat
  BY <1>2
<1> QED BY <1>2, <1>3 DEF f

\* No match counts more players than its base plays for.
LEMMA CountBound ==
  ASSUME NEW s, IsQueue(s), NEW i \in 1..Len(s), NEW age, ~Oversized(s[i])
  PROVE  \A k \in 0..Len(s) : Count(s, i, age)[k] <= Goal(s[i])
<1> DEFINE f == Count(s, i, age)
           T == {k \in 0..Len(s) : f[k] <= Goal(s[i])}
<1>1. /\ f[0] = Size(s[i])
      /\ \A j \in 0..Len(s) : f[j] \in Nat
      /\ \A j \in 1..Len(s) : f[j] = IF Takes(s, i, j, f[j - 1], age)
                                     THEN f[j - 1] + Size(s[j]) ELSE f[j - 1]
  BY CountTypes
<1>2. Len(s) \in Nat /\ Goal(s[i]) \in Int /\ Size(s[i]) \in Nat
  BY QueueTypes
<1> HIDE DEF f
<1>3. 0 \in T
  BY <1>1, <1>2 DEF Oversized
<1>4. ASSUME NEW k \in 0..(Len(s) - 1), k \in T PROVE k + 1 \in T
  <2>1. k + 1 \in 1..Len(s) /\ (k + 1) - 1 = k
    BY <1>2
  <2>2. f[k + 1] = IF Takes(s, i, k + 1, f[k], age) THEN f[k] + Size(s[k + 1]) ELSE f[k]
    BY <1>1, <2>1
  <2>3. f[k + 1] <= Goal(s[i])
    BY <1>4, <2>2 DEF Takes
  <2> QED BY <2>1, <2>3
<1>5. \A k \in 0..Len(s) : k \in T
  <2> HIDE DEF T
  <2> QED BY <1>2, <1>3, <1>4, PositionInduction
<1> QED BY <1>5 DEF f

\* The count never goes down along the queue.
LEMMA CountGrows ==
  ASSUME NEW s, IsQueue(s), NEW i \in 1..Len(s), NEW age, NEW j \in 0..Len(s)
  PROVE  \A k \in j..Len(s) : Count(s, i, age)[j] <= Count(s, i, age)[k]
<1> DEFINE f == Count(s, i, age)
           T == {k \in 0..Len(s) : j <= k => f[j] <= f[k]}
<1>1. /\ \A k \in 0..Len(s) : f[k] \in Nat
      /\ \A k \in 1..Len(s) : f[k] = IF Takes(s, i, k, f[k - 1], age)
                                     THEN f[k - 1] + Size(s[k]) ELSE f[k - 1]
  BY CountTypes
<1>2. Len(s) \in Nat /\ \A k \in 1..Len(s) : Size(s[k]) \in Nat
  BY QueueTypes
<1> HIDE DEF f
<1>3. 0 \in T
  BY <1>1, <1>2
<1>4. ASSUME NEW k \in 0..(Len(s) - 1), k \in T PROVE k + 1 \in T
  <2>1. k + 1 \in 1..Len(s) /\ (k + 1) - 1 = k /\ k \in 0..Len(s)
    BY <1>2
  <2>2. f[k + 1] = IF Takes(s, i, k + 1, f[k], age) THEN f[k] + Size(s[k + 1]) ELSE f[k]
    BY <1>1, <2>1
  <2>3. f[k] <= f[k + 1] /\ f[k] \in Nat /\ f[k + 1] \in Nat /\ f[j] \in Nat
    BY <1>1, <1>2, <2>1, <2>2
  <2>4. j <= k + 1 => f[j] <= f[k + 1]
    <3>1. CASE j <= k
      BY <1>4, <2>3, <3>1
    <3>2. CASE j = k + 1
      BY <2>3, <3>2
    <3> QED BY <1>2, <2>1, <3>1, <3>2
  <2> QED BY <2>1, <2>4
<1>5. \A k \in 0..Len(s) : k \in T
  <2> HIDE DEF T
  <2> QED BY <1>2, <1>3, <1>4, PositionInduction
<1> QED BY <1>2, <1>5 DEF f

\* The count is the number of players in the teams taken so far, so a group
\* that completes its base is a match: as many players as the base plays for.
LEMMA GroupMatched ==
  ASSUME NEW s, IsQueue(s), NEW i \in 1..Len(s), NEW age, Completes(s, i, age)
  PROVE  WellMatched(Group(s, i, age), age)
<1> DEFINE n     == Len(s)
           f     == Count(s, i, age)
           taken == {j \in 1..n : j = i \/ Takes(s, i, j, f[j - 1], age)}
           upTo(k)  == {j \in taken : j = i \/ j <= k}
           M(k)     == UNION {s[j].members : j \in upTo(k)}
           T        == {k \in 0..n : IsFiniteSet(M(k)) /\ Cardinality(M(k)) = f[k]}
<1>1. /\ f[0] = Size(s[i])
      /\ \A j \in 0..n : f[j] \in Nat
      /\ \A j \in 1..n : f[j] = IF Takes(s, i, j, f[j - 1], age)
                                THEN f[j - 1] + Size(s[j]) ELSE f[j - 1]
  BY CountTypes
<1>2. /\ n \in Nat
      /\ \A j \in 1..n : IsFiniteSet(s[j].members)
      /\ \A j, k \in 1..n : j # k => s[j].members \cap s[k].members = {}
  BY DEF IsQueue
<1>3. Group(s, i, age) = {s[j] : j \in taken}
  BY DEF Group
<1>4. i \in taken /\ taken \subseteq 1..n
  OBVIOUS
<1>5. \A j \in taken \ {i} : Takes(s, i, j, f[j - 1], age)
  OBVIOUS
<1>6. \A j \in 1..n : Takes(s, i, j, f[j - 1], age) => j \in taken /\ j # i
  BY DEF Takes
<1> HIDE DEF n, f, taken
<1>7. 0 \in T
  <2>1. upTo(0) = {i}
    <3>1. \A j \in taken : ~(j <= 0)
      BY <1>2, <1>4
    <3> QED BY <1>4, <3>1
  <2>2. M(0) = s[i].members
    <3> HIDE DEF upTo
    <3> QED BY <2>1
  <2>3. 0 \in 0..n
    BY <1>2
  <2> HIDE DEF M
  <2> QED BY <1>1, <1>2, <1>4, <2>2, <2>3 DEF Size
<1>8. ASSUME NEW k \in 0..(n - 1), k \in T PROVE k + 1 \in T
  <2>1. k + 1 \in 1..n /\ k + 1 \in 0..n /\ k \in 0..n /\ (k + 1) - 1 = k
    BY <1>2
  <2>2. f[k + 1] = IF Takes(s, i, k + 1, f[k], age) THEN f[k] + Size(s[k + 1]) ELSE f[k]
    BY <1>1, <2>1
  <2>3. IsFiniteSet(M(k)) /\ Cardinality(M(k)) = f[k]
    BY <1>8
  <2>4. CASE Takes(s, i, k + 1, f[k], age)
    <3>1. k + 1 \in taken /\ k + 1 # i
      BY <1>6, <2>1, <2>4
    <3>2. upTo(k + 1) = upTo(k) \cup {k + 1} /\ k + 1 \notin upTo(k)
      <4>1. \A j \in taken : (j <= k + 1) <=> (j <= k \/ j = k + 1)
        <5>1. k \in Int /\ taken \subseteq Int
          BY <1>2, <1>4
        <5> HIDE DEF T
        <5> QED BY <5>1
      <4>2. ~(k + 1 <= k)
        BY <1>2
      <4> QED BY <3>1, <4>1, <4>2
    <3>3. upTo(k) \subseteq 1..n
      BY <1>4
    <3> HIDE DEF upTo
    <3>4. M(k + 1) = M(k) \cup s[k + 1].members
      BY <3>2
    <3>5. M(k) \cap s[k + 1].members = {}
      BY <1>2, <2>1, <3>2, <3>3
    <3> HIDE DEF M
    <3>6. IsFiniteSet(s[k + 1].members) /\ Cardinality(s[k + 1].members) = Size(s[k + 1])
      BY <1>2, <2>1 DEF Size
    <3>7. /\ IsFiniteSet(M(k) \cup s[k + 1].members)
          /\ Cardinality(M(k) \cup s[k + 1].members) = f[k] + Size(s[k + 1]) - Cardinality({})
      BY <2>3, <3>5, <3>6, FS_Union
    <3>8. IsFiniteSet(M(k + 1)) /\ Cardinality(M(k + 1)) = f[k + 1]
      <4>1. Cardinality({}) = 0
        BY FS_EmptySet
      <4>2. f[k] \in Nat /\ Size(s[k + 1]) \in Nat
        BY <1>1, <2>1, <3>6, FS_CardinalityType
      <4>3. f[k + 1] = f[k] + Size(s[k + 1])
        BY <2>2, <2>4
      <4>4. f[k] + Size(s[k + 1]) - Cardinality({}) = f[k] + Size(s[k + 1])
        BY <4>1, <4>2
      <4> QED BY <3>4, <3>7, <4>3, <4>4
    <3> QED BY <2>1, <3>8
  <2>5. CASE ~Takes(s, i, k + 1, f[k], age)
    <3>1. upTo(k + 1) = upTo(k)
      <4>1. k + 1 \notin taken \ {i}
        BY <1>5, <2>1, <2>5
      <4>2. \A j \in taken : (j <= k + 1) <=> (j <= k \/ j = k + 1)
        <5>1. k \in Int /\ taken \subseteq Int
          BY <1>2, <1>4
        <5> HIDE DEF T
        <5> QED BY <5>1
      <4> QED BY <4>1, <4>2
    <3>2. M(k + 1) = M(k)
      <4> HIDE DEF upTo
      <4> QED BY <3>1
    <3> HIDE DEF M
    <3> QED BY <2>1, <2>2, <2>3, <2>5, <3>2
  <2> QED BY <2>4, <2>5
<1>9. \A k \in 0..n : k \in T
  <2> HIDE DEF T
  <2> QED BY <1>2, <1>7, <1>8, PositionInduction
<1>10. Total(Group(s, i, age)) = Goal(s[i])
  <2>1. upTo(n) = taken
    <3>1. \A j \in taken : j <= n
      BY <1>2, <1>4
    <3> QED BY <3>1
  <2>2. UNION {e.members : e \in Group(s, i, age)} = M(n)
    <3> HIDE DEF upTo
    <3> QED BY <1>3, <2>1
  <2>3. n \in 0..n
    BY <1>2
  <2>4. Cardinality(M(n)) = f[n]
    BY <1>9, <2>3
  <2>5. f[n] = Goal(s[i])
    BY DEF Completes, f, n
  <2> HIDE DEF M
  <2> QED BY <2>2, <2>4, <2>5 DEF Total
<1>11. Disjoint(Group(s, i, age))
  BY <1>2, <1>3, <1>4 DEF Disjoint
<1>12. Tolerated(Group(s, i, age), s[i], age) /\ s[i] \in Group(s, i, age)
  BY <1>3, <1>4, <1>5 DEF Tolerated, Takes
<1> QED BY <1>10, <1>11, <1>12 DEF WellMatched

\* A count that reaches the goal anywhere completes the match.
LEMMA CompletesWhen ==
  ASSUME NEW s, IsQueue(s), NEW i \in 1..Len(s), NEW age, ~Oversized(s[i]),
         NEW k \in 0..Len(s), Count(s, i, age)[k] >= Goal(s[i])
  PROVE  Ends(s, i, age)
<1>1. Len(s) \in Nat /\ Goal(s[i]) \in Int
  BY QueueTypes
<1>2. Len(s) \in k..Len(s) /\ Len(s) \in 0..Len(s)
  BY <1>1
<1>3. Count(s, i, age)[Len(s)] <= Goal(s[i])
  BY <1>2, CountBound
<1>4. Count(s, i, age)[k] <= Count(s, i, age)[Len(s)]
  BY <1>2, CountGrows
<1>5. Count(s, i, age)[k] \in Nat /\ Count(s, i, age)[Len(s)] \in Nat
  BY <1>2, CountTypes
<1>6. Count(s, i, age)[Len(s)] = Goal(s[i])
  BY <1>1, <1>3, <1>4, <1>5
<1> QED BY <1>6 DEF Completes, Ends

\* getMatch returns the first entry at which the search ends, with its match
\* unless it timed out; it returns nothing when there is no such entry.
LEMMA SearchFinds ==
  ASSUME NEW s, IsQueue(s), NEW age
  PROVE  \/ /\ getMatch(s, age) = [outcome |-> "none", out |-> {}]
            /\ \A i \in 1..Len(s) : ~Ends(s, i, age)
         \/ \E i \in 1..Len(s) :
              /\ Ends(s, i, age)
              /\ \A l \in 1..Len(s) : Ends(s, l, age) => i <= l
              /\ \/ /\ TimedOut(s[i], age)
                    /\ getMatch(s, age) = [outcome |-> "timeout", out |-> {s[i]}]
                 \/ /\ ~TimedOut(s[i], age) /\ Completes(s, i, age)
                    /\ getMatch(s, age) = [outcome |-> "match", out |-> Group(s, i, age)]
<1> DEFINE ends == {i \in DOMAIN s : Ends(s, i, age)}
           i    == CHOOSE k \in ends : \A l \in ends : k <= l
<1>1. Len(s) \in Nat /\ ends \in SUBSET (1..Len(s))
  BY DEF IsQueue
<1>2. ends = {l \in 1..Len(s) : Ends(s, l, age)}
  BY DEF IsQueue
<1>3. getMatch(s, age) =
        IF ends = {} THEN [outcome |-> "none", out |-> {}]
        ELSE IF TimedOut(s[i], age) THEN [outcome |-> "timeout", out |-> {s[i]}]
             ELSE [outcome |-> "match", out |-> Group(s, i, age)]
  BY DEF getMatch
<1> HIDE DEF ends
<1>4. CASE ends = {}
  BY <1>2, <1>3, <1>4
<1>5. CASE ends # {}
  <2>1. i \in ends /\ \A l \in ends : i <= l
    <3>1. \E k \in ends : \A l \in ends : k <= l
      BY <1>1, <1>5, FirstPosition
    <3> QED BY <3>1
  <2> HIDE DEF i
  <2>2. i \in 1..Len(s) /\ Ends(s, i, age)
    BY <1>2, <2>1
  <2>3. \A l \in 1..Len(s) : Ends(s, l, age) => i <= l
    BY <1>2, <2>1
  <2>4. TimedOut(s[i], age) \/ Completes(s, i, age)
    BY <2>2 DEF Ends
  <2> QED BY <1>3, <1>5, <2>2, <2>3, <2>4
<1> QED BY <1>4, <1>5

\* Two solo players who both play for two and tolerate each other end a search.
LEMMA DuelEnds ==
  ASSUME NEW s, IsQueue(s), NEW age, NEW i \in 1..Len(s), NEW j \in 1..Len(s), i < j,
         Size(s[i]) = 1, Size(s[j]) = 1, Goal(s[i]) = 2, Goal(s[j]) = 2,
         Distance(s[i].averageRating, s[j].averageRating) <= tolerance(s[i], age)
  PROVE  Ends(s, i, age)
<1> DEFINE f == Count(s, i, age)
<1>1. /\ f[0] = Size(s[i])
      /\ \A k \in 0..Len(s) : f[k] \in Nat
      /\ \A k \in 1..Len(s) : f[k] = IF Takes(s, i, k, f[k - 1], age)
                                     THEN f[k - 1] + Size(s[k]) ELSE f[k - 1]
  BY CountTypes
<1>2. ~Oversized(s[i])
  BY DEF Oversized
<1>3. 0 \in 0..Len(s) /\ j - 1 \in 0..Len(s)
  BY QueueTypes
<1>4. f[0] <= f[j - 1] /\ f[j - 1] <= Goal(s[i])
  BY <1>2, <1>3, CountGrows, CountBound
<1> HIDE DEF f
<1>5. f[j - 1] \in {1, 2}
  BY <1>1, <1>3, <1>4
<1>6. Accepts(s[i], s[j], age)
  BY DEF Accepts, Goal
<1>7. f[j] = 2
  <2>1. CASE f[j - 1] = 1
    <3>1. Takes(s, i, j, f[j - 1], age)
      BY <1>6, <2>1 DEF Takes
    <3> QED BY <1>1, <2>1, <3>1
  <2>2. CASE f[j - 1] = 2
    <3>1. ~Takes(s, i, j, f[j - 1], age)
      BY <2>2 DEF Takes
    <3> QED BY <1>1, <2>2, <3>1
  <2> QED BY <1>5, <2>1, <2>2
<1>8. j \in 0..Len(s)
  BY QueueTypes
<1> QED BY <1>2, <1>7, <1>8, CompletesWhen DEF f

\* C++ division is monotone.
LEMMA QuotientGrows ==
  ASSUME NEW p \in Nat \ {0}, NEW a \in Int, NEW b \in Int, a <= b
  PROVE  Quotient(a, p) \in Int /\ Quotient(a, p) <= Quotient(b, p)
<1>1. \A x, y \in Int : x <= y => x \div p <= y \div p
  <2> SUFFICES ASSUME NEW x \in Int, NEW y \in Int, x <= y PROVE x \div p <= y \div p
    OBVIOUS
  <2>1. x \div p \in Int /\ y \div p \in Int
    OBVIOUS
  <2> DEFINE q == x \div p
             r == y \div p
  <2>2. p * q <= x /\ y < p * r + p
    OBVIOUS
  <2> HIDE DEF q, r
  <2>3. CASE r + 1 <= q
    <3>1. p * (r + 1) <= p * q
      BY <2>1, <2>3 DEF q, r
    <3>2. p * (r + 1) = p * r + p
      BY <2>1 DEF q, r
    <3> QED BY <2>1, <2>2, <3>1, <3>2 DEF q, r
  <2> QED BY <2>1, <2>3 DEF q, r
<1>2. \A x \in Int : x >= 0 => x \div p \in Int /\ x \div p >= 0
  OBVIOUS
<1> QED BY <1>1, <1>2 DEF Quotient

\* Who waited longer tolerates at least as much.
LEMMA ToleranceGrows ==
  ASSUME ExpansionRate >= 0, NEW s, IsQueue(s), NEW age \in Int,
         NEW i \in 1..Len(s), NEW j \in 1..Len(s), i < j
  PROVE  tolerance(s[i], age) \in Int /\ tolerance(s[j], age) <= tolerance(s[i], age)
<1> DEFINE a == Quotient(waitSeconds(s[j], age), ExpansionPeriod)
           b == Quotient(waitSeconds(s[i], age), ExpansionPeriod)
<1>1. s[i].waited \in Nat /\ s[j].waited \in Nat /\ s[j].waited <= s[i].waited
  BY DEF IsQueue
<1>2. a \in Int /\ b \in Int /\ a <= b
  <2>1. /\ waitSeconds(s[i], age) \in Int /\ waitSeconds(s[j], age) \in Int
        /\ waitSeconds(s[j], age) <= waitSeconds(s[i], age)
    BY <1>1 DEF waitSeconds
  <2>2. a \in Int /\ a <= b
    BY <2>1, QuotientGrows, ConfigAssumption
  <2>3. b \in Int
    <3>1. waitSeconds(s[i], age) <= waitSeconds(s[i], age)
      BY <2>1
    <3> QED BY <2>1, <3>1, QuotientGrows, ConfigAssumption
  <2> QED BY <2>2, <2>3
<1> HIDE DEF a, b
<1>3. a * ExpansionRate <= b * ExpansionRate /\ a * ExpansionRate \in Int
      /\ b * ExpansionRate \in Int
  BY <1>2, ConfigAssumption
<1> QED BY <1>3, ConfigAssumption DEF tolerance, a, b

\* Of two alike entries the earlier one accepts what the later one accepts.
LEMMA AcceptsGrows ==
  ASSUME ExpansionRate >= 0, NEW s, IsQueue(s), NEW age \in Int,
         NEW i \in 1..Len(s), NEW j \in 1..Len(s), i < j, Alike(s[i], s[j]),
         NEW k \in 1..Len(s), Accepts(s[j], s[k], age)
  PROVE  Accepts(s[i], s[k], age) /\ Accepts(s[i], s[j], age) /\ Accepts(s[j], s[i], age)
<1>1. tolerance(s[i], age) \in Int /\ tolerance(s[j], age) <= tolerance(s[i], age)
  BY ToleranceGrows
<1>2. tolerance(s[j], age) \in Int
  <2>1. waitSeconds(s[j], age) \in Int
    BY QueueTypes DEF waitSeconds
  <2>2. Quotient(waitSeconds(s[j], age), ExpansionPeriod) \in Int
    <3>1. waitSeconds(s[j], age) <= waitSeconds(s[j], age)
      BY <2>1
    <3> QED BY <2>1, <3>1, QuotientGrows, ConfigAssumption
  <2> QED BY <2>2, ConfigAssumption DEF tolerance
<1>3. Goal(s[i]) = Goal(s[j]) /\ s[i].averageRating = s[j].averageRating
      /\ s[i].targetMatchSize = s[j].targetMatchSize
  BY DEF Alike, Goal
<1>4. /\ s[j].averageRating \in Int /\ s[k].averageRating \in Int
      /\ s[k].targetMatchSize \in {AnySize, Goal(s[j])}
      /\ Distance(s[j].averageRating, s[k].averageRating) <= tolerance(s[j], age)
  BY QueueTypes DEF Accepts
<1>5. Distance(s[j].averageRating, s[k].averageRating) \in Nat
  BY <1>4 DEF Distance
<1>6. Accepts(s[i], s[k], age)
  BY <1>1, <1>2, <1>3, <1>4, <1>5 DEF Accepts
<1>7. Distance(s[j].averageRating, s[j].averageRating) = 0
  BY <1>4 DEF Distance
<1>8. 0 <= tolerance(s[j], age) /\ 0 <= tolerance(s[i], age)
  BY <1>1, <1>2, <1>4, <1>5
<1>9. s[j].targetMatchSize \in {AnySize, Goal(s[j])}
  BY DEF Goal
<1> QED BY <1>3, <1>6, <1>7, <1>8, <1>9 DEF Accepts

\* A match that counts more than its base has taken somebody.
LEMMA SomebodyTaken ==
  ASSUME NEW s, IsQueue(s), NEW i \in 1..Len(s), NEW age, ~Oversized(s[i]),
         Size(s[i]) # Goal(s[i]), Completes(s, i, age)
  PROVE  \E k \in 1..Len(s) : Accepts(s[i], s[k], age)
<1> SUFFICES ASSUME \A k \in 1..Len(s) : ~Accepts(s[i], s[k], age) PROVE FALSE
  OBVIOUS
<1> DEFINE f == Count(s, i, age)
           T == {k \in 0..Len(s) : f[k] = Size(s[i])}
<1>1. /\ f[0] = Size(s[i])
      /\ \A j \in 1..Len(s) : f[j] = IF Takes(s, i, j, f[j - 1], age)
                                     THEN f[j - 1] + Size(s[j]) ELSE f[j - 1]
  BY CountTypes
<1>2. \A j \in 1..Len(s) : f[j] = f[j - 1]
  BY <1>1 DEF Takes
<1>3. Len(s) \in Nat
  BY QueueTypes
<1>4. f[Len(s)] = Goal(s[i])
  BY DEF Completes
<1> HIDE DEF f
<1>5. 0 \in T
  BY <1>1, <1>3
<1>6. ASSUME NEW k \in 0..(Len(s) - 1), k \in T PROVE k + 1 \in T
  <2>1. k + 1 \in 1..Len(s) /\ (k + 1) - 1 = k
    BY <1>3
  <2> QED BY <1>2, <1>6, <2>1
<1>7. \A k \in 0..Len(s) : k \in T
  <2> HIDE DEF T
  <2> QED BY <1>3, <1>5, <1>6, PositionInduction
<1> QED BY <1>3, <1>4, <1>7

\* While all teams are of one or two, the earlier of two alike solo players
\* counts what the later one counts, or has at most one place left.
LEMMA SoloKeepsUp ==
  ASSUME ExpansionRate >= 0, NEW s, IsQueue(s), NEW age \in Int,
         \A k \in 1..Len(s) : Size(s[k]) <= 2,
         NEW i \in 1..Len(s), NEW j \in 1..Len(s), i < j, Alike(s[i], s[j]),
         ~Oversized(s[i])
  PROVE  \A k \in 0..(i - 1) : \/ Count(s, j, age)[k] <= Count(s, i, age)[k]
                               \/ Goal(s[i]) - 1 <= Count(s, i, age)[k]
<1> DEFINE f == Count(s, i, age)
           g == Count(s, j, age)
           T == {k \in 0..(i - 1) : g[k] <= f[k] \/ Goal(s[i]) - 1 <= f[k]}
<1>1. /\ f[0] = Size(s[i])
      /\ \A k \in 0..Len(s) : f[k] \in Nat
      /\ \A k \in 1..Len(s) : f[k] = IF Takes(s, i, k, f[k - 1], age)
                                     THEN f[k - 1] + Size(s[k]) ELSE f[k - 1]
  BY CountTypes
<1>2. /\ g[0] = Size(s[j])
      /\ \A k \in 0..Len(s) : g[k] \in Nat
      /\ \A k \in 1..Len(s) : g[k] = IF Takes(s, j, k, g[k - 1], age)
                                     THEN g[k - 1] + Size(s[k]) ELSE g[k - 1]
  BY CountTypes
<1>3. /\ Len(s) \in Nat /\ i - 1 \in Nat /\ Goal(s[i]) \in Int
      /\ \A k \in 1..Len(s) : Size(s[k]) \in Nat
  <2>1. /\ Len(s) \in Nat /\ Goal(s[i]) \in Int
        /\ \A k \in 1..Len(s) : Size(s[k]) \in Nat
    BY QueueTypes
  <2> QED BY <2>1
<1> HIDE DEF f, g
<1>4. 0 \in T
  BY <1>1, <1>2, <1>3 DEF Alike
<1>5. ASSUME NEW k \in 0..((i - 1) - 1), k \in T PROVE k + 1 \in T
  <2>1. /\ k + 1 \in 1..Len(s) /\ (k + 1) - 1 = k /\ k \in 0..Len(s) /\ k + 1 \in 0..Len(s)
        /\ k + 1 # i /\ k + 1 \in 0..(i - 1)
    BY <1>3
  <2>2. f[k + 1] = IF Takes(s, i, k + 1, f[k], age) THEN f[k] + Size(s[k + 1]) ELSE f[k]
    BY <1>1, <2>1
  <2>3. g[k + 1] = IF Takes(s, j, k + 1, g[k], age) THEN g[k] + Size(s[k + 1]) ELSE g[k]
    BY <1>2, <2>1
  <2>4. Size(s[k + 1]) \in Nat /\ Size(s[k + 1]) <= 2 /\ f[k] \in Nat /\ g[k] \in Nat
    BY <1>1, <1>2, <1>3, <2>1
  <2>5. CASE Goal(s[i]) - 1 <= f[k]
    BY <1>3, <2>1, <2>2, <2>4, <2>5
  <2>6. CASE ~(Goal(s[i]) - 1 <= f[k])
    <3>1. g[k] <= f[k]
      BY <1>5, <2>6
    <3>2. CASE Takes(s, j, k + 1, g[k], age)
      <4>1. Accepts(s[i], s[k + 1], age)
        BY <2>1, <3>2, AcceptsGrows DEF Takes
      <4>2. f[k] + Size(s[k + 1]) <= Goal(s[i])
        BY <1>3, <2>4, <2>6
      <4>3. f[k + 1] = f[k] + Size(s[k + 1])
        BY <2>1, <2>2, <4>1, <4>2 DEF Takes
      <4> QED BY <2>1, <2>3, <2>4, <3>1, <3>2, <4>3
    <3>3. CASE ~Takes(s, j, k + 1, g[k], age)
      BY <2>1, <2>2, <2>3, <2>4, <3>1, <3>3
    <3> QED BY <3>2, <3>3
  <2> QED BY <2>5, <2>6
<1>6. \A k \in 0..(i - 1) : k \in T
  <2> HIDE DEF T
  <2> QED BY <1>3, <1>4, <1>5, PositionInduction
<1> QED BY <1>6 DEF f, g

\* In a match of three, the earlier of two alike pairs counts what the later
\* one counts: neither takes the other, and both look for one solo player.
LEMMA PairKeepsUp ==
  ASSUME ExpansionRate >= 0, NEW s, IsQueue(s), NEW age \in Int,
         NEW i \in 1..Len(s), NEW j \in 1..Len(s), i < j, Alike(s[i], s[j]),
         Size(s[i]) = 2, Goal(s[i]) = 3
  PROVE  \A k \in 0..Len(s) : Count(s, j, age)[k] <= Count(s, i, age)[k]
<1> DEFINE f == Count(s, i, age)
           g == Count(s, j, age)
           T == {k \in 0..Len(s) : g[k] <= f[k]}
<1>1. /\ f[0] = 2
      /\ \A k \in 0..Len(s) : f[k] \in Nat
      /\ \A k \in 1..Len(s) : f[k] = IF Takes(s, i, k, f[k - 1], age)
                                     THEN f[k - 1] + Size(s[k]) ELSE f[k - 1]
  BY CountTypes
<1>2. Size(s[j]) = 2 /\ Goal(s[j]) = 3
  BY DEF Alike, Goal
<1>3. /\ g[0] = 2
      /\ \A k \in 0..Len(s) : g[k] \in Nat
      /\ \A k \in 1..Len(s) : g[k] = IF Takes(s, j, k, g[k - 1], age)
                                     THEN g[k - 1] + Size(s[k]) ELSE g[k - 1]
  BY <1>2, CountTypes
<1>4. /\ Len(s) \in Nat
      /\ \A k \in 1..Len(s) : Size(s[k]) \in Nat \ {0}
  BY QueueTypes
<1>5. /\ \A k \in 0..Len(s) : f[0] <= f[k] /\ g[0] <= g[k]
      /\ \A k \in 0..Len(s) : g[k] <= 3
  <2>1. ~Oversized(s[j]) /\ 0 \in 0..Len(s)
    BY <1>2, <1>4 DEF Oversized
  <2> QED BY <1>2, <2>1, CountGrows, CountBound
<1> HIDE DEF f, g
<1>6. 0 \in T
  BY <1>1, <1>3, <1>4
<1>7. ASSUME NEW k \in 0..(Len(s) - 1), k \in T PROVE k + 1 \in T
  <2>1. k + 1 \in 1..Len(s) /\ (k + 1) - 1 = k /\ k \in 0..Len(s) /\ k + 1 \in 0..Len(s)
    BY <1>4
  <2>2. f[k + 1] = IF Takes(s, i, k + 1, f[k], age) THEN f[k] + Size(s[k + 1]) ELSE f[k]
    BY <1>1, <2>1
  <2>3. g[k + 1] = IF Takes(s, j, k + 1, g[k], age) THEN g[k] + Size(s[k + 1]) ELSE g[k]
    BY <1>3, <2>1
  <2>4. /\ Size(s[k + 1]) \in Nat \ {0} /\ f[k] \in Nat /\ g[k] \in Nat /\ f[k + 1] \in Nat
        /\ g[k + 1] \in Nat
        /\ 2 <= g[k] /\ 2 <= f[k] /\ g[k] <= 3 /\ g[k] <= f[k] /\ g[k + 1] <= 3
    BY <1>1, <1>3, <1>4, <1>5, <1>7, <2>1
  <2>5. CASE f[k] >= 3
    <3>1. g[k + 1] <= f[k + 1]
      BY <2>2, <2>4, <2>5
    <3> QED BY <2>1, <3>1
  <2>6. CASE f[k] = 2
    <3>1. g[k] = 2
      BY <2>4, <2>6
    <3>2. CASE Takes(s, j, k + 1, g[k], age)
      <4>1. Size(s[k + 1]) = 1
        BY <1>2, <2>4, <3>1, <3>2 DEF Takes
      <4>2. k + 1 # i
        BY <4>1
      <4>3. Takes(s, i, k + 1, f[k], age)
        BY <2>1, <2>6, <3>2, <4>1, <4>2, AcceptsGrows DEF Takes
      <4>4. f[k + 1] = 2 + Size(s[k + 1]) /\ g[k + 1] = 2 + Size(s[k + 1])
        BY <2>2, <2>3, <2>6, <3>1, <3>2, <4>3
      <4> QED BY <2>1, <4>1, <4>4
    <3>3. CASE ~Takes(s, j, k + 1, g[k], age)
      BY <2>1, <2>2, <2>3, <2>4, <3>3
    <3> QED BY <3>2, <3>3
  <2> QED BY <2>4, <2>5, <2>6
<1>8. \A k \in 0..Len(s) : k \in T
  <2> HIDE DEF T
  <2> QED BY <1>4, <1>6, <1>7, PositionInduction
<1> QED BY <1>8 DEF f, g

\* Of two alike entries the search never ends at the later one: solo players
\* while all teams are of one or two, pairs whose match has three players.
LEMMA EarlierEnds ==
  ASSUME ExpansionRate >= 0, NEW s, IsQueue(s), NEW age \in Int,
         \A k \in 1..Len(s) : Size(s[k]) <= 2,
         NEW i \in 1..Len(s), NEW j \in 1..Len(s), i < j, Alike(s[i], s[j]),
         Size(s[i]) = 1 \/ Goal(s[i]) <= 3,
         Ends(s, j, age)
  PROVE  \/ Ends(s, i, age)
         \/ ~TimedOut(s[j], age) /\ s[i] \in Group(s, j, age)
<1> SUFFICES ASSUME ~Ends(s, i, age) PROVE ~TimedOut(s[j], age) /\ s[i] \in Group(s, j, age)
  OBVIOUS
<1> DEFINE f == Count(s, i, age)
           g == Count(s, j, age)
<1>1. /\ Len(s) \in Nat /\ 0 \in 0..Len(s) /\ j \in 0..Len(s) /\ j - 1 \in 0..Len(s)
      /\ i - 1 \in 0..(i - 1) /\ i - 1 \in 0..Len(s) /\ j - 1 \in (i - 1)..Len(s)
      /\ Len(s) \in 0..Len(s)
      /\ Size(s[i]) \in Nat \ {0} /\ Goal(s[i]) \in Int
  BY QueueTypes
<1>2. /\ Goal(s[j]) = Goal(s[i]) /\ Size(s[j]) = Size(s[i])
      /\ ~Oversized(s[i]) /\ ~Oversized(s[j])
  BY DEF Alike, Goal, Ends, Oversized
<1>3. ~TimedOut(s[j], age)
  <2>1. s[i].waited \in Nat /\ s[j].waited \in Nat /\ s[j].waited <= s[i].waited
    BY DEF IsQueue
  <2>2. ~TimedOut(s[i], age)
    BY <1>2 DEF Ends
  <2>3. ASSUME NEW a \in Nat, NEW b \in Nat, b <= a, ~(a - age > QueueTimeout)
        PROVE  ~(b - age > QueueTimeout)
    <3> HIDE DEF f, g
    <3> QED BY ONLY <2>3, age \in Int, ConfigAssumption
  <2> QED BY ONLY <2>1, <2>2, <2>3 DEF TimedOut, waitSeconds
<1>4. Completes(s, j, age)
  BY <1>3 DEF Ends
<1>5. /\ f[0] = Size(s[i])
      /\ \A k \in 0..Len(s) : f[k] \in Nat
      /\ \A k \in 1..Len(s) : f[k] = IF Takes(s, i, k, f[k - 1], age)
                                     THEN f[k - 1] + Size(s[k]) ELSE f[k - 1]
      /\ \A k \in 0..Len(s) : g[k] \in Nat
  BY CountTypes
<1>6. \A k \in 0..Len(s) : f[k] < Goal(s[i])
  <2>1. \A k \in 0..Len(s) : ~(f[k] >= Goal(s[i]))
    BY <1>2, CompletesWhen
  <2> HIDE DEF f, g
  <2> QED BY <1>1, <1>5, <2>1
<1>7. PICK k \in 1..Len(s) : Accepts(s[j], s[k], age)
  <2>1. Size(s[j]) # Goal(s[j])
    BY <1>1, <1>2, <1>5, <1>6
  <2> QED BY <1>2, <1>4, <2>1, SomebodyTaken
<1>8. Accepts(s[i], s[j], age) /\ Accepts(s[j], s[i], age)
  BY <1>7, AcceptsGrows
<1>9. CASE Size(s[i]) = 1
  <2> SUFFICES ASSUME s[i] \notin Group(s, j, age) PROVE FALSE
    BY <1>3
  <2>1. ~Takes(s, j, i, g[i - 1], age)
    BY DEF Group
  <2>2. \A m \in 0..(i - 1) : g[m] <= f[m] \/ Goal(s[i]) - 1 <= f[m]
    BY <1>2, SoloKeepsUp
  <2>3. f[i - 1] <= f[j - 1]
    BY <1>1, CountGrows
  <2> HIDE DEF f, g
  <2>4. g[i - 1] + 1 > Goal(s[i])
    BY <1>1, <1>2, <1>5, <1>8, <1>9, <2>1 DEF Takes
  <2>5. /\ g[i - 1] \in Nat /\ f[i - 1] \in Nat /\ f[j - 1] \in Nat
        /\ f[j - 1] < Goal(s[i])
        /\ g[i - 1] <= f[i - 1] \/ Goal(s[i]) - 1 <= f[i - 1]
    <3>1. /\ g[i - 1] \in Nat /\ f[i - 1] \in Nat /\ f[j - 1] \in Nat
          /\ f[j - 1] < Goal(s[i])
      BY <1>1, <1>5, <1>6
    <3> QED BY <1>1, <2>2, <3>1
  <2>6. f[j - 1] = Goal(s[i]) - 1
    <3>1. Goal(s[i]) \in Int
      BY <1>1
    <3>2. Goal(s[i]) - 1 <= f[i - 1]
      BY <2>4, <2>5, <3>1
    <3> QED BY <2>3, <2>5, <3>1, <3>2
  <2>7. Takes(s, i, j, f[j - 1], age)
    BY <1>1, <1>2, <1>8, <1>9, <2>6 DEF Takes
  <2>8. f[j] = Goal(s[i])
    BY <1>1, <1>2, <1>5, <1>9, <2>6, <2>7
  <2> QED BY <1>1, <1>6, <2>8
<1>10. CASE Size(s[i]) # 1
  <2>1. Size(s[i]) = 2 /\ Goal(s[i]) = 3
    BY <1>1, <1>5, <1>6, <1>10
  <2>2. g[Len(s)] <= f[Len(s)]
    BY <1>1, <2>1, PairKeepsUp
  <2>3. g[Len(s)] = Goal(s[i])
    BY <1>2, <1>4 DEF Completes
  <2> HIDE DEF f, g
  <2> QED BY <1>1, <1>5, <1>6, <2>2, <2>3
<1> QED BY <1>3, <1>9, <1>10

\* First come, first served.
LEMMA EarlierTaken ==
  ASSUME ExpansionRate >= 0, NEW s, IsQueue(s), NEW age \in Int,
         \A k \in 1..Len(s) : Size(s[k]) <= 2,
         NEW i \in 1..Len(s), NEW j \in 1..Len(s), i < j, Alike(s[i], s[j]),
         Size(s[i]) = 1 \/ Goal(s[i]) <= 3,
         s[j] \in getMatch(s, age).out
  PROVE  s[i] \in getMatch(s, age).out
<1>1. PICK b \in 1..Len(s) :
        /\ Ends(s, b, age)
        /\ \A l \in 1..Len(s) : Ends(s, l, age) => b <= l
        /\ \/ /\ TimedOut(s[b], age)
              /\ getMatch(s, age) = [outcome |-> "timeout", out |-> {s[b]}]
           \/ /\ ~TimedOut(s[b], age) /\ Completes(s, b, age)
              /\ getMatch(s, age) = [outcome |-> "match", out |-> Group(s, b, age)]
  <2>1. getMatch(s, age).out # {}
    OBVIOUS
  <2> QED BY <2>1, SearchFinds
<1>2. \A k, l \in 1..Len(s) : s[k] = s[l] => k = l
  BY DEF IsQueue
<1>3. CASE b = j
  <2>1. ~Ends(s, i, age)
    BY <1>1, <1>3, QueueTypes
  <2>2. ~TimedOut(s[j], age) /\ s[i] \in Group(s, j, age)
    BY <1>1, <1>3, <2>1, EarlierEnds
  <2> QED BY <1>1, <1>3, <2>2
<1>4. CASE b # j
  <2> DEFINE g == Count(s, b, age)
  <2>1. s[j] # s[b]
    BY <1>2, <1>4
  <2>2. getMatch(s, age).out = Group(s, b, age) /\ s[j] \in Group(s, b, age)
    BY <1>1, <2>1
  <2>3. Group(s, b, age)
          = {s[k] : k \in {l \in 1..Len(s) : l = b \/ Takes(s, b, l, g[l - 1], age)}}
    BY DEF Group
  <2>4. g[i - 1] <= g[j - 1] /\ g[i - 1] \in Nat /\ g[j - 1] \in Nat
    <3>1. i - 1 \in 0..Len(s) /\ j - 1 \in 0..Len(s) /\ j - 1 \in (i - 1)..Len(s)
      BY QueueTypes
    <3> QED BY <3>1, CountGrows, CountTypes
  <2> HIDE DEF g
  <2>5. Takes(s, b, j, g[j - 1], age)
    <3>1. PICK l \in 1..Len(s) : s[l] = s[j] /\ (l = b \/ Takes(s, b, l, g[l - 1], age))
      BY <2>2, <2>3
    <3>2. l = j
      BY <1>2, <3>1
    <3> QED BY <1>4, <3>1, <3>2
  <2>6. Accepts(s[b], s[i], age)
    BY <2>5 DEF Takes, Accepts, Alike
  <2>7. g[i - 1] + Size(s[i]) <= Goal(s[b])
    <3>1. Size(s[i]) = Size(s[j]) /\ Size(s[i]) \in Nat /\ Goal(s[b]) \in Int
      BY QueueTypes DEF Alike
    <3>2. g[j - 1] + Size(s[j]) <= Goal(s[b])
      BY <2>5 DEF Takes
    <3> QED BY <2>4, <3>1, <3>2
  <2>8. i = b \/ Takes(s, b, i, g[i - 1], age)
    BY <2>6, <2>7 DEF Takes
  <2> QED BY <2>2, <2>3, <2>8
<1> QED BY <1>3, <1>4

\* What getMatch returns consists of entries of the queue: a match, or one
\* entry that timed out, or nothing.
LEMMA GetMatchSound ==
  ASSUME NEW s, IsQueue(s), NEW age
  PROVE  LET found == getMatch(s, age)
         IN  /\ found.outcome \in {"none", "match", "timeout"}
             /\ found.out \subseteq {s[k] : k \in 1..Len(s)}
             /\ found.outcome = "none" => found = [outcome |-> "none", out |-> {}]
             /\ found.outcome # "none" => found.out # {}
             /\ found.outcome = "match" => WellMatched(found.out, age)
             /\ found.outcome = "timeout" =>
                  \E k \in 1..Len(s) : found.out = {s[k]} /\ TimedOut(s[k], age)
<1>1. CASE getMatch(s, age) = [outcome |-> "none", out |-> {}]
  BY <1>1
<1>2. CASE \E i \in 1..Len(s) :
             \/ /\ TimedOut(s[i], age)
                /\ getMatch(s, age) = [outcome |-> "timeout", out |-> {s[i]}]
             \/ /\ Completes(s, i, age)
                /\ getMatch(s, age) = [outcome |-> "match", out |-> Group(s, i, age)]
  <2>1. PICK i \in 1..Len(s) :
             \/ /\ TimedOut(s[i], age)
                /\ getMatch(s, age) = [outcome |-> "timeout", out |-> {s[i]}]
             \/ /\ Completes(s, i, age)
                /\ getMatch(s, age) = [outcome |-> "match", out |-> Group(s, i, age)]
    BY <1>2
  <2>2. Group(s, i, age) \subseteq {s[k] : k \in 1..Len(s)} /\ s[i] \in Group(s, i, age)
    BY DEF Group
  <2>3. Completes(s, i, age) => WellMatched(Group(s, i, age), age)
    BY GroupMatched
  <2> QED BY <2>1, <2>2, <2>3
<1> QED BY <1>1, <1>2, SearchFinds

-----------------------------------------------------------------------------
(* The search by itself, on every sorted queue.                            *)

SearchEntry == [members : SUBSET Nat, averageRating : Int, waited : Nat,
                targetMatchSize : Int]

\* The entries of the queue share out the players 1 to some number.
SearchInv ==
  /\ queue \in Seq(SearchEntry)
  /\ IsQueue(queue)
  /\ \E k \in Nat : Placed = 1..k

\* The queue that is built is one getMatch could find.
LEMMA SearchInvariance == SearchSpec => []SearchInv
<1>1. SearchInit => SearchInv
  <2> SUFFICES ASSUME queue = << >> PROVE SearchInv
    BY DEF SearchInit
  <2>1. queue \in Seq(SearchEntry) /\ IsQueue(queue)
    BY DEF IsQueue
  <2>2. Placed = 1..0
    BY DEF Placed
  <2> QED BY <2>1, <2>2 DEF SearchInv
<1>2. SearchInv /\ [SearchNext]_queue => SearchInv'
  <2> SUFFICES ASSUME SearchInv, SearchNext PROVE SearchInv'
    <3> SUFFICES ASSUME SearchInv, queue' = queue PROVE SearchInv'
      OBVIOUS
    <3>1. Placed' = Placed
      BY DEF Placed
    <3>2. IsQueue(queue)'
      BY DEF SearchInv, IsQueue
    <3> QED BY <3>1, <3>2 DEF SearchInv
  <2>1. PICK n \in Sizes, rating \in TeamRatings, target \in Targets, waited \in Waits :
          LET next == Cardinality(Placed) + 1
          IN  /\ queue # << >> => waited <= queue[Len(queue)].waited
              /\ queue' = Append(queue, [members |-> next..(next + n - 1),
                                         averageRating |-> rating,
                                         waited |-> waited,
                                         targetMatchSize |-> target])
    BY DEF SearchNext
  <2>2. PICK k \in Nat : Placed = 1..k
    BY DEF SearchInv
  <2>3. Cardinality(Placed) = k
    BY <2>2, FS_Interval
  <2> DEFINE new == [members |-> (k + 1)..(k + n), averageRating |-> rating,
                     waited |-> waited, targetMatchSize |-> target]
  <2>4. n \in Nat \ {0} /\ rating \in Int /\ target \in Int /\ waited \in Nat
    BY SearchAssumption
  <2>5. queue' = Append(queue, new) /\ new \in SearchEntry
    <3>1. (k + 1) + n - 1 = k + n
      BY <2>4
    <3> QED BY <2>1, <2>3, <2>4, <3>1 DEF SearchEntry
  <2>6. /\ new.members = (k + 1)..(k + n) /\ new.averageRating = rating
        /\ new.waited = waited /\ new.targetMatchSize = target
    OBVIOUS
  <2> HIDE DEF new
  <2>7. queue \in Seq(SearchEntry) /\ IsQueue(queue)
    BY DEF SearchInv
  <2>8. /\ queue' \in Seq(SearchEntry) /\ Len(queue') = Len(queue) + 1
        /\ \A j \in 1..Len(queue) : queue'[j] = queue[j]
        /\ queue'[Len(queue) + 1] = new
    BY <2>5, <2>7
  <2> DEFINE m == Len(queue)
  <2>9. m \in Nat /\ DOMAIN queue = 1..m /\ DOMAIN queue' = 1..(m + 1)
    BY <2>7, <2>8
  <2>10. \A j \in 1..m : queue[j].members \subseteq 1..k
    BY <2>2, <2>9 DEF Placed
  <2>11. \A j \in 1..m : waited <= queue[j].waited
    <3> SUFFICES ASSUME NEW j \in 1..m PROVE waited <= queue[j].waited
      OBVIOUS
    <3>1. queue # << >> /\ m \in 1..m
      BY <2>7, <2>9
    <3>2. waited <= queue[m].waited
      BY <2>1, <3>1
    <3>3. queue[m].waited <= queue[j].waited /\ queue[j].waited \in Nat
          /\ queue[m].waited \in Nat
      BY <2>7, <2>9, <3>1 DEF IsQueue
    <3> QED BY <2>4, <3>2, <3>3
  <2>12. IsFiniteSet(new.members) /\ new.members # {} /\ new.members \cap (1..k) = {}
    <3>1. IsFiniteSet((k + 1)..(k + n))
      BY <2>4, FS_Interval
    <3>2. k + 1 \in (k + 1)..(k + n)
      BY <2>4
    <3> QED BY <2>6, <3>1, <3>2
  <2>13. IsQueue(queue')
    <3>1. \A j \in 1..(m + 1) : j \in 1..m \/ j = m + 1
      BY <2>9
    <3>2. \A j \in 1..(m + 1) :
            /\ IsFiniteSet(queue'[j].members) /\ queue'[j].members # {}
            /\ queue'[j].averageRating \in Int /\ queue'[j].targetMatchSize \in Int
            /\ queue'[j].waited \in Nat
      BY <2>4, <2>6, <2>7, <2>8, <2>12, <3>1 DEF IsQueue
    <3>3. \A i, j \in 1..(m + 1) : i # j => queue'[i].members \cap queue'[j].members = {}
      <4> SUFFICES ASSUME NEW i \in 1..(m + 1), NEW j \in 1..(m + 1), i # j
                   PROVE  queue'[i].members \cap queue'[j].members = {}
        OBVIOUS
      <4>1. CASE i \in 1..m /\ j \in 1..m
        BY <2>7, <2>8, <4>1 DEF IsQueue
      <4>2. CASE i \in 1..m /\ j = m + 1
        BY <2>8, <2>10, <2>12, <4>2
      <4>3. CASE i = m + 1 /\ j \in 1..m
        BY <2>8, <2>10, <2>12, <4>3
      <4> QED BY <3>1, <4>1, <4>2, <4>3
    <3>4. \A i, j \in 1..(m + 1) : i < j => queue'[i].waited >= queue'[j].waited
      <4> SUFFICES ASSUME NEW i \in 1..(m + 1), NEW j \in 1..(m + 1), i < j
                   PROVE  queue'[i].waited >= queue'[j].waited
        OBVIOUS
      <4>1. i \in 1..m
        BY <2>9
      <4>2. CASE j \in 1..m
        BY <2>7, <2>8, <4>1, <4>2 DEF IsQueue
      <4>3. CASE j = m + 1
        <5>1. queue'[i].waited = queue[i].waited /\ queue'[j].waited = waited
          BY <2>6, <2>8, <4>1, <4>3
        <5>2. queue[i].waited \in Nat
          BY <2>7, <4>1 DEF IsQueue
        <5> QED BY <2>4, <2>11, <4>1, <5>1, <5>2
      <4> QED BY <3>1, <4>2, <4>3
    <3>5. Len(queue') = m + 1 /\ m + 1 \in Nat
      BY <2>8, <2>9
    <3> HIDE DEF m
    <3> QED BY <2>9, <3>2, <3>3, <3>4, <3>5 DEF IsQueue
  <2>14. Placed' = 1..(k + n)
    <3>1. Placed' = UNION {queue'[j].members : j \in 1..(m + 1)}
      BY <2>9 DEF Placed
    <3>2. Placed = UNION {queue[j].members : j \in 1..m}
      BY <2>9 DEF Placed
    <3>3. 1..(m + 1) = (1..m) \cup {m + 1}
      BY <2>9
    <3>4. Placed' = Placed \cup new.members
      BY <2>8, <3>1, <3>2, <3>3
    <3>5. 1..(k + n) = (1..k) \cup ((k + 1)..(k + n))
      BY <2>4
    <3> QED BY <2>2, <2>6, <3>4, <3>5
  <2>15. k + n \in Nat
    BY <2>4
  <2> QED BY <2>8, <2>13, <2>14, <2>15 DEF SearchInv
<1> QED BY <1>1, <1>2, PTL DEF SearchSpec

\* Whatever the queue, the sizes, the ratings and the configuration, what the
\* search returns as a match is one, and what it returns as timed out is.
THEOREM SearchSoundHolds == SearchSpec => []SearchSound
<1>1. SearchInv => SearchSound
  <2> SUFFICES ASSUME SearchInv, NEW age \in Lags
               PROVE  LET found == Found(age)
                      IN  /\ found.out \subseteq Range(queue)
                          /\ found.outcome = "match" => WellMatched(found.out, age)
                          /\ found.outcome = "timeout" =>
                               \E e \in Range(queue) : found.out = {e} /\ TimedOut(e, age)
    BY DEF SearchSound
  <2>1. IsQueue(queue)
    BY DEF SearchInv
  <2>2. Range(queue) = {queue[k] : k \in 1..Len(queue)}
    BY <2>1 DEF Range, IsQueue
  <2> QED BY <2>1, <2>2, GetMatchSound DEF Found
<1> QED BY <1>1, SearchInvariance, PTL

\* Whatever the queue, the ratings, the targets and the configuration, as long
\* as tolerance does not shrink with waiting: first come, first served.
THEOREM FirstComeFirstServedHolds ==
  ASSUME ExpansionRate >= 0
  PROVE  SearchSpec => []FirstComeFirstServed
<1>1. SearchInv => FirstComeFirstServed
  <2> SUFFICES ASSUME SearchInv, \A k \in DOMAIN queue : Size(queue[k]) <= 2,
                      NEW age \in Lags, NEW i \in DOMAIN queue, NEW j \in DOMAIN queue,
                      i < j, Alike(queue[i], queue[j]), queue[j] \in Found(age).out,
                      Size(queue[i]) = 1 \/ Goal(queue[i]) <= 3
               PROVE  queue[i] \in Found(age).out
    BY DEF FirstComeFirstServed
  <2>1. IsQueue(queue) /\ DOMAIN queue = 1..Len(queue)
    BY DEF SearchInv, IsQueue
  <2>2. age \in Int
    BY SearchAssumption
  <2> QED BY <2>1, <2>2, EarlierTaken DEF Found
<1> QED BY <1>1, SearchInvariance, PTL

\* Whatever the queue and the configuration, a search that returns nothing has
\* missed no two solo players who both play for two and tolerate each other.
THEOREM NoDuelMissedHolds == SearchSpec => []NoDuelMissed
<1>1. SearchInv => NoDuelMissed
  <2> SUFFICES ASSUME SearchInv, NEW age \in Lags, Found(age).outcome = "none",
                      NEW i \in DOMAIN queue, NEW j \in DOMAIN queue, i < j,
                      Size(queue[i]) = 1, Size(queue[j]) = 1,
                      Goal(queue[i]) = 2, Goal(queue[j]) = 2
               PROVE  Distance(queue[i].averageRating, queue[j].averageRating)
                        > tolerance(queue[i], age)
    BY DEF NoDuelMissed
  <2>1. IsQueue(queue) /\ DOMAIN queue = 1..Len(queue)
    BY DEF SearchInv, IsQueue
  <2>2. ~Ends(queue, i, age)
    BY <2>1, SearchFinds DEF Found
  <2>3. ~(Distance(queue[i].averageRating, queue[j].averageRating)
            <= tolerance(queue[i], age))
    BY <2>1, <2>2, DuelEnds
  <2>4. Distance(queue[i].averageRating, queue[j].averageRating) \in Int
    <3>1. queue[i].averageRating \in Int /\ queue[j].averageRating \in Int
      BY <2>1, QueueTypes
    <3> QED BY <3>1 DEF Distance
  <2>5. tolerance(queue[i], age) \in Int
    <3>1. waitSeconds(queue[i], age) \in Int
      BY <2>1, QueueTypes, SearchAssumption DEF waitSeconds
    <3>2. Quotient(waitSeconds(queue[i], age), ExpansionPeriod) \in Int
      <4>1. waitSeconds(queue[i], age) <= waitSeconds(queue[i], age)
        BY <3>1
      <4> QED BY <3>1, <4>1, QuotientGrows, ConfigAssumption
    <3> QED BY <3>2, ConfigAssumption DEF tolerance
  <2> QED BY <2>3, <2>4, <2>5
<1> QED BY <1>1, SearchInvariance, PTL

-----------------------------------------------------------------------------
(* The queue of the server.                                                *)

\* The entries of a sound queue, sorted, are a queue for the search.
LEMMA SortedIsQueue ==
  ASSUME NEW S \in SUBSET Entry, IsFiniteSet(S), Disjoint(S), \A e \in S : e.members # {},
         NEW s \in Sorted(S)
  PROVE  IsQueue(s) /\ {s[k] : k \in 1..Len(s)} \subseteq S
<1> DEFINE n == Cardinality(S)
<1>1. /\ n \in Nat /\ s \in [1..n -> S]
      /\ IsInjective(s)
      /\ \A i, j \in 1..n : i < j => s[i].waited >= s[j].waited
  BY FS_CardinalityType DEF Sorted
<1> HIDE DEF n
<1>2. Len(s) = n /\ DOMAIN s = 1..n
  BY <1>1
<1>3. ASSUME NEW j \in 1..n
      PROVE  /\ IsFiniteSet(s[j].members) /\ s[j].members # {}
             /\ s[j].averageRating \in Int /\ s[j].targetMatchSize \in Int
             /\ s[j].waited \in Nat
  <2>1. s[j] \in S /\ s[j] \in Entry
    BY <1>1
  <2>2. s[j].members \in SUBSET Players
    BY <2>1 DEF Entry
  <2> QED BY <2>1, <2>2, MatchmakerAssumption, FS_Subset DEF Entry
<1>4. \A j, k \in 1..n : j # k => s[j].members \cap s[k].members = {}
  BY <1>1 DEF IsInjective, Disjoint
<1> QED BY <1>1, <1>2, <1>3, <1>4 DEF IsQueue

-----------------------------------------------------------------------------
(* The inductive invariant.  That every entry has a member makes a batch    *)
(* that is not empty one that has somebody to notify.                      *)

IInv ==
  /\ TypeOK
  /\ IsFiniteSet(entries)
  /\ QueueSound
  /\ PendingSound
  /\ MatchSound

\* The invariant holds of an empty queue.
LEMMA InitIInv == Init => IInv
<1> SUFFICES ASSUME Init PROVE IInv
  OBVIOUS
<1>1. TypeOK /\ QueueSound /\ PendingSound /\ MatchSound
  BY DEF Init, TypeOK, QueueSound, PendingSound, MatchSound, Nothing, MembersOf, Disjoint
<1>2. IsFiniteSet(entries)
  BY FS_EmptySet DEF Init
<1> QED BY <1>1, <1>2 DEF IInv

\* removePlayer leaves a sound queue, without the player.
LEMMA RemovedKeeps ==
  ASSUME IInv, NEW P
  PROVE  LET rest == Removed(entries, P)
         IN  /\ rest \subseteq entries
             /\ IsFiniteSet(rest)
             /\ Disjoint(rest)
             /\ MembersOf(rest) \cap P = {}
<1>1. Removed(entries, P) \subseteq entries
  BY DEF Removed
<1>2. IsFiniteSet(Removed(entries, P))
  BY <1>1, FS_Subset DEF IInv
<1>3. Disjoint(Removed(entries, P))
  BY <1>1 DEF IInv, QueueSound, Disjoint
<1>4. MembersOf(Removed(entries, P)) \cap P = {}
  BY DEF MembersOf, Removed
<1> QED BY <1>1, <1>2, <1>3, <1>4

\* Removing a player's entry and its session keeps the queue sound.
LEMMA DequeueIInv ==
  ASSUME IInv, NEW p \in Players, Dequeue(p), UNCHANGED threadVars,
         sessions' \in {sessions, sessions \ {p}}
  PROVE  IInv'
<1>1. /\ entries' = Removed(entries, {p})
      /\ waiting' = waiting \ {p} /\ missed' = missed \ {p}
      /\ UNCHANGED <<replying, pc, lag, batch, pending>>
  BY DEF Dequeue, threadVars
<1>2. entries' \subseteq entries /\ IsFiniteSet(entries') /\ Disjoint(entries')
  BY <1>1, RemovedKeeps
<1>3. TypeOK'
  BY <1>1, <1>2 DEF IInv, TypeOK
<1>4. QueueSound'
  <2>1. \A e \in entries' : e.members # {}
    BY <1>2 DEF IInv, QueueSound
  <2> QED BY <1>2, <2>1 DEF QueueSound, Disjoint
<1>5. PendingSound' /\ MatchSound'
  BY <1>1 DEF IInv, PendingSound, MatchSound, MembersOf
<1> QED BY <1>2, <1>3, <1>4, <1>5 DEF IInv

\* A new entry replaces those of all its players.
LEMMA JoinQueueIInv ==
  ASSUME IInv, NEW p \in Players, NEW members \in SUBSET Players,
         NEW opponents \in Int, NEW rating \in Int, NEW delay \in Nat,
         JoinQueue(p, members, opponents, rating, delay)
  PROVE  IInv'
<1> DEFINE new  == [members |-> members, averageRating |-> rating,
                    targetMatchSize |-> Target(members, opponents), waited |-> delay]
           rest == Removed(entries, members)
<1>1. /\ p \in members
      /\ entries' = rest \cup {new} /\ replying' = p
      /\ waiting' = waiting \cup {p} /\ missed' = missed \ {p}
      /\ UNCHANGED <<sessions, pc, lag, batch, pending>>
  BY DEF JoinQueue, Enqueue, Added, threadVars
<1>2. new \in Entry
  <2>1. Cardinality(members) \in Nat
    BY MatchmakerAssumption, FS_Subset, FS_CardinalityType
  <2>2. Target(members, opponents) \in Int
    BY <2>1, ConfigAssumption DEF Target
  <2> QED BY <2>2 DEF Entry
<1>3. /\ rest \subseteq entries /\ IsFiniteSet(rest) /\ Disjoint(rest)
      /\ MembersOf(rest) \cap members = {}
  BY RemovedKeeps
<1>4. new.members = members
  OBVIOUS
<1> HIDE DEF new, rest
<1>5. TypeOK'
  BY <1>1, <1>2, <1>3 DEF IInv, TypeOK
<1>6. IsFiniteSet(entries')
  BY <1>1, <1>3, FS_AddElement
<1>7. QueueSound'
  <2>1. Disjoint(entries')
    <3>1. \A e \in rest : e.members \cap members = {}
      BY <1>3 DEF MembersOf
    <3> QED BY <1>1, <1>3, <1>4, <3>1 DEF Disjoint
  <2>2. \A e \in entries' : e.members # {}
    BY <1>1, <1>3, <1>4 DEF IInv, QueueSound
  <2> QED BY <2>1, <2>2 DEF QueueSound, Disjoint
<1>8. PendingSound' /\ MatchSound'
  BY <1>1 DEF IInv, PendingSound, MatchSound, MembersOf
<1> QED BY <1>5, <1>6, <1>7, <1>8 DEF IInv

\* A login changes the set of sessions only.
LEMMA LoginIInv ==
  ASSUME IInv, NEW p \in Players, Login(p)
  PROVE  IInv'
<1>1. /\ sessions' = sessions \cup {p}
      /\ UNCHANGED <<entries, replying, waiting, missed, pc, lag, batch, pending>>
  BY DEF Login, threadVars
<1>2. TypeOK' /\ IsFiniteSet(entries')
  BY <1>1 DEF IInv, TypeOK
<1>3. QueueSound'
  BY <1>1 DEF IInv, QueueSound, MembersOf, Disjoint
<1>4. PendingSound' /\ MatchSound'
  BY <1>1 DEF IInv, PendingSound, MatchSound, MembersOf
<1> QED BY <1>2, <1>3, <1>4 DEF IInv

\* What a search takes out of the queue becomes the batch to notify.
LEMMA FindMatchIInv ==
  ASSUME IInv, FindMatch
  PROVE  IInv'
<1>1. PICK s \in Sorted(entries) :
        LET found == getMatch(s, lag)
        IN  IF found.outcome = "none"
            THEN EndOfTurn /\ UNCHANGED <<entries, pending>>
            ELSE /\ pc' = "notify"
                 /\ entries' = entries \ found.out
                 /\ batch' = found
                 /\ pending' = MembersOf(found.out)
                 /\ UNCHANGED lag
  BY DEF FindMatch
<1>2. pc = "match" /\ UNCHANGED <<sessions, replying, waiting, missed>>
  BY DEF FindMatch
<1> DEFINE found == getMatch(s, lag)
<1>3. /\ found.outcome \in {"none", "match", "timeout"}
      /\ found.out \subseteq entries
      /\ found.outcome # "none" => found.out # {}
      /\ found.outcome = "match" => WellMatched(found.out, lag)
  <2>1. IsQueue(s) /\ {s[k] : k \in 1..Len(s)} \subseteq entries
    BY SortedIsQueue DEF IInv, TypeOK, QueueSound
  <2> QED BY <2>1, GetMatchSound
<1>4. CASE found.outcome = "none"
  <2>1. /\ pc' = "poll" /\ lag' = 0 /\ batch' = Nothing
        /\ UNCHANGED <<entries, pending, sessions, replying, waiting, missed>>
    BY <1>1, <1>2, <1>4 DEF EndOfTurn
  <2>2. pending = {}
    BY <1>2 DEF IInv, PendingSound
  <2>3. TypeOK' /\ IsFiniteSet(entries')
    BY <2>1 DEF IInv, TypeOK, Nothing
  <2>4. QueueSound'
    BY <2>1 DEF IInv, QueueSound, MembersOf, Disjoint
  <2>5. PendingSound' /\ MatchSound'
    BY <2>1, <2>2 DEF PendingSound, MatchSound, MembersOf, Nothing
  <2> QED BY <2>3, <2>4, <2>5 DEF IInv
<1>5. CASE found.outcome # "none"
  <2> HIDE DEF found
  <2>1. /\ pc' = "notify"
        /\ entries' = entries \ found.out
        /\ batch' = found
        /\ pending' = MembersOf(found.out)
        /\ UNCHANGED <<lag, sessions, replying, waiting, missed>>
    BY <1>1, <1>2, <1>5 DEF found
  <2>2. pending' \subseteq Players
    BY <1>3, <2>1 DEF IInv, TypeOK, Entry, MembersOf
  <2>3. TypeOK'
    BY <1>3, <2>1, <2>2 DEF IInv, TypeOK
  <2>4. IsFiniteSet(entries')
    BY <2>1, FS_Subset DEF IInv
  <2>5. QueueSound'
    BY <2>1 DEF IInv, QueueSound, MembersOf, Disjoint
  <2>6. MembersOf(found.out) # {}
    <3>1. PICK e \in found.out : TRUE
      BY <1>3, <1>5
    <3>2. e.members # {}
      BY <1>3 DEF IInv, QueueSound
    <3> QED BY <3>1, <3>2 DEF MembersOf
  <2>7. PendingSound'
    BY <2>1, <2>6 DEF PendingSound, MembersOf
  <2>8. MatchSound'
    BY <1>3, <2>1 DEF MatchSound
  <2> QED BY <2>3, <2>4, <2>5, <2>7, <2>8 DEF IInv
<1> QED BY <1>4, <1>5

\* Notifying one player makes the batch one shorter.
LEMMA NotifyIInv ==
  ASSUME IInv, NEW p \in Players, Notify(p)
  PROVE  IInv'
<1>1. /\ pc = "notify" /\ pending' = pending \ {p}
      /\ waiting' \subseteq Players /\ missed' \subseteq waiting'
      /\ UNCHANGED <<entries, sessions, replying>>
      /\ IF pending' = {} THEN EndOfTurn ELSE UNCHANGED <<pc, lag, batch>>
  BY DEF Notify, Tell, IInv, TypeOK
<1>2. IsFiniteSet(entries') /\ QueueSound'
  BY <1>1 DEF IInv, QueueSound, MembersOf, Disjoint
<1>3. CASE pending' = {}
  <2>1. pc' = "poll" /\ lag' = 0 /\ batch' = Nothing
    BY <1>1, <1>3 DEF EndOfTurn
  <2>2. TypeOK'
    BY <1>1, <2>1 DEF IInv, TypeOK, Nothing
  <2>3. PendingSound' /\ MatchSound'
    BY <1>3, <2>1 DEF PendingSound, MatchSound, Nothing
  <2> QED BY <1>2, <2>2, <2>3 DEF IInv
<1>4. CASE pending' # {}
  <2>1. UNCHANGED <<pc, lag, batch>>
    BY <1>1, <1>4
  <2>2. TypeOK'
    BY <1>1, <2>1 DEF IInv, TypeOK
  <2>3. PendingSound' /\ MatchSound'
    BY <1>1, <1>4, <2>1 DEF IInv, PendingSound, MatchSound, MembersOf
  <2> QED BY <1>2, <2>2, <2>3 DEF IInv
<1> QED BY <1>3, <1>4

\* A second ages the entries and leaves their teams as they are.
LEMMA TickIInv ==
  ASSUME IInv, Tick
  PROVE  IInv'
<1> DEFINE Older(e) == [e EXCEPT !.waited = IF @ < MaxWait THEN @ + 1 ELSE @]
<1>1. /\ pc = "match" => lag < MaxLag
      /\ entries' = {Older(e) : e \in entries}
      /\ lag' = IF pc = "match" THEN lag + 1 ELSE lag
      /\ UNCHANGED <<sessions, replying, waiting, missed, pc, batch, pending>>
  BY DEF Tick
<1>2. \A e \in Entry : Older(e) \in Entry /\ Older(e).members = e.members
  BY DEF Entry
<1> HIDE DEF Older
<1>3. entries \subseteq Entry
  BY DEF IInv, TypeOK
<1>4. TypeOK'
  BY <1>1, <1>2, <1>3 DEF IInv, TypeOK
<1>5. IsFiniteSet(entries')
  <2> DEFINE f == [e \in entries |-> Older(e)]
  <2>1. f \in Surjection(entries, entries')
    BY <1>1 DEF Surjection
  <2> QED BY <2>1, FS_Surjection DEF IInv
<1>6. QueueSound'
  <2>1. Disjoint(entries')
    BY <1>1, <1>2, <1>3 DEF IInv, QueueSound, Disjoint
  <2>2. \A e \in entries' : e.members # {}
    BY <1>1, <1>2, <1>3 DEF IInv, QueueSound
  <2> QED BY <2>1, <2>2 DEF QueueSound, Disjoint
<1>7. PendingSound'
  BY <1>1 DEF IInv, PendingSound, MembersOf
<1>8. MatchSound'
  <2>1. CASE pc = "match"
    BY <1>1, <2>1 DEF IInv, PendingSound, MatchSound, Nothing
  <2>2. CASE pc # "match"
    BY <1>1, <2>2 DEF IInv, MatchSound
  <2> QED BY <2>1, <2>2
<1> QED BY <1>4, <1>5, <1>6, <1>7, <1>8 DEF IInv

\* Reading the clock changes neither queue nor batch.
LEMMA ReadClockIInv == IInv /\ ReadClock => IInv'
  BY DEF ReadClock, IInv, TypeOK, QueueSound, PendingSound, MatchSound, MembersOf, Disjoint

\* Sending the response changes neither queue nor batch.
LEMMA ReplyIInv == IInv /\ Reply => IInv'
  BY DEF Reply, threadVars, IInv, TypeOK, QueueSound, PendingSound, MatchSound, MembersOf, Disjoint

\* The invariant depends on the variables of the module only.
LEMMA StutterIInv == IInv /\ UNCHANGED vars => IInv'
  BY DEF vars, IInv, TypeOK, QueueSound, PendingSound, MatchSound, MembersOf, Disjoint

\* Every step keeps the invariant.
LEMMA NextIInv == IInv /\ [Next]_vars => IInv'
<1> SUFFICES ASSUME IInv, Next PROVE IInv'
  BY StutterIInv
<1>1. ASSUME NEW p \in Players, Asks(p) PROVE IInv'
  <2>1. PICK members \in Teams, opponents \in Opponents, rating \in Ratings,
               delay \in 0..MaxLag :
          JoinQueue(p, members, opponents, rating, delay)
    BY <1>1 DEF Asks
  <2>2. members \in SUBSET Players /\ opponents \in Int /\ rating \in Int /\ delay \in Nat
    BY MatchmakerAssumption
  <2> QED BY <2>1, <2>2, JoinQueueIInv
<1>2. ASSUME NEW p \in Players, LeaveQueue(p) \/ PlayerDisconnect(p) PROVE IInv'
  <2>1. Dequeue(p) /\ UNCHANGED threadVars /\ sessions' \in {sessions, sessions \ {p}}
    BY <1>2 DEF LeaveQueue, PlayerDisconnect
  <2> QED BY <2>1, DequeueIInv
<1>3. ASSUME NEW p \in Players, Login(p) PROVE IInv'
  BY <1>3, LoginIInv
<1>4. ASSUME Thread PROVE IInv'
  BY <1>4, ReadClockIInv, FindMatchIInv, NotifyIInv DEF Thread
<1>5. ASSUME Tick PROVE IInv'
  BY <1>5, TickIInv
<1>6. ASSUME Reply PROVE IInv'
  BY <1>6, ReplyIInv
<1> QED BY <1>1, <1>2, <1>3, <1>4, <1>5, <1>6 DEF Next

\* IInv is an invariant.
THEOREM Invariance == Spec => []IInv
  BY InitIInv, NextIInv, PTL DEF Spec

\* The variables of the matchmaker keep their types.
THEOREM TypeCorrect == Spec => []TypeOK
<1>1. IInv => TypeOK
  BY DEF IInv
<1> QED BY <1>1, Invariance, PTL

\* No player is ever in two entries and no entry is empty, for any teams,
\* settings and interleaving of the handlers with the matchmaker thread, and
\* whoever the players are that the session table has.
THEOREM QueueSoundHolds == Spec => []QueueSound
<1>1. IInv => QueueSound
  BY DEF IInv
<1> QED BY <1>1, Invariance, PTL

\* The thread notifies only players it has taken out of the queue, and ends
\* its turn exactly when all of them had their turn.
THEOREM PendingSoundHolds == Spec => []PendingSound
<1>1. IInv => PendingSound
  BY DEF IInv
<1> QED BY <1>1, Invariance, PTL

\* Whatever the bounds, the tolerance and the sizes, and whatever handlers run
\* while the thread notifies: the teams of a match are disjoint, have together
\* as many players as one of them plays for, and that one accepts the others.
THEOREM MatchSoundHolds == Spec => []MatchSound
<1>1. IInv => MatchSound
  BY DEF IInv
<1> QED BY <1>1, Invariance, PTL

-----------------------------------------------------------------------------
(* Players who queue alone.                                                *)

Solo == \A members \in Teams : \E p \in Players : members = {p}

SoloInv ==
  /\ NobodyForgotten
  /\ \A e \in entries : \E p \in Players : e.members = {p}

\* Leaving the queue, and the session with it or not, ends the waiting of the
\* player who leaves and of nobody else.
LEMMA DequeueSolo ==
  ASSUME SoloInv, NEW p \in Players, Dequeue(p), UNCHANGED threadVars,
         sessions' \in {sessions, sessions \ {p}}
  PROVE  SoloInv'
<1>1. /\ entries' = {e \in entries : e.members \cap {p} = {}}
      /\ waiting' = waiting \ {p} /\ missed' = missed \ {p} /\ pending' = pending
  BY DEF Dequeue, Removed, threadVars
<1>2. ASSUME NEW q \in waiting' \ missed' PROVE q \in MembersOf(entries') \cup pending'
  <2>1. q \in waiting \ missed /\ q # p
    BY <1>1, <1>2
  <2>2. CASE q \in pending
    BY <1>1, <2>2
  <2>3. CASE q \in MembersOf(entries)
    <3>1. PICK e \in entries : q \in e.members
      BY <2>3 DEF MembersOf
    <3>2. e.members = {q}
      BY <3>1 DEF SoloInv
    <3>3. e \in entries'
      BY <1>1, <2>1, <3>2
    <3> QED BY <3>1, <3>3 DEF MembersOf
  <2> QED BY <2>1, <2>2, <2>3 DEF SoloInv, NobodyForgotten
<1>3. NobodyForgotten'
  BY <1>2 DEF NobodyForgotten, MembersOf
<1> QED BY <1>1, <1>3 DEF SoloInv

\* A request replaces the entry of its sender and no other.
LEMMA JoinQueueSolo ==
  ASSUME SoloInv, Solo, NEW p \in Players, NEW members \in Teams,
         NEW opponents, NEW rating, NEW delay,
         JoinQueue(p, members, opponents, rating, delay)
  PROVE  SoloInv'
<1> DEFINE new == [members |-> members, averageRating |-> rating,
                   targetMatchSize |-> Target(members, opponents), waited |-> delay]
<1>1. /\ p \in members
      /\ entries' = {e \in entries : e.members \cap members = {}} \cup {new}
      /\ waiting' = waiting \cup {p} /\ missed' = missed \ {p} /\ pending' = pending
  BY DEF JoinQueue, Enqueue, Added, Removed, threadVars
<1>2. members = {p} /\ new.members = {p}
  BY <1>1 DEF Solo
<1> HIDE DEF new
<1>3. ASSUME NEW q \in waiting' \ missed' PROVE q \in MembersOf(entries') \cup pending'
  <2>1. CASE q = p
    <3>1. new \in entries' /\ q \in new.members
      BY <1>1, <1>2, <2>1
    <3> QED BY <3>1 DEF MembersOf
  <2>2. CASE q # p
    <3>1. q \in MembersOf(entries) \/ q \in pending
      BY <1>1, <1>3, <2>2 DEF SoloInv, NobodyForgotten
    <3>2. CASE q \in pending
      BY <1>1, <3>2
    <3>3. CASE q \in MembersOf(entries)
      <4>1. PICK e \in entries : q \in e.members
        BY <3>3 DEF MembersOf
      <4>2. e.members = {q}
        BY <4>1 DEF SoloInv
      <4>3. e \in entries'
        BY <1>1, <1>2, <2>2, <4>2
      <4> QED BY <4>1, <4>3 DEF MembersOf
    <3> QED BY <3>1, <3>2, <3>3
  <2> QED BY <2>1, <2>2
<1>4. NobodyForgotten'
  BY <1>3 DEF NobodyForgotten, MembersOf
<1>5. \A e \in entries' : \E q \in Players : e.members = {q}
  BY <1>1, <1>2 DEF SoloInv
<1> QED BY <1>4, <1>5 DEF SoloInv

\* Who is taken out of the queue is about to be notified.
LEMMA FindMatchSolo ==
  ASSUME IInv, SoloInv, FindMatch
  PROVE  SoloInv'
<1>1. PICK s \in Sorted(entries) :
        LET found == getMatch(s, lag)
        IN  IF found.outcome = "none"
            THEN EndOfTurn /\ UNCHANGED <<entries, pending>>
            ELSE /\ pc' = "notify"
                 /\ entries' = entries \ found.out
                 /\ batch' = found
                 /\ pending' = MembersOf(found.out)
                 /\ UNCHANGED lag
  BY DEF FindMatch
<1>2. pc = "match" /\ UNCHANGED <<waiting, missed>> /\ pending = {}
  BY DEF FindMatch, IInv, PendingSound
<1>3. \/ UNCHANGED <<entries, pending>>
      \/ \E out : entries' = entries \ out /\ pending' = MembersOf(out)
  BY <1>1
<1>4. entries' \subseteq entries /\ waiting' \ missed' \subseteq MembersOf(entries') \cup pending'
  BY <1>2, <1>3 DEF SoloInv, NobodyForgotten, MembersOf
<1> QED BY <1>2, <1>4 DEF SoloInv, NobodyForgotten, MembersOf

\* Who had its turn no longer waits, or was missed.
LEMMA NotifySolo ==
  ASSUME SoloInv, NEW p \in Players, Notify(p)
  PROVE  SoloInv'
<1>1. /\ pending' = pending \ {p} /\ UNCHANGED <<entries, sessions>>
      /\ waiting' \ missed' \subseteq (waiting \ missed) \ {p}
  BY DEF Notify, Tell
<1> QED BY <1>1 DEF SoloInv, NobodyForgotten, MembersOf

\* A second ages the entries and leaves their teams as they are.
LEMMA TickSolo ==
  ASSUME IInv, SoloInv, Tick
  PROVE  SoloInv'
<1> DEFINE Older(e) == [e EXCEPT !.waited = IF @ < MaxWait THEN @ + 1 ELSE @]
<1>1. /\ entries' = {Older(e) : e \in entries}
      /\ UNCHANGED <<waiting, missed, pending>>
  BY DEF Tick
<1>2. \A e \in entries : Older(e).members = e.members
  BY DEF IInv, TypeOK, Entry
<1> HIDE DEF Older
<1>3. MembersOf(entries') = MembersOf(entries)
  BY <1>1, <1>2 DEF MembersOf
<1>4. NobodyForgotten'
  BY <1>1, <1>3 DEF SoloInv, NobodyForgotten, MembersOf
<1>5. \A e \in entries' : \E q \in Players : e.members = {q}
  BY <1>1, <1>2 DEF SoloInv
<1> QED BY <1>1, <1>4, <1>5 DEF SoloInv

\* Every step keeps the invariant of solo players.
LEMMA NextSolo ==
  ASSUME Solo, IInv, SoloInv, [Next]_vars
  PROVE  SoloInv'
<1>1. ASSUME UNCHANGED vars PROVE SoloInv'
  BY <1>1 DEF vars, SoloInv, NobodyForgotten, MembersOf
<1>2. ASSUME NEW p \in Players, Asks(p) PROVE SoloInv'
  BY <1>2, JoinQueueSolo DEF Asks
<1>3. ASSUME NEW p \in Players, LeaveQueue(p) \/ PlayerDisconnect(p) PROVE SoloInv'
  <2>1. Dequeue(p) /\ UNCHANGED threadVars /\ sessions' \in {sessions, sessions \ {p}}
    BY <1>3 DEF LeaveQueue, PlayerDisconnect
  <2> QED BY <2>1, DequeueSolo
<1>4. ASSUME NEW p \in Players, Login(p) PROVE SoloInv'
  <2>1. UNCHANGED <<entries, waiting, missed, pending>>
    BY <1>4 DEF Login, threadVars
  <2> QED BY <2>1 DEF SoloInv, NobodyForgotten, MembersOf
<1>5. ASSUME Thread PROVE SoloInv'
  <2>1. ASSUME ReadClock PROVE SoloInv'
    BY <2>1 DEF ReadClock, SoloInv, NobodyForgotten, MembersOf
  <2> QED BY <1>5, <2>1, FindMatchSolo, NotifySolo DEF Thread
<1>6. ASSUME Tick PROVE SoloInv'
  BY <1>6, TickSolo
<1>7. ASSUME Reply PROVE SoloInv'
  BY <1>7 DEF Reply, threadVars, SoloInv, NobodyForgotten, MembersOf
<1> QED BY <1>1, <1>2, <1>3, <1>4, <1>5, <1>6, <1>7 DEF Next

\* While everybody queues alone, nobody is forgotten: who asked for a match and
\* has neither left nor been sent an event is queued or about to have its turn,
\* or had it when the session table had no connection for it.  No player needs
\* a session to queue, and the thread may overtake the response.
THEOREM NobodyForgottenHolds ==
  ASSUME Solo
  PROVE  Spec => []NobodyForgotten
<1>1. Init => SoloInv
  BY DEF Init, SoloInv, NobodyForgotten, MembersOf
<1>2. IInv /\ SoloInv /\ [Next]_vars => SoloInv'
  BY NextSolo
<1>3. SoloInv => NobodyForgotten
  BY DEF SoloInv
<1> QED BY <1>1, <1>2, <1>3, Invariance, PTL DEF Spec

=============================================================================

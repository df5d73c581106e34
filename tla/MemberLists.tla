---------------------------- MODULE MemberLists -----------------------------
(* The vectors of players that parties and lobbies keep: lists without     *)
(* duplicates, to which handlers append and from which they erase.         *)
EXTENDS SequencesExt, SequenceTheorems, TLAPS

\* std::find and erase: exactly p goes, nobody appears twice, a first member
\* other than p stays first, and the second one follows a first one that goes.
LEMMA RemoveFirstProperties ==
  ASSUME NEW S, NEW s \in Seq(S), IsInjective(s), NEW p
  PROVE  /\ RemoveFirst(s, p) \in Seq(S)
         /\ IsInjective(RemoveFirst(s, p))
         /\ Range(RemoveFirst(s, p)) = Range(s) \ {p}
         /\ Len(RemoveFirst(s, p)) <= Len(s)
         /\ (s # << >> /\ s[1] # p) => /\ RemoveFirst(s, p) # << >>
                                       /\ RemoveFirst(s, p)[1] = s[1]
         /\ (RemoveFirst(s, p) # << >> /\ s[1] = p) => RemoveFirst(s, p)[1] = s[2]
<1>1. CASE ~ \E i \in 1..Len(s) : s[i] = p
  <2>1. RemoveFirst(s, p) = s
    BY <1>1 DEF RemoveFirst
  <2>2. Range(s) = Range(s) \ {p}
    BY <1>1 DEF Range
  <2>3. s # << >> => s[1] # p
    BY <1>1
  <2> QED BY <2>1, <2>2, <2>3
<1>2. CASE \E i \in 1..Len(s) : s[i] = p
  <2>1. PICK k \in 1..Len(s) : s[k] = p
    BY <1>2
  <2>2. {i \in 1..Len(s) : s[i] = p} = {k}
    BY <2>1 DEF IsInjective
  <2>3. Min({k}) = k
    BY DEF Min
  <2>4. SelectInSeq(s, LAMBDA v : v = p) = k
    BY <2>2, <2>3 DEF SelectInSeq
  <2> DEFINE a == SubSeq(s, 1, k - 1)
             b == SubSeq(s, k + 1, Len(s))
             n == Len(s) - 1
             t == RemoveFirst(s, p)
  <2>5. t = a \o b
    BY <1>2, <2>4 DEF RemoveFirst, RemoveAt
  <2>6. /\ a \in Seq(S) /\ Len(a) = k - 1
        /\ \A i \in 1..(k - 1) : a[i] = s[i]
    <3>1. \A i \in 1..(k - 1) : s[i] \in S
      OBVIOUS
    <3> QED BY <3>1, SubSeqProperties
  <2>7. /\ b \in Seq(S) /\ Len(b) = Len(s) - k
        /\ \A i \in 1..(Len(s) - k) : b[i] = s[k + i]
    <3>1. \A i \in (k + 1)..Len(s) : s[i] \in S
      OBVIOUS
    <3> QED BY <3>1, SubSeqProperties
  <2>8. /\ t \in Seq(S) /\ Len(t) = n
        /\ \A i \in 1..n : t[i] = IF i < k THEN s[i] ELSE s[i + 1]
    <3> HIDE DEF a, b
    <3>1. /\ a \o b \in Seq(S)
          /\ Len(a \o b) = n
          /\ \A i \in 1..n : (a \o b)[i] = IF i <= k - 1 THEN a[i] ELSE b[i - (k - 1)]
      <4>1. /\ a \o b \in Seq(S)
            /\ Len(a \o b) = Len(a) + Len(b)
            /\ \A i \in 1..(Len(a) + Len(b)) :
                  (a \o b)[i] = IF i <= Len(a) THEN a[i] ELSE b[i - Len(a)]
        BY <2>6, <2>7, ConcatProperties
      <4>2. Len(a) + Len(b) = n
        BY <2>6, <2>7
      <4> QED BY <4>1, <4>2, <2>6
    <3>2. ASSUME NEW i \in 1..n
          PROVE  t[i] = IF i < k THEN s[i] ELSE s[i + 1]
      <4>1. CASE i < k
        BY <4>1, <3>1, <2>5, <2>6
      <4>2. CASE ~(i < k)
        <5>1. t[i] = b[i - (k - 1)]
          BY <4>2, <3>1, <2>5
        <5>2. i - (k - 1) \in 1..(Len(s) - k) /\ k + (i - (k - 1)) = i + 1
          BY <4>2
        <5> QED BY <4>2, <5>1, <5>2, <2>7
      <4> QED BY <4>1, <4>2
    <3> QED BY <3>1, <3>2, <2>5
  <2> HIDE DEF t
  <2>9. IsInjective(t)
    <3> SUFFICES ASSUME NEW i \in 1..n, NEW j \in 1..n, t[i] = t[j]
                 PROVE  i = j
      BY <2>8 DEF IsInjective
    <3>1. (IF i < k THEN s[i] ELSE s[i + 1]) = (IF j < k THEN s[j] ELSE s[j + 1])
      BY <2>8
    <3>2. \A x, y \in 1..Len(s) : s[x] = s[y] => x = y
      BY DEF IsInjective
    <3>3. i + 1 \in 1..Len(s) /\ j + 1 \in 1..Len(s) /\ i \in 1..Len(s) /\ j \in 1..Len(s)
      OBVIOUS
    <3> QED BY <3>1, <3>2, <3>3
  <2>10. Range(t) = Range(s) \ {p}
    <3>1. ASSUME NEW x \in Range(t) PROVE x \in Range(s) \ {p}
      <4>1. PICK i \in 1..n : x = t[i]
        BY <3>1, <2>8 DEF Range
      <4>2. x = IF i < k THEN s[i] ELSE s[i + 1]
        BY <4>1, <2>8
      <4> QED BY <4>1, <4>2, <2>1 DEF Range, IsInjective
    <3>2. ASSUME NEW x \in Range(s) \ {p} PROVE x \in Range(t)
      <4>1. PICK j \in 1..Len(s) : x = s[j] /\ j # k
        BY <3>2, <2>1 DEF Range
      <4>2. CASE j < k
        <5>1. j \in 1..n /\ t[j] = x
          BY <4>1, <4>2, <2>8
        <5> QED BY <5>1, <2>8 DEF Range
      <4>3. CASE j > k
        <5>1. j - 1 \in 1..n /\ t[j - 1] = x
          BY <4>1, <4>3, <2>8
        <5> QED BY <5>1, <2>8 DEF Range
      <4> QED BY <4>1, <4>2, <4>3
    <3> QED BY <3>1, <3>2
  <2>11. ASSUME s # << >>, s[1] # p PROVE t # << >> /\ t[1] = s[1]
    <3>1. k > 1 /\ 1 \in 1..n
      BY <2>1, <2>11
    <3> QED BY <3>1, <2>8
  <2>12. ASSUME t # << >>, s[1] = p PROVE t[1] = s[2]
    <3>1. k = 1
      BY <2>1, <2>12 DEF IsInjective
    <3>2. 1 \in 1..n
      BY <2>8, <2>12
    <3> QED BY <2>8, <3>1, <3>2
  <2> QED BY <2>8, <2>9, <2>10, <2>11, <2>12 DEF t
<1> QED BY <1>1, <1>2

\* push_back of somebody new.
LEMMA AppendNew ==
  ASSUME NEW S, NEW s \in Seq(S), IsInjective(s),
         NEW p \in S, p \notin Range(s)
  PROVE  /\ Append(s, p) \in Seq(S)
         /\ IsInjective(Append(s, p))
         /\ Range(Append(s, p)) = Range(s) \cup {p}
         /\ Len(Append(s, p)) = Len(s) + 1
         /\ s # << >> => Append(s, p)[1] = s[1]
<1> DEFINE t == Append(s, p)
<1>1. /\ t \in Seq(S) /\ Len(t) = Len(s) + 1
      /\ \A i \in 1..Len(s) : t[i] = s[i]
      /\ t[Len(s) + 1] = p
  OBVIOUS
<1> HIDE DEF t
<1>2. IsInjective(t)
  BY <1>1 DEF IsInjective, Range
<1>3. Range(t) = Range(s) \cup {p}
  <2>1. Range(t) \subseteq Range(s) \cup {p}
    BY <1>1 DEF Range
  <2>2. Range(s) \subseteq Range(t)
    BY <1>1 DEF Range
  <2>3. p \in Range(t)
    BY <1>1 DEF Range
  <2> QED BY <2>1, <2>2, <2>3
<1>4. s # << >> => t[1] = s[1]
  BY <1>1
<1> QED BY <1>1, <1>2, <1>3, <1>4 DEF t

=============================================================================

----------------------------- MODULE ListProofs -----------------------------
(***************************************************************************)
(* Induction, and what the operators on lists return.  The library's       *)
(* induction theorems take a predicate as a parameter; here the predicate  *)
(* is a set, and induction says that the set holds all numbers.            *)
(***************************************************************************)
EXTENDS Lists, SequencesExt, SequenceTheorems, FiniteSetTheorems, WellFoundedInduction, TLAPS

\* A set of numbers has a least one.
LEMMA LeastNat ==
  ASSUME NEW T, T \subseteq Nat, T # {}
  PROVE  \E x \in T : \A y \in T : x <= y
<1>1. IsWellFoundedOn(OpToRel(<, Nat), Nat)
  BY NatLessThanWellFounded
<1>2. PICK x \in T : \A y \in T : ~ (<<y, x>> \in OpToRel(<, Nat))
  BY <1>1, WFMin
<1>3. ASSUME NEW y \in T PROVE x <= y
  <2>1. x \in Nat /\ y \in Nat
    OBVIOUS
  <2>2. ~ (y < x)
    BY <2>1, <1>2 DEF OpToRel
  <2> QED
    BY <2>1, <2>2
<1> QED
  BY <1>3

\* Induction over the natural numbers.
LEMMA SetInduction ==
  ASSUME NEW S, 0 \in S, \A n \in Nat : n \in S => n + 1 \in S
  PROVE  Nat \subseteq S
<1> SUFFICES ASSUME Nat \ S # {} PROVE FALSE
  OBVIOUS
<1>1. PICK x \in Nat \ S : \A y \in Nat \ S : x <= y
  BY LeastNat
<1>2. x # 0 /\ x - 1 \in Nat /\ x - 1 + 1 = x
  BY <1>1
<1>3. x - 1 \in S
  BY <1>1, <1>2
<1> QED
  BY <1>2, <1>3

\* Induction up to a bound.
LEMMA UpToInduction ==
  ASSUME NEW n \in Nat, NEW S, 0 \in S, \A i \in 1..n : i - 1 \in S => i \in S
  PROVE  0..n \subseteq S
<1> DEFINE U == {i \in Nat : i <= n => i \in S}
<1>1. 0 \in U
  OBVIOUS
<1>2. \A i \in Nat : i \in U => i + 1 \in U
  <2> SUFFICES ASSUME NEW i \in Nat, i \in U, i + 1 <= n PROVE i + 1 \in S
    OBVIOUS
  <2>1. i \in S /\ i + 1 \in 1..n /\ (i + 1) - 1 = i
    OBVIOUS
  <2> QED
    BY <2>1
<1>3. Nat \subseteq U
  <2> HIDE DEF U
  <2> QED
    BY <1>1, <1>2, SetInduction
<1> QED
  BY <1>3

----------------------------------------------------------------------------
(* Only *)

\* The recursive definition of Kept has the solution it describes.
LEMMA KeptDef ==
  ASSUME NEW s, Len(s) \in Nat, NEW P
  PROVE  Kept(s, P) = [i \in 0..Len(s) |->
           IF i = 0 THEN <<>>
           ELSE IF s[i] \in P THEN Append(Kept(s, P)[i - 1], s[i]) ELSE Kept(s, P)[i - 1]]
<1> DEFINE Step(i, q) == IF s[i] \in P THEN Append(q, s[i]) ELSE q
           Sol(k, g) == g = [i \in 0..k |-> IF i = 0 THEN <<>> ELSE Step(i, g[i - 1])]
           T == {k \in Nat : \E g : Sol(k, g)}
<1> HIDE DEF Step
<1>1. 0 \in T
  <2>1. Sol(0, [i \in 0..0 |-> <<>>])
    OBVIOUS
  <2> QED
    BY <2>1
<1>2. ASSUME NEW k \in Nat, k \in T PROVE k + 1 \in T
  <2>1. PICK g : Sol(k, g)
    BY <1>2
  <2> DEFINE h == [i \in 0..k+1 |-> IF i <= k THEN g[i] ELSE Step(k+1, g[k])]
  <2>2. ASSUME NEW i \in 0..k+1 PROVE h[i] = IF i = 0 THEN <<>> ELSE Step(i, h[i - 1])
    <3>1. CASE i <= k
      BY <2>1, <3>1
    <3>2. CASE i = k + 1
      BY <3>2
    <3> QED
      BY <3>1, <3>2
  <2>3. Sol(k + 1, h)
    BY <2>2
  <2> HIDE DEF h, Sol
  <2> QED
    BY <2>3
<1>3. \E g : Sol(Len(s), g)
  <2> HIDE DEF T
  <2>1. Len(s) \in T
    BY <1>1, <1>2, SetInduction
  <2> QED
    BY <2>1 DEF T
<1>4. Kept(s, P) = CHOOSE g : Sol(Len(s), g)
  BY DEF Kept, Step
<1>5. Sol(Len(s), Kept(s, P))
  BY <1>3, <1>4
<1> QED
  BY <1>5 DEF Step
\* What is kept are the entries of s that are in P, in their order: the k-th is
\* the one at place e[k].
LEMMA OnlyEmbeds ==
  ASSUME NEW T, NEW s \in Seq(T), NEW P
  PROVE  /\ Only(s, P) \in Seq(T)
         /\ \E e \in [1..Len(Only(s, P)) -> 1..Len(s)] :
              /\ \A a, b \in 1..Len(Only(s, P)) : a < b => e[a] < e[b]
              /\ \A a \in 1..Len(Only(s, P)) : Only(s, P)[a] = s[e[a]] /\ s[e[a]] \in P
              /\ \A j \in 1..Len(s) : s[j] \in P => \E a \in 1..Len(Only(s, P)) : e[a] = j
<1> DEFINE L == Len(s)
           kept == Kept(s, P)
           Places(i, q, n, e) ==
             /\ e \in [1..n -> 1..i]
             /\ \A a, b \in 1..n : a < b => e[a] < e[b]
             /\ \A a \in 1..n : q[a] = s[e[a]] /\ s[e[a]] \in P
             /\ \A j \in 1..i : s[j] \in P => \E a \in 1..n : e[a] = j
           Emb(i, q) == q \in Seq(T) /\ \E e : Places(i, q, Len(q), e)
           U == {i \in 0..L : Emb(i, kept[i])}
<1>0. L \in Nat /\ \A i \in 1..L : s[i] \in T
  OBVIOUS
<1>1. /\ kept[0] = <<>>
      /\ \A i \in 1..L : kept[i] = IF s[i] \in P THEN Append(kept[i - 1], s[i]) ELSE kept[i - 1]
  <2> HIDE DEF kept
  <2>1. kept = [i \in 0..L |->
           IF i = 0 THEN <<>>
           ELSE IF s[i] \in P THEN Append(kept[i - 1], s[i]) ELSE kept[i - 1]]
    BY <1>0, KeptDef DEF kept
  <2>2. 0 \in 0..L /\ \A i \in 1..L : i \in 0..L /\ i # 0
    BY <1>0
  <2> HIDE DEF L
  <2> QED
    BY <2>1, <2>2
<1> HIDE DEF kept, L
<1>2. 0 \in U
  <2>1. <<>> \in Seq(T) /\ Len(<<>>) = 0
    OBVIOUS
  <2>2. Places(0, <<>>, 0, [a \in 1..0 |-> 0])
    <3>1. 1..0 = {}
      OBVIOUS
    <3> QED
      BY <3>1
  <2> HIDE DEF Places
  <2>3. Emb(0, <<>>)
    BY <2>1, <2>2
  <2>4. 0 \in 0..L
    BY <1>0
  <2> HIDE DEF Emb
  <2> QED
    BY <1>1, <2>3, <2>4
<1>3. ASSUME NEW i \in 1..L, i - 1 \in U PROVE i \in U
  <2> DEFINE q == kept[i - 1]
             n == Len(q)
  <2>1. PICK e \in [1..n -> 1..(i - 1)] :
          /\ \A a, b \in 1..n : a < b => e[a] < e[b]
          /\ \A a \in 1..n : q[a] = s[e[a]] /\ s[e[a]] \in P
          /\ \A j \in 1..(i - 1) : s[j] \in P => \E a \in 1..n : e[a] = j
    BY <1>3
  <2>2. q \in Seq(T) /\ n \in Nat
    BY <1>3
  <2>3. i \in Nat /\ i >= 1 /\ i - 1 \in Nat
    BY <1>0
  <2> HIDE DEF q, n
  <2>4. ASSUME s[i] \notin P PROVE Emb(i, q)
    <3>1. e \in [1..n -> 1..i]
      BY <2>3
    <3>2. \A j \in 1..i : s[j] \in P => \E a \in 1..n : e[a] = j
      <4> TAKE j \in 1..i
      <4>1. j = i \/ j \in 1..(i - 1)
        BY <2>3
      <4> QED
        BY <4>1, <2>1, <2>4
    <3>3. Places(i, q, n, e)
      BY <3>1, <3>2, <2>1
    <3> HIDE DEF Places
    <3> QED
      BY <3>3, <2>2 DEF n
  <2>5. ASSUME s[i] \in P PROVE Emb(i, Append(q, s[i]))
    <3> DEFINE r == Append(q, s[i])
               d == [a \in 1..(n + 1) |-> IF a = n + 1 THEN i ELSE e[a]]
    <3>1. r \in Seq(T) /\ Len(r) = n + 1 /\ (\A a \in 1..n : r[a] = q[a]) /\ r[n + 1] = s[i]
      BY <1>0, <2>2, AppendProperties DEF n
    <3>2. \A a \in 1..(n + 1) : a = n + 1 \/ a \in 1..n
      BY <2>2
    <3>3. d \in [1..(n + 1) -> 1..i]
      <4>1. \A a \in 1..n : e[a] \in 1..i
        BY <2>3
      <4>2. i \in 1..i
        BY <2>3
      <4> QED
        BY <4>1, <4>2, <3>2
    <3>4. \A a \in 1..n : d[a] = e[a] /\ e[a] < i
      BY <2>2, <2>3
    <3>5. d[n + 1] = i /\ n + 1 \in 1..(n + 1)
      BY <2>2
    <3> HIDE DEF d, r
    <3>6. \A a, b \in 1..(n + 1) : a < b => d[a] < d[b]
      <4> SUFFICES ASSUME NEW a \in 1..(n + 1), NEW b \in 1..(n + 1), a < b PROVE d[a] < d[b]
        OBVIOUS
      <4>1. a \in 1..n
        BY <2>2
      <4> QED
        BY <4>1, <3>2, <3>4, <3>5, <2>1
    <3>7. \A a \in 1..(n + 1) : r[a] = s[d[a]] /\ s[d[a]] \in P
      BY <3>1, <3>2, <3>4, <3>5, <2>1, <2>5
    <3>8. \A j \in 1..i : s[j] \in P => \E a \in 1..(n + 1) : d[a] = j
      <4> SUFFICES ASSUME NEW j \in 1..i, s[j] \in P PROVE \E a \in 1..(n + 1) : d[a] = j
        OBVIOUS
      <4>1. CASE j = i
        BY <4>1, <3>5
      <4>2. CASE j # i
        <5>1. j \in 1..(i - 1)
          BY <4>2, <2>3
        <5>2. PICK a \in 1..n : e[a] = j
          BY <5>1, <2>1
        <5>3. a \in 1..(n + 1)
          BY <2>2
        <5> QED
          BY <5>2, <5>3, <3>4
      <4> QED
        BY <4>1, <4>2
    <3>9. Places(i, r, n + 1, d)
      BY <3>3, <3>6, <3>7, <3>8
    <3> HIDE DEF Places
    <3> QED
      BY <3>1, <3>9 DEF r
  <2>6. Emb(i, kept[i])
    <3> HIDE DEF Emb
    <3>1. CASE s[i] \in P
      <4>1. kept[i] = Append(q, s[i])
        BY <3>1, <1>1 DEF q
      <4> QED
        BY <3>1, <4>1, <2>5
    <3>2. CASE s[i] \notin P
      <4>1. kept[i] = q
        BY <3>2, <1>1 DEF q
      <4> QED
        BY <3>2, <4>1, <2>4
    <3> QED
      BY <3>1, <3>2
  <2>7. i \in 0..L
    BY <1>0
  <2> HIDE DEF Emb
  <2> QED
    BY <2>6, <2>7
<1>4. L \in U
  <2> HIDE DEF U
  <2>1. 0..L \subseteq U
    BY <1>0, <1>2, <1>3, UpToInduction
  <2> QED
    BY <1>0, <2>1
<1>5. Only(s, P) = kept[L]
  BY DEF Only, kept, L
<1> QED
  BY <1>4, <1>5 DEF L

\* What is selected, and that it is selected once.
LEMMA OnlyRange ==
  ASSUME NEW T, NEW s \in Seq(T), NEW P
  PROVE  /\ Only(s, P) \in Seq(T)
         /\ Range(Only(s, P)) = Range(s) \cap P
         /\ IsInjective(s) => IsInjective(Only(s, P))
<1> DEFINE o == Only(s, P)
<1>1. o \in Seq(T)
  BY OnlyEmbeds
<1>2. PICK e \in [1..Len(o) -> 1..Len(s)] :
        /\ \A a, b \in 1..Len(o) : a < b => e[a] < e[b]
        /\ \A a \in 1..Len(o) : o[a] = s[e[a]] /\ s[e[a]] \in P
        /\ \A j \in 1..Len(s) : s[j] \in P => \E a \in 1..Len(o) : e[a] = j
  BY OnlyEmbeds
<1> HIDE DEF o
<1>3. DOMAIN o = 1..Len(o) /\ DOMAIN s = 1..Len(s) /\ Len(o) \in Nat /\ Len(s) \in Nat
  BY <1>1
<1>4. Range(o) = Range(s) \cap P
  <2>1. ASSUME NEW x PROVE x \in Range(o) <=> x \in Range(s) \cap P
    <3>1. ASSUME x \in Range(o) PROVE x \in Range(s) \cap P
      <4>1. PICK a \in 1..Len(o) : x = o[a]
        BY <3>1, <1>3 DEF Range
      <4>2. e[a] \in DOMAIN s
        BY <1>3
      <4> QED
        BY <4>1, <4>2, <1>2 DEF Range
    <3>2. ASSUME x \in Range(s) \cap P PROVE x \in Range(o)
      <4>1. PICK j \in 1..Len(s) : x = s[j]
        BY <3>2, <1>3 DEF Range
      <4>2. PICK a \in 1..Len(o) : e[a] = j
        BY <4>1, <3>2, <1>2
      <4>3. o[a] = x
        BY <4>1, <4>2, <1>2
      <4> QED
        BY <4>3, <1>3 DEF Range
    <3> QED
      BY <3>1, <3>2
  <2> QED
    BY <2>1
<1>5. ASSUME IsInjective(s) PROVE IsInjective(o)
  <2> SUFFICES ASSUME NEW a \in 1..Len(o), NEW b \in 1..Len(o), o[a] = o[b] PROVE a = b
    BY <1>3 DEF IsInjective
  <2>1. e[a] = e[b]
    <3>1. s[e[a]] = s[e[b]]
      BY <1>2
    <3>2. e[a] \in DOMAIN s /\ e[b] \in DOMAIN s
      BY <1>3
    <3> QED
      BY <1>5, <3>1, <3>2 DEF IsInjective
  <2>2. a \in Int /\ b \in Int /\ e[a] \in Int /\ e[b] \in Int
    OBVIOUS
  <2>3. ~(a < b) /\ ~(b < a)
    <3>1. a < b => e[a] < e[b]
      BY <1>2
    <3>2. b < a => e[b] < e[a]
      BY <1>2
    <3> QED
      BY <2>1, <2>2, <3>1, <3>2
  <2> QED
    BY <2>2, <2>3
<1> QED
  BY <1>1, <1>4, <1>5 DEF o

\* What is in a list after an append.
LEMMA AppendRange ==
  ASSUME NEW T, NEW q \in Seq(T), NEW x \in T
  PROVE  Append(q, x) \in Seq(T) /\ Range(Append(q, x)) = Range(q) \cup {x}
<1>1. <<x>> \in Seq(T) /\ Range(<<x>>) = {x}
  BY DEF Range
<1>2. Append(q, x) \in Seq(T) /\ Append(q, x) = q \o <<x>>
  BY AppendProperties, AppendIsConcat
<1>3. Range(q \o <<x>>) = Range(q) \cup Range(<<x>>)
  BY <1>1, RangeConcatenation
<1> QED
  BY <1>1, <1>2, <1>3

\* A list without repetitions is as long as there are things in it.
LEMMA RangeFinite ==
  ASSUME NEW T, NEW s \in Seq(T)
  PROVE  /\ IsFiniteSet(Range(s))
         /\ IsInjective(s) => Cardinality(Range(s)) = Len(s)
<1>1. Len(s) \in Nat /\ DOMAIN s = 1..Len(s)
  OBVIOUS
<1>2. s \in Surjection(1..Len(s), Range(s))
  BY <1>1 DEF Surjection, Range
<1>3. IsFiniteSet(1..Len(s)) /\ Cardinality(1..Len(s)) = Len(s)
  BY <1>1, FS_Interval
<1>4. IsFiniteSet(Range(s))
  BY <1>2, <1>3, FS_Surjection
<1>5. IsInjective(s) => s \in Injection(1..Len(s), Range(s))
  BY <1>1 DEF IsInjective, Injection, Range
<1>6. IsInjective(s) => Cardinality(Range(s)) = Len(s)
  BY <1>2, <1>3, <1>5, FS_Surjection
<1> QED
  BY <1>4, <1>6

\* The recursive definition of Firsts has the solution it describes.
LEMMA FirstsDef ==
  ASSUME NEW s, Len(s) \in Nat
  PROVE  Firsts(s) = [i \in 0..Len(s) |->
           IF i = 0 THEN <<>>
           ELSE IF \E j \in 1..(i - 1) : s[j] = s[i] THEN Firsts(s)[i - 1]
                ELSE Append(Firsts(s)[i - 1], s[i])]
<1> DEFINE Step(i, q) == IF \E j \in 1..(i - 1) : s[j] = s[i] THEN q ELSE Append(q, s[i])
           Sol(k, g) == g = [i \in 0..k |-> IF i = 0 THEN <<>> ELSE Step(i, g[i - 1])]
           T == {k \in Nat : \E g : Sol(k, g)}
<1> HIDE DEF Step
<1>1. 0 \in T
  <2>1. Sol(0, [i \in 0..0 |-> <<>>])
    OBVIOUS
  <2> QED
    BY <2>1
<1>2. ASSUME NEW k \in Nat, k \in T PROVE k + 1 \in T
  <2>1. PICK g : Sol(k, g)
    BY <1>2
  <2> DEFINE h == [i \in 0..k+1 |-> IF i <= k THEN g[i] ELSE Step(k+1, g[k])]
  <2>2. ASSUME NEW i \in 0..k+1 PROVE h[i] = IF i = 0 THEN <<>> ELSE Step(i, h[i - 1])
    <3>1. CASE i <= k
      BY <2>1, <3>1
    <3>2. CASE i = k + 1
      BY <3>2
    <3> QED
      BY <3>1, <3>2
  <2>3. Sol(k + 1, h)
    BY <2>2
  <2> HIDE DEF h, Sol
  <2> QED
    BY <2>3
<1>3. \E g : Sol(Len(s), g)
  <2> HIDE DEF T
  <2>1. Len(s) \in T
    BY <1>1, <1>2, SetInduction
  <2> QED
    BY <2>1 DEF T
<1>4. Firsts(s) = CHOOSE g : Sol(Len(s), g)
  BY DEF Firsts, Step
<1>5. Sol(Len(s), Firsts(s))
  BY <1>3, <1>4
<1> QED
  BY <1>5 DEF Step

\* Distinct drops no entry.
LEMMA DistinctRange ==
  ASSUME NEW T, NEW s \in Seq(T)
  PROVE  Distinct(s) \in Seq(T) /\ Range(Distinct(s)) = Range(s)
<1> DEFINE L == Len(s)
           f == Firsts(s)
           Part(i, q) == q \in Seq(T) /\ Range(q) = {s[j] : j \in 1..i}
           U == {i \in 0..L : Part(i, f[i])}
<1>0. L \in Nat /\ (\A i \in 1..L : s[i] \in T) /\ Range(s) = {s[j] : j \in 1..L}
  BY RangeEquality
<1>1. /\ f[0] = <<>>
      /\ \A i \in 1..L : f[i] = IF \E j \in 1..(i - 1) : s[j] = s[i] THEN f[i - 1]
                                ELSE Append(f[i - 1], s[i])
  <2> HIDE DEF f
  <2>1. f = [i \in 0..L |->
           IF i = 0 THEN <<>>
           ELSE IF \E j \in 1..(i - 1) : s[j] = s[i] THEN f[i - 1] ELSE Append(f[i - 1], s[i])]
    BY <1>0, FirstsDef DEF f
  <2>2. 0 \in 0..L /\ \A i \in 1..L : i \in 0..L /\ i # 0
    BY <1>0
  <2> HIDE DEF L
  <2> QED
    BY <2>1, <2>2
<1> HIDE DEF f, L
<1>2. 0 \in U
  <2>1. <<>> \in Seq(T) /\ Range(<<>>) = {} /\ 1..0 = {}
    BY DEF Range
  <2>2. Part(0, <<>>)
    BY <2>1
  <2>3. 0 \in 0..L
    BY <1>0
  <2> HIDE DEF Part
  <2> QED
    BY <1>1, <2>2, <2>3
<1>3. ASSUME NEW i \in 1..L, i - 1 \in U PROVE i \in U
  <2> DEFINE q == f[i - 1]
  <2>1. q \in Seq(T) /\ Range(q) = {s[j] : j \in 1..(i - 1)} /\ s[i] \in T
    BY <1>0, <1>3
  <2>2. {s[j] : j \in 1..i} = {s[j] : j \in 1..(i - 1)} \cup {s[i]}
    <3>1. i \in Int /\ i >= 1
      BY <1>0
    <3>2. \A j : j \in 1..i <=> j \in 1..(i - 1) \/ j = i
      BY <3>1
    <3> QED
      BY <3>2
  <2>3. Part(i, f[i])
    <3>1. CASE \E j \in 1..(i - 1) : s[j] = s[i]
      <4>1. f[i] = q
        BY <3>1, <1>1
      <4>2. s[i] \in Range(q)
        BY <3>1, <2>1
      <4> QED
        BY <4>1, <4>2, <2>1, <2>2
    <3>2. CASE ~\E j \in 1..(i - 1) : s[j] = s[i]
      <4>1. f[i] = Append(q, s[i])
        BY <3>2, <1>1
      <4> HIDE DEF q
      <4>2. Append(q, s[i]) \in Seq(T) /\ Range(Append(q, s[i])) = Range(q) \cup {s[i]}
        BY <2>1, AppendRange
      <4> QED
        BY <4>1, <4>2, <2>1, <2>2
    <3> QED
      BY <3>1, <3>2
  <2>4. i \in 0..L
    BY <1>0
  <2> HIDE DEF Part
  <2> QED
    BY <2>3, <2>4
<1>4. L \in U
  <2> HIDE DEF U
  <2>1. 0..L \subseteq U
    BY <1>0, <1>2, <1>3, UpToInduction
  <2> QED
    BY <1>0, <2>1
<1>5. Distinct(s) = f[L]
  BY DEF Distinct, f, L
<1> QED
  BY <1>0, <1>4, <1>5

\* What is left of a list without repetitions when its head is taken.
LEMMA TailOnce ==
  ASSUME NEW T, NEW s \in Seq(T), s # <<>>, IsInjective(s)
  PROVE  /\ Tail(s) \in Seq(T) /\ IsInjective(Tail(s)) /\ Head(s) \in Range(s)
         /\ Range(Tail(s)) = Range(s) \ {Head(s)}
<1> DEFINE t == Tail(s)
<1>1. /\ t \in Seq(T) /\ Len(t) = Len(s) - 1 /\ \A i \in 1..Len(t) : t[i] = s[i + 1]
      /\ Len(s) \in Nat \ {0} /\ Head(s) = s[1]
  BY HeadTailProperties, EmptySeq
<1>2. DOMAIN s = 1..Len(s) /\ DOMAIN t = 1..Len(t)
  BY <1>1, LenProperties
<1> HIDE DEF t
<1>3. \A i \in DOMAIN t : i + 1 \in DOMAIN s /\ i + 1 # 1 /\ t[i] = s[i + 1]
  BY <1>1, <1>2
<1>4. \A j \in DOMAIN s : j # 1 => j - 1 \in DOMAIN t /\ j - 1 + 1 = j
  BY <1>1, <1>2
<1>5. 1 \in DOMAIN s
  BY <1>1, <1>2
<1>6. IsInjective(t)
  <2> SUFFICES ASSUME NEW a \in DOMAIN t, NEW b \in DOMAIN t, t[a] = t[b] PROVE a = b
    BY DEF IsInjective
  <2>1. a + 1 = b + 1
    BY <1>3 DEF IsInjective
  <2>2. a \in Int /\ b \in Int
    BY <1>2
  <2> QED
    BY <2>1, <2>2
<1>7. ASSUME NEW x PROVE x \in Range(t) <=> x \in Range(s) \ {s[1]}
  <2>1. ASSUME x \in Range(t) PROVE x \in Range(s) \ {s[1]}
    <3>1. PICK a \in DOMAIN t : x = t[a]
      BY <2>1 DEF Range
    <3> QED
      BY <3>1, <1>3, <1>5 DEF Range, IsInjective
  <2>2. ASSUME x \in Range(s) \ {s[1]} PROVE x \in Range(t)
    <3>1. PICK j \in DOMAIN s : x = s[j]
      BY <2>2 DEF Range
    <3>2. t[j - 1] = x /\ j - 1 \in DOMAIN t
      BY <2>2, <3>1, <1>3, <1>4
    <3> QED
      BY <3>2 DEF Range
  <2> QED
    BY <2>1, <2>2
<1>8. Head(s) \in Range(s)
  BY <1>1, <1>5 DEF Range
<1>9. Range(t) = Range(s) \ {Head(s)}
  BY <1>1, <1>7
<1> QED
  BY <1>1, <1>6, <1>8, <1>9 DEF t

\* Two lists without repetitions and with nothing in common.
LEMMA ConcatOnce ==
  ASSUME NEW T, NEW s \in Seq(T), NEW t \in Seq(T), IsInjective(s), IsInjective(t),
         Range(s) \cap Range(t) = {}
  PROVE  IsInjective(s \o t)
<1> DEFINE u == s \o t
           m == Len(s)
           n == Len(t)
<1>1. /\ Len(u) = m + n /\ m \in Nat /\ n \in Nat /\ u \in Seq(T)
      /\ \A i \in 1..(m + n) : u[i] = IF i <= m THEN s[i] ELSE t[i - m]
  BY ConcatProperties, LenProperties
<1>2. DOMAIN u = 1..(m + n) /\ DOMAIN s = 1..m /\ DOMAIN t = 1..n
  BY <1>1, LenProperties
<1> HIDE DEF u, m, n
<1>3. \A i \in 1..(m + n) : \/ i <= m /\ i \in DOMAIN s /\ u[i] = s[i] /\ u[i] \in Range(s)
                            \/ i > m /\ i - m \in DOMAIN t /\ u[i] = t[i - m] /\ u[i] \in Range(t)
  <2> TAKE i \in 1..(m + n)
  <2>1. CASE i <= m
    <3>1. i \in DOMAIN s /\ u[i] = s[i]
      BY <2>1, <1>1, <1>2
    <3> QED
      BY <2>1, <3>1 DEF Range
  <2>2. CASE ~(i <= m)
    <3>1. i - m \in DOMAIN t /\ u[i] = t[i - m] /\ i > m
      BY <2>2, <1>1, <1>2
    <3> QED
      BY <3>1 DEF Range
  <2> QED
    BY <2>1, <2>2
<1>4. ASSUME NEW a \in 1..(m + n), NEW b \in 1..(m + n), u[a] = u[b] PROVE a = b
  <2>0. a \in Int /\ b \in Int /\ m \in Int
    BY <1>1
  <2>1. CASE a <= m /\ b <= m
    BY <2>0, <2>1, <1>3, <1>4 DEF IsInjective
  <2>2. CASE a > m /\ b > m
    <3>1. a - m = b - m
      BY <2>0, <2>2, <1>3, <1>4 DEF IsInjective
    <3> QED
      BY <2>0, <3>1
  <2>3. CASE (a <= m /\ b > m) \/ (a > m /\ b <= m)
    BY <2>0, <2>3, <1>3, <1>4
  <2> QED
    BY <2>0, <2>1, <2>2, <2>3
<1>5. IsInjective(u)
  BY <1>2, <1>4 DEF IsInjective
<1> QED
  BY <1>5 DEF u

\* A new thing is appended to a list without repetitions.
LEMMA AppendOnce ==
  ASSUME NEW T, NEW q \in Seq(T), NEW x \in T, IsInjective(q), x \notin Range(q)
  PROVE  IsInjective(Append(q, x))
<1>1. <<x>> \in Seq(T) /\ Range(<<x>>) = {x} /\ IsInjective(<<x>>)
  BY DEF Range, IsInjective
<1>2. Append(q, x) = q \o <<x>>
  BY AppendIsConcat
<1> QED
  BY <1>1, <1>2, ConcatOnce

\* The head of a list and what follows it.
LEMMA HeadAndTail ==
  ASSUME NEW T, NEW s \in Seq(T), s # <<>>
  PROVE  /\ Tail(s) \in Seq(T) /\ Head(s) \in T /\ Head(s) \in Range(s)
         /\ Range(s) = Range(Tail(s)) \cup {Head(s)}
<1> DEFINE t == Tail(s)
<1>1. /\ t \in Seq(T) /\ Len(t) = Len(s) - 1 /\ \A i \in 1..Len(t) : t[i] = s[i + 1]
      /\ Len(s) \in Nat \ {0} /\ Head(s) = s[1]
  BY HeadTailProperties, EmptySeq
<1>2. DOMAIN s = 1..Len(s) /\ DOMAIN t = 1..Len(t)
  BY <1>1, LenProperties
<1> HIDE DEF t
<1>3. \A i \in DOMAIN t : i + 1 \in DOMAIN s /\ t[i] = s[i + 1]
  BY <1>1, <1>2
<1>4. \A j \in DOMAIN s : j # 1 => j - 1 \in DOMAIN t /\ j - 1 + 1 = j
  BY <1>1, <1>2
<1>5. 1 \in DOMAIN s /\ s[1] \in T
  BY <1>1, <1>2
<1>6. ASSUME NEW x PROVE x \in Range(s) <=> x \in Range(t) \cup {s[1]}
  <2>1. ASSUME x \in Range(s) PROVE x \in Range(t) \cup {s[1]}
    <3>1. PICK j \in DOMAIN s : x = s[j]
      BY <2>1 DEF Range
    <3>2. j # 1 => t[j - 1] = x /\ j - 1 \in DOMAIN t
      BY <3>1, <1>3, <1>4
    <3> QED
      BY <3>1, <3>2 DEF Range
  <2>2. ASSUME x \in Range(t) PROVE x \in Range(s)
    <3>1. PICK j \in DOMAIN t : x = t[j]
      BY <2>2 DEF Range
    <3> QED
      BY <3>1, <1>3 DEF Range
  <2>3. s[1] \in Range(s)
    BY <1>5 DEF Range
  <2> QED
    BY <2>1, <2>2, <2>3
<1>7. Range(s) = Range(t) \cup {s[1]}
  BY <1>6
<1> QED
  BY <1>1, <1>5, <1>7 DEF t

\* FlattenSeq concatenates from left to right.
LEMMA FlattenDef ==
  ASSUME NEW s, Len(s) \in Nat \ {0}
  PROVE  \E f : /\ f[1] = s[1] /\ f[Len(s)] = FlattenSeq(s)
                /\ \A i \in 2..Len(s) : f[i] = f[i - 1] \o s[i]
<1> DEFINE L == Len(s)
           Step(i, q) == q \o s[i]
           Sol(k, h) == h = [i \in 1..k |-> IF i = 1 THEN s[i] ELSE Step(i, h[i - 1])]
           T == {k \in Nat : \E h : Sol(k + 1, h)}
<1> HIDE DEF Step
<1>1. 0 \in T
  <2>1. Sol(0 + 1, [i \in 1..1 |-> s[i]])
    OBVIOUS
  <2> QED
    BY <2>1
<1>2. ASSUME NEW k \in Nat, k \in T PROVE k + 1 \in T
  <2>1. PICK f : Sol(k + 1, f)
    BY <1>2
  <2> DEFINE m == (k + 1) + 1
             h == [i \in 1..m |-> IF i <= k + 1 THEN f[i] ELSE Step(i, f[k + 1])]
  <2>2. ASSUME NEW i \in 1..m PROVE h[i] = IF i = 1 THEN s[i] ELSE Step(i, h[i - 1])
    <3>1. CASE i = m
      <4>1. i # 1 /\ i - 1 = k + 1 /\ i - 1 \in 1..m /\ ~(i <= k + 1)
        BY <3>1
      <4>2. h[i] = Step(i, f[k + 1]) /\ h[i - 1] = f[k + 1]
        BY <4>1
      <4> QED
        BY <4>1, <4>2
    <3>2. CASE i = 1
      BY <2>1, <3>2
    <3>3. CASE i \in 2..(k + 1)
      <4>1. i \in 1..(k + 1) /\ i # 1 /\ i - 1 \in 1..m /\ i - 1 <= k + 1 /\ i <= k + 1
        BY <3>3
      <4>2. h[i] = f[i] /\ h[i - 1] = f[i - 1]
        BY <4>1
      <4>3. f[i] = Step(i, f[i - 1])
        BY <2>1, <4>1
      <4> QED
        BY <4>1, <4>2, <4>3
    <3> QED
      BY <3>1, <3>2, <3>3
  <2>3. Sol((k + 1) + 1, h)
    BY <2>2
  <2> HIDE DEF h, Sol
  <2> QED
    BY <2>3
<1>3. \E h : Sol(L, h)
  <2> HIDE DEF T
  <2>1. L - 1 \in Nat /\ (L - 1) + 1 = L
    OBVIOUS
  <2>2. L - 1 \in T
    BY <1>1, <1>2, <2>1, SetInduction
  <2> QED
    BY <2>1, <2>2 DEF T
<1> DEFINE f == CHOOSE h : Sol(L, h)
<1>4. FlattenSeq(s) = f[L]
  BY DEF FlattenSeq, Step
<1>5. Sol(L, f)
  BY <1>3
<1>6. 1 \in 1..L /\ \A i \in 2..L : i \in 1..L /\ i # 1
  OBVIOUS
<1> HIDE DEF f
<1>7. f[1] = s[1] /\ \A i \in 2..L : f[i] = Step(i, f[i - 1])
  <2> HIDE DEF L
  <2> QED
    BY <1>5, <1>6
<1> QED
  BY <1>4, <1>7 DEF Step

\* What is in a concatenation of lists.
LEMMA FlattenRange ==
  ASSUME NEW T, NEW s \in Seq(Seq(T))
  PROVE  /\ FlattenSeq(s) \in Seq(T)
         /\ Range(FlattenSeq(s)) = UNION {Range(s[i]) : i \in DOMAIN s}
<1> DEFINE L == Len(s)
<1>1. L \in Nat /\ DOMAIN s = 1..L /\ \A i \in 1..L : s[i] \in Seq(T)
  BY LenProperties
<1>2. CASE L = 0
  <2>1. s = <<>>
    BY <1>2, EmptySeq
  <2>2. FlattenSeq(<<>>) = <<>>
    <3>1. Len(<<>>) = 0
      BY EmptySeq
    <3> QED
      BY <3>1 DEF FlattenSeq
  <2>3. FlattenSeq(s) = <<>> /\ DOMAIN s = {} /\ Range(<<>>) = {}
    BY <2>1, <2>2 DEF Range
  <2>4. UNION {Range(s[i]) : i \in DOMAIN s} = {}
    BY <2>3
  <2>5. <<>> \in Seq(T)
    OBVIOUS
  <2> QED
    BY <2>3, <2>4, <2>5
<1>3. CASE L # 0
  <2>1. L \in Nat \ {0}
    BY <1>1, <1>3
  <2>2. PICK f : f[1] = s[1] /\ f[L] = FlattenSeq(s) /\ \A i \in 2..L : f[i] = f[i - 1] \o s[i]
    BY <2>1, FlattenDef
  <2> HIDE DEF L
  <2> DEFINE Part(i, q) == q \in Seq(T) /\ Range(q) = UNION {Range(s[j]) : j \in 1..i}
             U == {i \in 0..L : i = 0 \/ Part(i, f[i])}
  <2>3. Part(1, f[1])
    <3>1. 1 \in 1..L /\ 1..1 = {1}
      BY <2>1
    <3> QED
      BY <1>1, <2>2, <3>1
  <2>4. ASSUME NEW i \in 1..L, i - 1 \in U PROVE i \in U
    <3>1. CASE i = 1
      BY <1>1, <2>3, <3>1
    <3>2. CASE i # 1
      <4>1. i \in 2..L /\ i - 1 # 0
        BY <1>1, <3>2
      <4>2. Part(i - 1, f[i - 1]) /\ s[i] \in Seq(T)
        BY <1>1, <2>4, <4>1
      <4>3. f[i] = f[i - 1] \o s[i]
        BY <2>2, <4>1
      <4>4. f[i] \in Seq(T) /\ Range(f[i]) = Range(f[i - 1]) \cup Range(s[i])
        BY <4>2, <4>3, ConcatProperties, RangeConcatenation
      <4>5. \A j : j \in 1..i <=> j \in 1..(i - 1) \/ j = i
        BY <1>1
      <4>6. UNION {Range(s[j]) : j \in 1..i} = (UNION {Range(s[j]) : j \in 1..(i - 1)}) \cup Range(s[i])
        <5> DEFINE A == UNION {Range(s[j]) : j \in 1..i}
                   B == UNION {Range(s[j]) : j \in 1..(i - 1)}
        <5>1. \A x : x \in A <=> \E j \in 1..i : x \in Range(s[j])
          OBVIOUS
        <5>2. \A x : x \in B <=> \E j \in 1..(i - 1) : x \in Range(s[j])
          OBVIOUS
        <5> HIDE DEF A, B
        <5>3. \A x : x \in A <=> x \in B \/ x \in Range(s[i])
          BY <4>5, <5>1, <5>2
        <5> QED
          BY <5>3 DEF A, B
      <4>7. Part(i, f[i])
        BY <4>2, <4>4, <4>6
      <4> HIDE DEF Part
      <4> QED
        BY <1>1, <4>7
    <3> QED
      BY <3>1, <3>2
  <2>5. L \in U
    <3>0. L \in Nat
      BY <2>1
    <3>1. 0 \in U
      BY <3>0
    <3>4. \A i \in 1..L : i - 1 \in U => i \in U
      BY <2>4
    <3> HIDE DEF U
    <3>2. 0..L \subseteq U
      BY <3>0, <3>1, <3>4, UpToInduction
    <3>3. L \in 0..L
      BY <3>0
    <3> QED
      BY <3>2, <3>3
  <2>6. Part(L, f[L])
    BY <1>3, <2>5 DEF L
  <2> QED
    BY <1>1, <2>2, <2>6
<1> QED
  BY <1>2, <1>3

\* A list all of which is kept stays as it is.
LEMMA OnlyAll ==
  ASSUME NEW T, NEW s \in Seq(T), NEW P, Range(s) \subseteq P
  PROVE  Only(s, P) = s
<1> DEFINE L == Len(s)
           k == Kept(s, P)
           Part(i, q) == q \in Seq(T) /\ Len(q) = i /\ \A j \in 1..i : q[j] = s[j]
           U == {i \in 0..L : Part(i, k[i])}
<1>0. L \in Nat /\ \A i \in 1..L : s[i] \in T /\ s[i] \in P
  BY DEF Range
<1>1. k[0] = <<>> /\ \A i \in 1..L : k[i] = Append(k[i - 1], s[i])
  <2>1. k = [i \in 0..L |-> IF i = 0 THEN <<>>
               ELSE IF s[i] \in P THEN Append(k[i - 1], s[i]) ELSE k[i - 1]]
    BY <1>0, KeptDef
  <2> HIDE DEF k, L
  <2>2. 0 \in 0..L /\ \A i \in 1..L : i \in 0..L /\ i # 0
    BY <1>0
  <2> QED
    BY <1>0, <2>1, <2>2
<1>2. Only(s, P) = k[L]
  BY DEF Only
<1> HIDE DEF k, L
<1>3. 0 \in U
  <2>1. Part(0, k[0])
    <3>1. Len(<<>>) = 0 /\ <<>> \in Seq(T)
      BY EmptySeq
    <3> QED
      BY <1>1, <3>1
  <2> HIDE DEF Part
  <2> QED
    BY <1>0, <2>1
<1>4. ASSUME NEW i \in 1..L, i - 1 \in U PROVE i \in U
  <2> DEFINE q == k[i - 1]
  <2>1. q \in Seq(T) /\ Len(q) = i - 1 /\ \A j \in 1..(i - 1) : q[j] = s[j]
    BY <1>4
  <2>2. k[i] = Append(q, s[i]) /\ s[i] \in T
    BY <1>0, <1>1
  <2> HIDE DEF q
  <2>3. /\ k[i] \in Seq(T) /\ Len(k[i]) = i
        /\ \A j \in 1..i : k[i][j] = s[j]
    BY <1>0, <2>1, <2>2, AppendProperties
  <2> QED
    BY <1>0, <2>3
<1>5. L \in U
  <2> HIDE DEF U
  <2>1. 0..L \subseteq U
    BY <1>0, <1>3, <1>4, UpToInduction
  <2> QED
    BY <1>0, <2>1
<1>6. k[L] \in Seq(T) /\ Len(k[L]) = L /\ \A j \in 1..L : k[L][j] = s[j]
  BY <1>5
<1> DEFINE o == k[L]
<1> HIDE DEF o
<1>7. o = s
  BY <1>6, SeqEqual DEF o, L
<1> QED
  BY <1>2, <1>7 DEF o

\* The last of a list is one of it.
LEMMA LastOf ==
  ASSUME NEW T, NEW s \in Seq(T), s # <<>>
  PROVE  Last(s) = s[Len(s)] /\ Len(s) \in 1..Len(s) /\ Last(s) \in Range(s)
BY DEF Last, Range

LEMMA ReverseOf ==
  ASSUME NEW T, NEW s \in Seq(T)
  PROVE  /\ Reverse(s) \in Seq(T) /\ Len(Reverse(s)) = Len(s)
         /\ \A i \in 1..Len(s) : Reverse(s)[i] = s[Len(s) - i + 1]
         /\ Range(Reverse(s)) = Range(s)
<1> DEFINE L == Len(s)
           t == Reverse(s)
<1>1. L \in Nat /\ DOMAIN s = 1..L /\ \A i \in 1..L : s[i] \in T
  OBVIOUS
<1>2. t = [i \in 1..L |-> s[L - i + 1]]
  BY DEF Reverse
<1>3. \A i \in 1..L : L - i + 1 \in 1..L
  BY <1>1
<1>4. t \in Seq(T) /\ Len(t) = L /\ DOMAIN t = 1..L
  <2>1. t \in [1..L -> T]
    BY <1>1, <1>2, <1>3
  <2> HIDE DEF t, L
  <2> QED
    BY <1>1, <2>1
<1>5. \A i \in 1..L : t[i] = s[L - i + 1]
  BY <1>2
<1> HIDE DEF t, L
<1>6. Range(t) = Range(s)
  <2>1. \A x \in Range(t) : x \in Range(s)
    BY <1>1, <1>3, <1>4, <1>5 DEF Range
  <2>2. ASSUME NEW i \in 1..L PROVE s[i] \in Range(t)
    <3>1. L - i + 1 \in 1..L /\ L - (L - i + 1) + 1 = i
      BY <1>1
    <3>2. t[L - i + 1] = s[i]
      BY <1>5, <3>1
    <3> QED
      BY <1>4, <3>1, <3>2 DEF Range
  <2> QED
    BY <1>1, <2>1, <2>2 DEF Range
<1> QED
  BY <1>4, <1>5, <1>6 DEF t, L

\* R: the pairs that may follow each other in this order.
Ordered(s, R) == \A a, b \in DOMAIN s : a < b => <<s[a], s[b]>> \in R

\* Two ordered lists, one after the other.
LEMMA ConcatOrdered ==
  ASSUME NEW T, NEW s \in Seq(T), NEW t \in Seq(T), NEW R, Ordered(s, R), Ordered(t, R),
         \A x \in Range(s), y \in Range(t) : <<x, y>> \in R
  PROVE  Ordered(s \o t, R)
<1> DEFINE u == s \o t
<1>1. /\ Len(s) \in Nat /\ Len(t) \in Nat /\ Len(u) = Len(s) + Len(t)
      /\ DOMAIN u = 1..(Len(s) + Len(t))
      /\ \A i \in 1..Len(s) : u[i] = s[i] /\ i \in DOMAIN s
      /\ \A i \in DOMAIN u : i > Len(s) => u[i] = t[i - Len(s)] /\ i - Len(s) \in DOMAIN t
  BY ConcatProperties
<1> HIDE DEF u
<1> SUFFICES ASSUME NEW a \in DOMAIN u, NEW b \in DOMAIN u, a < b PROVE <<u[a], u[b]>> \in R
  BY DEF Ordered, u
<1>2. CASE b <= Len(s)
  <2>1. a \in DOMAIN s /\ b \in DOMAIN s /\ u[a] = s[a] /\ u[b] = s[b]
    BY <1>1, <1>2
  <2> QED
    BY <2>1 DEF Ordered
<1>3. CASE a <= Len(s) /\ b > Len(s)
  <2>1. u[a] = s[a] /\ a \in DOMAIN s /\ u[b] = t[b - Len(s)] /\ b - Len(s) \in DOMAIN t
    BY <1>1, <1>3
  <2>2. u[a] \in Range(s) /\ u[b] \in Range(t)
    BY <2>1 DEF Range
  <2> QED
    BY <2>2
<1>4. CASE a > Len(s)
  <2>1. /\ u[a] = t[a - Len(s)] /\ u[b] = t[b - Len(s)] /\ a - Len(s) < b - Len(s)
        /\ a - Len(s) \in DOMAIN t /\ b - Len(s) \in DOMAIN t
    BY <1>1, <1>4
  <2> QED
    BY <2>1 DEF Ordered
<1> QED
  BY <1>1, <1>2, <1>3, <1>4

\* Ordered lists whose entries are in order, one after the other.
LEMMA FlattenOrdered ==
  ASSUME NEW T, NEW s \in Seq(Seq(T)), NEW R, \A i \in DOMAIN s : Ordered(s[i], R),
         \A i, j \in DOMAIN s : i < j => \A x \in Range(s[i]), y \in Range(s[j]) : <<x, y>> \in R
  PROVE  Ordered(FlattenSeq(s), R)
<1> DEFINE L == Len(s)
<1>1. L \in Nat /\ DOMAIN s = 1..L /\ \A i \in 1..L : s[i] \in Seq(T)
  BY LenProperties
<1>2. CASE L = 0
  <2>1. s = <<>>
    BY <1>2, EmptySeq
  <2>2. FlattenSeq(<<>>) = <<>>
    <3>1. Len(<<>>) = 0
      BY EmptySeq
    <3> QED
      BY <3>1 DEF FlattenSeq
  <2> QED
    BY <2>1, <2>2 DEF Ordered
<1>3. CASE L # 0
  <2>1. L \in Nat \ {0}
    BY <1>1, <1>3
  <2>2. PICK f : f[1] = s[1] /\ f[L] = FlattenSeq(s) /\ \A i \in 2..L : f[i] = f[i - 1] \o s[i]
    BY <2>1, FlattenDef
  <2> HIDE DEF L
  <2> DEFINE Part(i, q) == /\ q \in Seq(T) /\ Ordered(q, R)
                           /\ \A x \in Range(q) : \E j \in 1..i : x \in Range(s[j])
             U == {i \in 0..L : i = 0 \/ Part(i, f[i])}
  <2>3. Part(1, f[1])
    <3>1. 1 \in 1..L /\ 1 \in 1..1
      BY <2>1
    <3> QED
      BY <1>1, <2>2, <3>1
  <2>4. ASSUME NEW i \in 1..L, i - 1 \in U PROVE i \in U
    <3>1. CASE i = 1
      BY <1>1, <2>3, <3>1
    <3>2. CASE i # 1
      <4>1. i \in 2..L /\ i - 1 # 0
        BY <1>1, <3>2
      <4> DEFINE q == f[i - 1]
                 last == s[i]
      <4>2. Part(i - 1, q) /\ last \in Seq(T) /\ Ordered(last, R)
        BY <1>1, <2>4, <4>1
      <4>3. f[i] = q \o last
        BY <2>2, <4>1
      <4>4. ASSUME NEW x \in Range(q), NEW y \in Range(last) PROVE <<x, y>> \in R
        <5>1. PICK j \in 1..(i - 1) : x \in Range(s[j])
          BY <4>2
        <5>2. j \in DOMAIN s /\ i \in DOMAIN s /\ j < i
          BY <1>1
        <5> QED
          BY <5>1, <5>2
      <4> HIDE DEF q, last
      <4>5. f[i] \in Seq(T) /\ Ordered(f[i], R) /\ Range(f[i]) = Range(q) \cup Range(last)
        BY <4>2, <4>3, <4>4, ConcatProperties, ConcatOrdered, RangeConcatenation
      <4>6. ASSUME NEW x \in Range(f[i]) PROVE \E j \in 1..i : x \in Range(s[j])
        <5>1. CASE x \in Range(q)
          <6>1. PICK j \in 1..(i - 1) : x \in Range(s[j])
            BY <4>2, <5>1
          <6>2. j \in 1..i
            BY <1>1
          <6> QED
            BY <6>1, <6>2
        <5>2. CASE x \in Range(last)
          <6>1. i \in 1..i
            BY <1>1
          <6> QED
            BY <5>2, <6>1 DEF last
        <5> QED
          BY <4>5, <4>6, <5>1, <5>2
      <4>7. Part(i, f[i])
        BY <4>5, <4>6
      <4> HIDE DEF Part
      <4> QED
        BY <1>1, <4>7
    <3> QED
      BY <3>1, <3>2
  <2>5. L \in U
    <3>0. L \in Nat
      BY <2>1
    <3>1. 0 \in U
      BY <3>0
    <3>2. \A i \in 1..L : i - 1 \in U => i \in U
      BY <2>4
    <3> HIDE DEF U
    <3>3. 0..L \subseteq U
      BY <3>0, <3>1, <3>2, UpToInduction
    <3>4. L \in 0..L
      BY <3>0
    <3> QED
      BY <3>3, <3>4
  <2>6. Part(L, f[L])
    BY <1>3, <2>5 DEF L
  <2> QED
    BY <2>2, <2>6
<1> QED
  BY <1>2, <1>3

\* What is kept of an ordered list is ordered.
LEMMA OnlyOrdered ==
  ASSUME NEW T, NEW s \in Seq(T), NEW P, NEW R, Ordered(s, R)
  PROVE  Ordered(Only(s, P), R)
<1> DEFINE o == Only(s, P)
<1>1. o \in Seq(T)
  BY OnlyEmbeds
<1>2. PICK e \in [1..Len(o) -> 1..Len(s)] :
        /\ \A a, b \in 1..Len(o) : a < b => e[a] < e[b]
        /\ \A a \in 1..Len(o) : o[a] = s[e[a]] /\ s[e[a]] \in P
  BY OnlyEmbeds
<1> HIDE DEF o
<1>3. DOMAIN o = 1..Len(o) /\ DOMAIN s = 1..Len(s)
  BY <1>1
<1>4. \A a, b \in DOMAIN o : a < b => <<o[a], o[b]>> \in R
  BY <1>2, <1>3 DEF Ordered
<1> QED
  BY <1>4 DEF Ordered, o
============================================================================

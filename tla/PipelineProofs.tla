---------------------------- MODULE PipelineProofs ----------------------------
(***************************************************************************)
(* The proofs about pipelines: closures and topological order of a graph,  *)
(* its procedures and bands, the graphs of the Builder (PipelineCompile),  *)
(* and the step cache that overlapping previews share (StepPreview).       *)
(***************************************************************************)
EXTENDS StepPreview, PipelineCompile, ListProofs
----------------------------------------------------------------------------
(* Graphs and their closures *)

\* What the lemmas on graphs need: the nodes are listed once, and read listed ones.
Wired(g) == Listed(g) /\ \A n \in Ids(g) : InputsOf(g, n) \subseteq Ids(g)

\* A set of nodes with all they read.
Closed(g, S) == \A m \in S \cap Ids(g) : InputsOf(g, m) \subseteq S

\* The recursive definition of the closure has the solution it describes.
LEMMA ReachedDef ==
  ASSUME NEW g, Len(g.order) \in Nat, NEW n
  PROVE  /\ Reached(g, n)[0] = {n}
         /\ \A i \in 1..Len(g.order) :
              Reached(g, n)[i] = Reached(g, n)[i - 1]
                \cup UNION {InputsOf(g, m) : m \in Reached(g, n)[i - 1] \cap Ids(g)}
<1> DEFINE L == Len(g.order)
           Step(q) == q \cup UNION {InputsOf(g, m) : m \in q \cap Ids(g)}
           Sol(k, h) == h = [i \in 0..k |-> IF i = 0 THEN {n} ELSE Step(h[i - 1])]
           T == {k \in Nat : \E h : Sol(k, h)}
<1> HIDE DEF Step
<1>1. 0 \in T
  <2>1. Sol(0, [i \in 0..0 |-> {n}])
    OBVIOUS
  <2> QED
    BY <2>1
<1>2. ASSUME NEW k \in Nat, k \in T PROVE k + 1 \in T
  <2>1. PICK h : Sol(k, h)
    BY <1>2
  <2> DEFINE f == [i \in 0..k+1 |-> IF i <= k THEN h[i] ELSE Step(h[k])]
  <2>2. ASSUME NEW i \in 0..k+1 PROVE f[i] = IF i = 0 THEN {n} ELSE Step(f[i - 1])
    <3>1. CASE i = k + 1
      BY <3>1
    <3>2. CASE i = 0
      BY <2>1, <3>2
    <3>3. CASE i \in 1..k
      <4>1. f[i] = h[i] /\ f[i - 1] = h[i - 1]
        BY <3>3
      <4>2. i \in 0..k /\ i # 0
        BY <3>3
      <4>3. h[i] = Step(h[i - 1])
        BY <2>1, <4>2
      <4> QED
        BY <3>3, <4>1, <4>3
    <3> QED
      BY <3>1, <3>2, <3>3
  <2>3. Sol(k + 1, f)
    BY <2>2
  <2> HIDE DEF f, Sol
  <2> QED
    BY <2>3
<1>3. \E h : Sol(L, h)
  <2> HIDE DEF T
  <2>1. L \in T
    BY <1>1, <1>2, SetInduction
  <2> QED
    BY <2>1 DEF T
<1>4. Reached(g, n) = CHOOSE h : Sol(L, h)
  BY DEF Reached, Step
<1>5. Sol(L, Reached(g, n))
  BY <1>3, <1>4
<1>6. 0 \in 0..L /\ \A i \in 1..L : i \in 0..L /\ i # 0
  OBVIOUS
<1> HIDE DEF L
<1>7. Reached(g, n)[0] = {n} /\ \A i \in 1..L : Reached(g, n)[i] = Step(Reached(g, n)[i - 1])
  BY <1>5, <1>6
<1> QED
  BY <1>7 DEF Step, L

\* A pipeline lists as many nodes as it has.
LEMMA WiredSize ==
  ASSUME NEW g, Wired(g)
  PROVE  /\ IsFiniteSet(Ids(g)) /\ Cardinality(Ids(g)) = Len(g.order)
         /\ Len(g.order) \in Nat
<1>1. g.order \in Seq(Ids(g)) /\ Range(g.order) = Ids(g) /\ IsInjective(g.order)
  BY DEF Wired, Listed
<1> QED
  BY <1>1, RangeFinite

\* The ancestors of a node are the least closed set it is in.
LEMMA AncestorsClosed ==
  ASSUME NEW g, Wired(g), NEW n \in Ids(g)
  PROVE  /\ n \in Ancestors(g, n) /\ Ancestors(g, n) \subseteq Ids(g)
         /\ Closed(g, Ancestors(g, n))
<1> DEFINE L == Len(g.order)
           R == Reached(g, n)
           Grows(i, Q) == /\ n \in Q /\ Q \subseteq Ids(g)
                          /\ Closed(g, Q) \/ Cardinality(Q) >= i + 1
           U == {i \in 0..L : Grows(i, R[i])}
<1>0. L \in Nat /\ IsFiniteSet(Ids(g)) /\ Cardinality(Ids(g)) = L
  BY WiredSize
<1>1. /\ R[0] = {n}
      /\ \A i \in 1..L : R[i] = R[i - 1] \cup UNION {InputsOf(g, m) : m \in R[i - 1] \cap Ids(g)}
  BY <1>0, ReachedDef
<1> HIDE DEF L, R
<1>2. 0 \in U
  <2>1. Cardinality({n}) = 1
    BY FS_Singleton
  <2> QED
    BY <1>0, <1>1, <2>1
<1>3. ASSUME NEW i \in 1..L, i - 1 \in U PROVE i \in U
  <2> DEFINE Q == R[i - 1]
             W == R[i]
  <2>0. i \in 0..L /\ i \in Nat /\ i - 1 + 1 = i
    BY <1>0
  <2>1. n \in Q /\ Q \subseteq Ids(g) /\ (Closed(g, Q) \/ Cardinality(Q) >= i)
    BY <1>3, <2>0
  <2>2. W = Q \cup UNION {InputsOf(g, m) : m \in Q \cap Ids(g)}
    BY <1>1
  <2> HIDE DEF Q
  <2>3. n \in W /\ W \subseteq Ids(g)
    BY <2>1, <2>2 DEF Wired
  <2>4. ASSUME Closed(g, Q) PROVE Closed(g, W)
    <3>1. W = Q
      BY <2>2, <2>4 DEF Closed
    <3> QED
      BY <2>4, <3>1
  <2>5. ASSUME ~Closed(g, Q), Cardinality(Q) >= i PROVE Cardinality(W) >= i + 1
    <3>1. Q \subseteq W /\ Q # W
      BY <2>2, <2>5 DEF Closed
    <3>2. IsFiniteSet(W)
      BY <1>0, <2>3, FS_Subset
    <3>3. /\ IsFiniteSet(Q) /\ Cardinality(Q) <= Cardinality(W)
          /\ Cardinality(W) = Cardinality(Q) => W = Q
      BY <3>1, <3>2, FS_Subset
    <3>4. Cardinality(W) \in Nat /\ Cardinality(Q) \in Nat
      BY <3>2, <3>3, FS_CardinalityType
    <3> QED
      BY <3>1, <3>3, <3>4, <2>5, <2>0
  <2>6. Grows(i, W)
    BY <2>1, <2>3, <2>4, <2>5
  <2> HIDE DEF Grows
  <2> QED
    BY <2>0, <2>6
<1>4. L \in U
  <2> HIDE DEF U
  <2>1. 0..L \subseteq U
    BY <1>0, <1>2, <1>3, UpToInduction
  <2> QED
    BY <1>0, <2>1
<1>5. Ancestors(g, n) = R[L]
  BY DEF Ancestors, R, L
<1>6. n \in R[L] /\ R[L] \subseteq Ids(g)
  BY <1>4
<1>7. Closed(g, R[L])
  <2>1. Cardinality(R[L]) <= L /\ Cardinality(R[L]) \in Nat
    BY <1>0, <1>6, FS_Subset, FS_CardinalityType
  <2> QED
    BY <1>0, <1>4, <2>1
<1> QED
  BY <1>5, <1>6, <1>7

\* Nothing but what n reads, directly or not, is in the closure of n.
LEMMA AncestorsLeast ==
  ASSUME NEW g, Len(g.order) \in Nat, NEW n, NEW C, n \in C, Closed(g, C)
  PROVE  Ancestors(g, n) \subseteq C
<1> DEFINE L == Len(g.order)
           R == Reached(g, n)
           U == {i \in 0..L : R[i] \subseteq C}
<1>1. /\ R[0] = {n}
      /\ \A i \in 1..L : R[i] = R[i - 1] \cup UNION {InputsOf(g, m) : m \in R[i - 1] \cap Ids(g)}
  BY ReachedDef
<1>0. L \in Nat
  OBVIOUS
<1> HIDE DEF L, R
<1>2. 0 \in U
  BY <1>0, <1>1
<1>3. ASSUME NEW i \in 1..L, i - 1 \in U PROVE i \in U
  <2>1. R[i - 1] \subseteq C /\ i \in 0..L
    BY <1>0, <1>3
  <2>2. R[i] = R[i - 1] \cup UNION {InputsOf(g, m) : m \in R[i - 1] \cap Ids(g)}
    BY <1>1
  <2>3. R[i] \subseteq C
    BY <2>1, <2>2 DEF Closed
  <2> QED
    BY <2>1, <2>3
<1>4. L \in U
  <2> HIDE DEF U
  <2>1. 0..L \subseteq U
    BY <1>0, <1>2, <1>3, UpToInduction
  <2> QED
    BY <1>0, <2>1
<1> QED
  BY <1>4 DEF Ancestors, R, L

\* A node's ancestors are the node and those of its inputs.
LEMMA AncestorsOfInputs ==
  ASSUME NEW g, Wired(g), NEW n \in Ids(g)
  PROVE  Ancestors(g, n) = {n} \cup UNION {Ancestors(g, m) : m \in InputsOf(g, n)}
<1> DEFINE C == {n} \cup UNION {Ancestors(g, m) : m \in InputsOf(g, n)}
<1>0. Len(g.order) \in Nat /\ InputsOf(g, n) \subseteq Ids(g)
  BY WiredSize DEF Wired
<1>1. \A m \in InputsOf(g, n) : m \in Ancestors(g, m) /\ Closed(g, Ancestors(g, m))
  BY <1>0, AncestorsClosed
<1>2. Closed(g, C)
  <2> SUFFICES ASSUME NEW k \in C \cap Ids(g) PROVE InputsOf(g, k) \subseteq C
    BY DEF Closed
  <2>1. CASE k = n
    BY <2>1, <1>1
  <2>2. CASE k # n
    <3>1. PICK m \in InputsOf(g, n) : k \in Ancestors(g, m)
      BY <2>2
    <3>2. InputsOf(g, k) \subseteq Ancestors(g, m)
      BY <3>1, <1>1 DEF Closed
    <3> QED
      BY <3>2
  <2> QED
    BY <2>1, <2>2
<1>3. Ancestors(g, n) \subseteq C
  BY <1>0, <1>2, AncestorsLeast
<1>4. ASSUME NEW m \in InputsOf(g, n) PROVE Ancestors(g, m) \subseteq Ancestors(g, n)
  <2>1. n \in Ancestors(g, n) /\ Closed(g, Ancestors(g, n))
    BY AncestorsClosed
  <2>2. m \in Ancestors(g, n)
    BY <2>1 DEF Closed
  <2> QED
    BY <1>0, <2>1, <2>2, AncestorsLeast
<1>5. n \in Ancestors(g, n)
  BY AncestorsClosed
<1> QED
  BY <1>3, <1>4, <1>5

\* In a graph without cycles every non-empty set has a node that reads none of it.
LEMMA FirstOfSet ==
  ASSUME NEW g, Wired(g), Acyclic(g), NEW S, S \subseteq Ids(g), S # {}
  PROVE  \E n \in S : InputsOf(g, n) \cap S = {}
<1> DEFINE size(n) == Cardinality(Ancestors(g, n))
           Sizes == {size(n) : n \in S}
<1>1. \A n \in Ids(g) : /\ IsFiniteSet(Ancestors(g, n)) /\ size(n) \in Nat
  <2> TAKE n \in Ids(g)
  <2>1. Ancestors(g, n) \subseteq Ids(g) /\ IsFiniteSet(Ids(g))
    BY AncestorsClosed, WiredSize
  <2> QED
    BY <2>1, FS_Subset, FS_CardinalityType
<1>2. Sizes \subseteq Nat /\ Sizes # {}
  BY <1>1
<1>3. PICK k \in Sizes : \A j \in Sizes : k <= j
  <2> HIDE DEF Sizes
  <2> QED
    BY <1>2, LeastNat
<1>4. PICK n \in S : size(n) = k
  OBVIOUS
<1>5. ASSUME NEW m \in InputsOf(g, n) \cap S PROVE FALSE
  <2>1. n \notin Ancestors(g, m) /\ n \in Ancestors(g, n)
    BY AncestorsClosed DEF Acyclic
  <2>2. Ancestors(g, m) \subseteq Ancestors(g, n)
    BY AncestorsOfInputs
  <2>3. /\ size(m) <= size(n)
        /\ size(n) = size(m) => Ancestors(g, n) = Ancestors(g, m)
    BY <1>1, <2>2, FS_Subset
  <2>4. size(n) <= size(m)
    BY <1>3, <1>4
  <2>5. size(n) \in Nat /\ size(m) \in Nat
    BY <1>1
  <2> QED
    BY <2>1, <2>3, <2>4, <2>5
<1> QED
  BY <1>5

\* The nodes that the emission of n makes ready, each once.
LEMMA FreedNodes ==
  ASSUME NEW g, Wired(g), NEW n, NEW out
  PROVE  /\ Freed(g, n, out) \in Seq(Ids(g)) /\ IsInjective(Freed(g, n, out))
         /\ Range(Freed(g, n, out)) =
              {c \in Ids(g) : n \in InputsOf(g, c) /\ InputsOf(g, c) \subseteq Range(out)}
<1>1. g.order \in Seq(Ids(g)) /\ Range(g.order) = Ids(g) /\ IsInjective(g.order)
  BY DEF Wired, Listed
<1> DEFINE P == {c \in Ids(g) : n \in InputsOf(g, c) /\ InputsOf(g, c) \subseteq Range(out)}
<1>2. P \subseteq Ids(g) /\ Freed(g, n, out) = Only(g.order, P)
  BY DEF Freed
<1> HIDE DEF P
<1>3. Ids(g) \cap P = P
  BY <1>2
<1>4. /\ Only(g.order, P) \in Seq(Ids(g)) /\ IsInjective(Only(g.order, P))
      /\ Range(Only(g.order, P)) = Range(g.order) \cap P
  BY <1>1, OnlyRange
<1> QED
  BY <1>1, <1>2, <1>3, <1>4 DEF P

\* The rounds of Kahn's algorithm, one by one.
LEMMA KahnDef ==
  ASSUME NEW g, Len(g.order) \in Nat
  PROVE  /\ Kahn(g)[0] = [ready |-> Only(g.order, {n \in Ids(g) : InputsOf(g, n) = {}}),
                          out |-> <<>>]
         /\ \A i \in 1..Len(g.order) : LET before == Kahn(g)[i - 1] IN
              Kahn(g)[i] =
                IF before.ready = <<>> THEN before
                ELSE [ready |-> Tail(before.ready)
                                  \o Freed(g, Head(before.ready), Append(before.out, Head(before.ready))),
                      out |-> Append(before.out, Head(before.ready))]
<1> DEFINE L == Len(g.order)
           Start == [ready |-> Only(g.order, {n \in Ids(g) : InputsOf(g, n) = {}}), out |-> <<>>]
           Step(q) == IF q.ready = <<>> THEN q
                      ELSE [ready |-> Tail(q.ready)
                                        \o Freed(g, Head(q.ready), Append(q.out, Head(q.ready))),
                            out |-> Append(q.out, Head(q.ready))]
           Sol(k, h) == h = [i \in 0..k |-> IF i = 0 THEN Start ELSE Step(h[i - 1])]
           T == {k \in Nat : \E h : Sol(k, h)}
<1> HIDE DEF Step, Start
<1>1. 0 \in T
  <2>1. Sol(0, [i \in 0..0 |-> Start])
    OBVIOUS
  <2> QED
    BY <2>1
<1>2. ASSUME NEW k \in Nat, k \in T PROVE k + 1 \in T
  <2>1. PICK h : Sol(k, h)
    BY <1>2
  <2> DEFINE f == [i \in 0..k+1 |-> IF i <= k THEN h[i] ELSE Step(h[k])]
  <2>2. ASSUME NEW i \in 0..k+1 PROVE f[i] = IF i = 0 THEN Start ELSE Step(f[i - 1])
    <3>1. CASE i = k + 1
      BY <3>1
    <3>2. CASE i = 0
      BY <2>1, <3>2
    <3>3. CASE i \in 1..k
      <4>1. f[i] = h[i] /\ f[i - 1] = h[i - 1]
        BY <3>3
      <4>2. i \in 0..k /\ i # 0
        BY <3>3
      <4>3. h[i] = Step(h[i - 1])
        BY <2>1, <4>2
      <4> QED
        BY <3>3, <4>1, <4>3
    <3> QED
      BY <3>1, <3>2, <3>3
  <2>3. Sol(k + 1, f)
    BY <2>2
  <2> HIDE DEF f, Sol
  <2> QED
    BY <2>3
<1>3. \E h : Sol(L, h)
  <2> HIDE DEF T
  <2>1. L \in T
    BY <1>1, <1>2, SetInduction
  <2> QED
    BY <2>1 DEF T
<1>4. Kahn(g) = CHOOSE h : Sol(L, h)
  BY DEF Kahn, Step, Start
<1>5. Sol(L, Kahn(g))
  BY <1>3, <1>4
<1>6. 0 \in 0..L /\ \A i \in 1..L : i \in 0..L /\ i # 0
  OBVIOUS
<1> HIDE DEF L
<1>7. Kahn(g)[0] = Start /\ \A i \in 1..L : Kahn(g)[i] = Step(Kahn(g)[i - 1])
  BY <1>5, <1>6
<1> QED
  BY <1>7 DEF Step, L, Start
----------------------------------------------------------------------------
(* The topological order *)

\* In list out every node comes after those it reads.
AfterInputs(g, out) ==
  \A j \in 1..Len(out) : InputsOf(g, out[j]) \subseteq {out[k] : k \in 1..(j - 1)}

\* After i rounds of Kahn's algorithm: a node is ready or emitted when all it
\* reads is emitted, and no node is there twice.
Rounds(g, i, q) ==
  /\ q.out \in Seq(Ids(g)) /\ q.ready \in Seq(Ids(g))
  /\ IsInjective(q.out) /\ IsInjective(q.ready) /\ Range(q.out) \cap Range(q.ready) = {}
  /\ \A c \in Ids(g) : c \in Range(q.out) \cup Range(q.ready) <=> InputsOf(g, c) \subseteq Range(q.out)
  /\ AfterInputs(g, q.out)
  /\ q.ready = <<>> \/ Len(q.out) = i

\* Before the first round, the nodes without inputs are ready.
LEMMA KahnStarts ==
  ASSUME NEW g, Wired(g)
  PROVE  Rounds(g, 0, Kahn(g)[0])
<1> DEFINE P == {n \in Ids(g) : InputsOf(g, n) = {}}
           q == [ready |-> Only(g.order, P), out |-> <<>>]
<1>1. g.order \in Seq(Ids(g)) /\ Range(g.order) = Ids(g) /\ IsInjective(g.order)
  BY DEF Wired, Listed
<1>2. Kahn(g)[0] = q
  BY KahnDef, WiredSize
<1>3. P \subseteq Ids(g)
  OBVIOUS
<1>4. \A c \in Ids(g) : c \in P <=> InputsOf(g, c) \subseteq {}
  OBVIOUS
<1> HIDE DEF P
<1>5. /\ q.ready \in Seq(Ids(g)) /\ IsInjective(q.ready)
      /\ Range(q.ready) = Range(g.order) \cap P
  BY <1>1, OnlyRange
<1>6. /\ q.out = <<>> /\ q.out \in Seq(Ids(g)) /\ Len(q.out) = 0 /\ Range(q.out) = {}
      /\ IsInjective(q.out)
  BY DEF Range, IsInjective
<1> HIDE DEF q
<1>7. \A c \in Ids(g) : c \in Range(q.out) \cup Range(q.ready) <=> InputsOf(g, c) \subseteq Range(q.out)
  BY <1>1, <1>3, <1>4, <1>5, <1>6
<1>8. AfterInputs(g, q.out)
  BY <1>6 DEF AfterInputs
<1>9. Rounds(g, 0, q)
  BY <1>5, <1>6, <1>7, <1>8 DEF Rounds
<1> QED
  BY <1>2, <1>9

\* A round emits one ready node and finds those that become ready by it.
LEMMA KahnGoesOn ==
  ASSUME NEW g, Wired(g), NEW i \in Nat, NEW q, Rounds(g, i, q), q.ready # <<>>,
         NEW n, n = Head(q.ready), NEW out, out = Append(q.out, n)
  PROVE  Rounds(g, i + 1, [ready |-> Tail(q.ready) \o Freed(g, n, out), out |-> out])
<1> DEFINE I(c) == InputsOf(g, c)
           t == Tail(q.ready)
           f == Freed(g, n, out)
           ready == t \o f
<1>0. /\ q.out \in Seq(Ids(g)) /\ q.ready \in Seq(Ids(g))
      /\ IsInjective(q.out) /\ IsInjective(q.ready) /\ Range(q.out) \cap Range(q.ready) = {}
      /\ \A c \in Ids(g) : c \in Range(q.out) \cup Range(q.ready) <=> I(c) \subseteq Range(q.out)
      /\ \A j \in 1..Len(q.out) : I(q.out[j]) \subseteq {q.out[k] : k \in 1..(j - 1)}
      /\ Len(q.out) = i
  BY DEF Rounds, AfterInputs
<1>1. /\ t \in Seq(Ids(g)) /\ IsInjective(t) /\ n \in Range(q.ready)
      /\ Range(t) = Range(q.ready) \ {n}
  BY <1>0, TailOnce
<1>2. n \in Ids(g)
  BY <1>0, <1>1, RangeOfSeq
<1>3. /\ out \in Seq(Ids(g)) /\ IsInjective(out) /\ Range(out) = Range(q.out) \cup {n}
  BY <1>0, <1>1, <1>2, AppendRange, AppendOnce
<1>4. /\ f \in Seq(Ids(g)) /\ IsInjective(f)
      /\ Range(f) = {c \in Ids(g) : n \in I(c) /\ I(c) \subseteq Range(out)}
  BY FreedNodes
<1> HIDE DEF t, f, ready
<1>5. \A c \in Range(f) : c \notin Range(q.out) \cup Range(q.ready)
  <2> SUFFICES ASSUME NEW c \in Range(f), I(c) \subseteq Range(q.out) PROVE FALSE
    BY <1>0, <1>4
  <2> QED
    BY <1>0, <1>1, <1>4
<1>6. ready \in Seq(Ids(g)) /\ Range(ready) = Range(t) \cup Range(f)
  BY <1>1, <1>4, ConcatProperties, RangeConcatenation DEF ready
<1>7. IsInjective(ready)
  <2>1. Range(t) \cap Range(f) = {}
    BY <1>1, <1>5
  <2> QED
    BY <2>1, <1>1, <1>4, ConcatOnce DEF ready
<1>8. Range(out) \cap Range(ready) = {}
  <2>1. n \notin Range(f)
    BY <1>1, <1>5
  <2> QED
    BY <2>1, <1>0, <1>1, <1>3, <1>5, <1>6
<1>9. ASSUME NEW c \in Ids(g)
      PROVE  c \in Range(out) \cup Range(ready) <=> I(c) \subseteq Range(out)
  <2>1. c \in Range(out) \cup Range(ready) <=> c \in Range(q.out) \cup Range(q.ready) \cup Range(f)
    BY <1>1, <1>3, <1>6
  <2>2. I(c) \subseteq Range(out) <=> I(c) \subseteq Range(q.out) \/ (n \in I(c) /\ I(c) \subseteq Range(out))
    BY <1>3
  <2> QED
    BY <2>1, <2>2, <1>0, <1>4
<1>10. /\ Len(out) = i + 1 /\ out[i + 1] = n
       /\ \A j \in 1..i : out[j] = q.out[j]
  BY <1>0, <1>2, AppendProperties
<1>11. ASSUME NEW j \in 1..(i + 1) PROVE I(out[j]) \subseteq {out[k] : k \in 1..(j - 1)}
  <2>1. CASE j = i + 1
    <3>1. I(n) \subseteq Range(q.out)
      BY <1>0, <1>1, <1>2
    <3>2. Range(q.out) = {q.out[k] : k \in 1..i}
      BY <1>0, RangeEquality
    <3>3. \A k \in 1..i : k \in 1..(j - 1)
      BY <2>1
    <3> QED
      BY <2>1, <3>1, <3>2, <3>3, <1>10
  <2>2. CASE j # i + 1
    <3>1. j \in 1..i /\ \A k \in 1..(j - 1) : k \in 1..i
      BY <2>2
    <3>2. I(q.out[j]) \subseteq {q.out[k] : k \in 1..(j - 1)}
      BY <3>1, <1>0
    <3> QED
      BY <3>1, <3>2, <1>10
  <2> QED
    BY <2>1, <2>2
<1>12. AfterInputs(g, out)
  BY <1>10, <1>11 DEF AfterInputs
<1>13. Len(out) = i + 1
  BY <1>10
<1> DEFINE r == [ready |-> ready, out |-> out]
<1>14. r.ready = ready /\ r.out = out
  OBVIOUS
<1> HIDE DEF r
<1>15. Rounds(g, i + 1, r)
  BY <1>3, <1>6, <1>7, <1>8, <1>9, <1>12, <1>13, <1>14 DEF Rounds
<1> QED
  BY <1>15 DEF r, ready, t, f

\* The topological order has every node once, after all it reads.
THEOREM TopologicalOrder ==
  ASSUME NEW g, Wired(g), Acyclic(g)
  PROVE  /\ Topological(g) \in Seq(Ids(g)) /\ IsInjective(Topological(g))
         /\ Range(Topological(g)) = Ids(g) /\ Len(Topological(g)) = Len(g.order)
         /\ AfterInputs(g, Topological(g))
<1> DEFINE L == Len(g.order)
           K == Kahn(g)
           U == {i \in 0..L : Rounds(g, i, K[i])}
<1>0. L \in Nat /\ IsFiniteSet(Ids(g)) /\ Cardinality(Ids(g)) = L
  BY WiredSize
<1>1. \A i \in 1..L : LET before == K[i - 1] IN
        K[i] = IF before.ready = <<>> THEN before
               ELSE [ready |-> Tail(before.ready)
                                 \o Freed(g, Head(before.ready), Append(before.out, Head(before.ready))),
                     out |-> Append(before.out, Head(before.ready))]
  BY <1>0, KahnDef
<1>2. Rounds(g, 0, K[0])
  BY KahnStarts
<1> HIDE DEF L, K
<1>3. 0 \in U
  BY <1>0, <1>2
<1>4. ASSUME NEW i \in 1..L, i - 1 \in U PROVE i \in U
  <2> DEFINE q == K[i - 1]
             n == Head(q.ready)
             out == Append(q.out, n)
  <2>1. i \in 0..L /\ i - 1 \in Nat /\ (i - 1) + 1 = i /\ Rounds(g, i - 1, q)
    BY <1>0, <1>4
  <2>2. CASE q.ready = <<>>
    <3>1. K[i] = q
      BY <1>1, <2>2
    <3> HIDE DEF q
    <3>2. Rounds(g, i, q)
      BY <2>1, <2>2 DEF Rounds
    <3> QED
      BY <2>1, <3>1, <3>2
  <2>3. CASE q.ready # <<>>
    <3>1. K[i] = [ready |-> Tail(q.ready) \o Freed(g, n, out), out |-> out]
      BY <1>1, <2>3
    <3> HIDE DEF q
    <3>2. Rounds(g, (i - 1) + 1, [ready |-> Tail(q.ready) \o Freed(g, n, out), out |-> out])
      BY <2>1, <2>3, KahnGoesOn
    <3> HIDE DEF n, out
    <3> QED
      BY <2>1, <3>1, <3>2
  <2> QED
    BY <2>2, <2>3
<1>5. Rounds(g, L, K[L])
  <2> HIDE DEF U
  <2>1. 0..L \subseteq U
    BY <1>0, <1>3, <1>4, UpToInduction
  <2> QED
    BY <1>0, <2>1 DEF U
<1> DEFINE out == K[L].out
<1>6. Topological(g) = out
  BY DEF Topological, K, L
<1>7. /\ out \in Seq(Ids(g)) /\ IsInjective(out) /\ Range(out) \subseteq Ids(g)
      /\ AfterInputs(g, out)
  BY <1>5, RangeOfSeq DEF Rounds
<1>8. Cardinality(Range(out)) = Len(out)
  BY <1>7, RangeFinite
<1>9. Range(out) = Ids(g)
  <2>1. CASE K[L].ready = <<>>
    <3> SUFFICES ASSUME Ids(g) \ Range(out) # {} PROVE FALSE
      BY <1>7
    <3>1. PICK n \in Ids(g) \ Range(out) : InputsOf(g, n) \cap (Ids(g) \ Range(out)) = {}
      BY FirstOfSet
    <3>2. InputsOf(g, n) \subseteq Range(out)
      BY <3>1 DEF Wired
    <3>3. n \in Range(out) \cup Range(K[L].ready)
      BY <3>1, <3>2, <1>5 DEF Rounds
    <3>4. Range(<<>>) = {}
      BY DEF Range
    <3> QED
      BY <2>1, <3>1, <3>3, <3>4
  <2>2. CASE Len(out) = L
    BY <1>0, <1>7, <1>8, <2>2, FS_Subset
  <2> QED
    BY <2>1, <2>2, <1>5 DEF Rounds
<1>10. Len(out) = L
  BY <1>0, <1>8, <1>9
<1> HIDE DEF out
<1> QED
  BY <1>6, <1>7, <1>9, <1>10 DEF L

\* The sources a preview loads: those of the Imports.
LEMMA ImportSourcesOf ==
  ASSUME NEW g, Parses(g), NEW S, \A n \in Ids(g) : g.node[n].inputs \in Seq(S),
         \A n \in Ids(g) : TypeOf(g, n) = "import" => g.node[n].source \in Sources
  PROVE  /\ ImportSources(g) \in Seq(Sources) /\ ImportSources(g) # <<>>
         /\ Range(ImportSources(g)) =
              {g.node[n].source : n \in {n \in Ids(g) : TypeOf(g, n) = "import"}}
<1> DEFINE P == {n \in Ids(g) : TypeOf(g, n) = "import"}
           im == Only(g.order, P)
           named == [i \in DOMAIN im |-> g.node[im[i]].source]
<1>0. Wired(g) /\ Acyclic(g)
  BY DEF Parses, Wired
<1>1. g.order \in Seq(Ids(g)) /\ Range(g.order) = Ids(g)
  BY <1>0 DEF Wired, Listed
<1>2. P \subseteq Ids(g) /\ ImportSources(g) = Distinct(named)
  BY DEF ImportSources
<1>3. \E n \in Ids(g) : n \in P
  <2>1. Ids(g) # {}
    BY DEF Parses, Terminals, Sinks
  <2>2. PICK n \in Ids(g) : InputsOf(g, n) \cap Ids(g) = {}
    BY <1>0, <2>1, FirstOfSet
  <2>3. InputsOf(g, n) = {}
    BY <1>0, <2>2 DEF Wired
  <2>4. g.node[n].inputs \in Seq(S)
    OBVIOUS
  <2>5. Len(g.node[n].inputs) = 0
    <3> SUFFICES ASSUME Len(g.node[n].inputs) # 0 PROVE FALSE
      OBVIOUS
    <3>1. 1 \in DOMAIN g.node[n].inputs
      BY <2>4
    <3> QED
      BY <2>3, <3>1 DEF InputsOf, Range
  <2>6. Arity(TypeOf(g, n), 0)
    BY <2>5 DEF Parses
  <2>7. TypeOf(g, n) = "import"
    BY <2>6 DEF Arity
  <2> QED
    BY <2>7
<1> HIDE DEF P
<1>4. im \in Seq(Ids(g)) /\ Range(im) = P
  <2>1. Only(g.order, P) \in Seq(Ids(g)) /\ Range(Only(g.order, P)) = Range(g.order) \cap P
    BY <1>1, OnlyRange
  <2> QED
    BY <2>1, <1>1, <1>2
<1> HIDE DEF im
<1>5. \A i \in DOMAIN im : im[i] \in Ids(g) /\ g.node[im[i]].source \in Sources
  <2>1. \A i \in DOMAIN im : im[i] \in P
    BY <1>4 DEF Range
  <2> QED
    BY <2>1 DEF P
<1>6. DOMAIN im = 1..Len(im) /\ Len(im) \in Nat
  BY <1>4
<1>7. named \in Seq(Sources) /\ DOMAIN named = DOMAIN im
  BY <1>5, <1>6
<1>8. Range(named) = {g.node[n].source : n \in P}
  BY <1>4, <1>7 DEF Range
<1> HIDE DEF named
<1>9. Distinct(named) \in Seq(Sources) /\ Range(Distinct(named)) = {g.node[n].source : n \in P}
  BY <1>7, <1>8, DistinctRange
<1>10. Distinct(named) # <<>>
  <2>1. Range(<<>>) = {}
    BY DEF Range
  <2> QED
    BY <1>3, <1>9, <2>1
<1> QED
  BY <1>2, <1>9, <1>10 DEF P
----------------------------------------------------------------------------
(* Procedures and bands *)

\* The procedures a run uses: the defined ones, and one of its own for every
\* orphan.
Orphans(g) == {t \in Terminals(g) : Orphan(g, t)}

\* No procedure is run twice: orphans go under the ids of their Tests, which no
\* defined procedure has.
LEMMA ProceduresOnce ==
  ASSUME NEW g, Parses(g), g.procs \in Seq(ProcIds), Ids(g) \subseteq NodeIds
  PROVE  /\ EffectiveProcs(g) \in Seq(ProcIds \cup NodeIds) /\ IsInjective(EffectiveProcs(g))
         /\ Range(EffectiveProcs(g)) = Range(g.procs) \cup Orphans(g)
         /\ Range(g.procs) \cap NodeIds = {}
<1> DEFINE T == ProcIds \cup NodeIds
           o == Only(g.order, Orphans(g))
<1>1. g.order \in Seq(Ids(g)) /\ Range(g.order) = Ids(g) /\ IsInjective(g.order)
  BY DEF Parses, Listed
<1>2. Orphans(g) \subseteq Ids(g)
  BY DEF Orphans, Terminals, Sinks
<1>3. /\ o \in Seq(Ids(g)) /\ IsInjective(o) /\ Range(o) = Range(g.order) \cap Orphans(g)
  BY <1>1, OnlyRange
<1>4. EffectiveProcs(g) = g.procs \o o
  BY DEF EffectiveProcs, Orphans
<1> HIDE DEF o
<1>5. o \in Seq(T) /\ g.procs \in Seq(T) /\ IsInjective(g.procs) /\ Range(o) = Orphans(g)
  BY <1>1, <1>2, <1>3 DEF Parses
<1>6. Range(g.procs) \subseteq ProcIds
  BY RangeOfSeq
<1>7. Range(g.procs) \cap NodeIds = {}
  BY <1>6, IdsAssumption
<1>8. Range(g.procs) \cap Range(o) = {}
  BY <1>2, <1>5, <1>7
<1> HIDE DEF T
<1>9. IsInjective(g.procs \o o)
  <2> DEFINE q == g.procs
  <2>1. q \in Seq(T) /\ IsInjective(q) /\ Range(q) \cap Range(o) = {}
    BY <1>5, <1>8
  <2> HIDE DEF q
  <2>2. IsInjective(q \o o)
    BY <1>3, <1>5, <2>1, ConcatOnce
  <2> QED
    BY <2>2 DEF q
<1>10. g.procs \o o \in Seq(T) /\ Range(g.procs \o o) = Range(g.procs) \cup Range(o)
  BY <1>5, ConcatProperties, RangeConcatenation
<1> QED
  BY <1>4, <1>5, <1>7, <1>9, <1>10 DEF T

\* Every Test is run by one of them.
LEMMA TestOnce ==
  ASSUME NEW g, Parses(g), g.procs \in Seq(ProcIds), Ids(g) \subseteq NodeIds,
         NEW t \in Terminals(g)
  PROVE  \E i \in DOMAIN EffectiveProcs(g) :
           {j \in DOMAIN EffectiveProcs(g) : t \in TestsFor(g, EffectiveProcs(g)[j])} = {i}
<1> DEFINE E == EffectiveProcs(g)
           own == IF Orphan(g, t) THEN t ELSE g.node[t].proc
<1>1. IsInjective(E) /\ Range(E) = Range(g.procs) \cup Orphans(g) /\ Range(g.procs) \cap NodeIds = {}
  BY ProceduresOnce
<1>2. own \in Range(E) /\ t \in NodeIds
  BY <1>1 DEF Orphan, Orphans, Terminals, Sinks
<1>3. \A p \in Range(E) : t \in TestsFor(g, p) <=> p = own
  <2> TAKE p \in Range(E)
  <2>1. CASE p \in Range(g.procs)
    <3>1. t \in TestsFor(g, p) <=> g.node[t].proc = p
      BY <2>1 DEF TestsFor
    <3>2. CASE Orphan(g, t)
      BY <1>1, <1>2, <2>1, <3>1, <3>2 DEF Orphan
    <3>3. CASE ~Orphan(g, t)
      BY <3>1, <3>3
    <3> QED
      BY <3>2, <3>3
  <2>2. CASE p \notin Range(g.procs)
    <3>1. t \in TestsFor(g, p) <=> t = p
      BY <2>2 DEF TestsFor
    <3>2. p \in Orphans(g)
      BY <1>1, <2>2
    <3> QED
      BY <2>2, <3>1, <3>2 DEF Orphan, Orphans
  <2> QED
    BY <2>1, <2>2
<1> HIDE DEF E, own
<1>4. PICK i \in DOMAIN E : E[i] = own
  BY <1>2 DEF Range
<1>5. \A j \in DOMAIN E : t \in TestsFor(g, E[j]) <=> j = i
  <2> TAKE j \in DOMAIN E
  <2>1. E[j] \in Range(E)
    BY DEF Range
  <2>2. t \in TestsFor(g, E[j]) <=> E[j] = own
    BY <1>3, <2>1
  <2> QED
    BY <1>1, <1>4, <2>2 DEF IsInjective
<1>6. {j \in DOMAIN E : t \in TestsFor(g, E[j])} = {i}
  BY <1>5
<1> QED
  BY <1>6 DEF E

\* The last of a set of nodes, which no other of them reads.
LEMMA LastOfSet ==
  ASSUME NEW g, Wired(g), Acyclic(g), NEW S, S \subseteq Ids(g), S # {}
  PROVE  \E n \in S : \A m \in S : n \notin InputsOf(g, m)
<1> DEFINE out == Topological(g)
           L == Len(out)
           Back == {k \in 0..L : \E j \in 1..L : k = L - j /\ out[j] \in S}
<1>1. out \in Seq(Ids(g)) /\ Range(out) = Ids(g) /\ AfterInputs(g, out) /\ IsInjective(out)
  BY TopologicalOrder
<1> HIDE DEF out
<1>2. L \in Nat /\ DOMAIN out = 1..L /\ Range(out) = {out[j] : j \in 1..L}
  BY <1>1, RangeEquality
<1> HIDE DEF L
<1>3. \A j \in 1..L : out[j] \in S => L - j \in Back
  <2> TAKE j \in 1..L
  <2>1. L - j \in 0..L
    BY <1>2
  <2> QED
    BY <2>1
<1>4. Back # {} /\ Back \subseteq Nat
  <2>1. PICK n \in S : TRUE
    OBVIOUS
  <2>2. PICK j \in 1..L : n = out[j]
    BY <1>1, <1>2
  <2>3. L - j \in Back
    BY <1>3, <2>1, <2>2
  <2>4. \A k \in Back : k \in 0..L
    OBVIOUS
  <2> HIDE DEF Back
  <2> QED
    BY <1>2, <2>3, <2>4
<1>5. PICK k \in Back : \A l \in Back : k <= l
  <2> HIDE DEF Back
  <2> QED
    BY <1>4, LeastNat
<1>6. PICK j \in 1..L : k = L - j /\ out[j] \in S
  BY <1>5
<1>7. ASSUME NEW m \in S, out[j] \in InputsOf(g, m) PROVE FALSE
  <2>1. PICK i \in 1..L : m = out[i]
    BY <1>1, <1>2
  <2>2. InputsOf(g, out[i]) \subseteq {out[a] : a \in 1..(i - 1)}
    BY <1>1, <2>1 DEF AfterInputs, L
  <2>3. PICK a \in 1..(i - 1) : out[j] = out[a]
    BY <1>7, <2>1, <2>2
  <2>4. a \in 1..L /\ a < i
    BY <1>2
  <2>5. j = a
    BY <1>1, <1>2, <2>3, <2>4 DEF IsInjective
  <2>6. L - i \in Back
    BY <1>3, <2>1
  <2>7. L - j <= L - i
    <3> HIDE DEF Back
    <3> QED
      BY <1>5, <1>6, <2>6
  <2> QED
    BY <1>2, <2>4, <2>5, <2>7
<1> QED
  BY <1>6, <1>7

\* Every node feeds a Test.
LEMMA FeedsTest ==
  ASSUME NEW g, Parses(g), NEW n \in Ids(g)
  PROVE  \E t \in Terminals(g) : n \in Ancestors(g, t)
<1> DEFINE S == {m \in Ids(g) : n \in Ancestors(g, m)}
<1>1. Wired(g) /\ Acyclic(g) /\ Sinks(g) = Terminals(g)
  BY DEF Parses, Wired
<1>2. n \in S
  BY <1>1, AncestorsClosed
<1>3. PICK t \in S : \A m \in S : t \notin InputsOf(g, m)
  <2> S \subseteq Ids(g) /\ S # {}
    BY <1>2
  <2> HIDE DEF S
  <2> QED
    BY <1>1, LastOfSet
<1>4. \A m \in Ids(g) : t \notin InputsOf(g, m)
  <2> SUFFICES ASSUME NEW m \in Ids(g), t \in InputsOf(g, m) PROVE FALSE
    OBVIOUS
  <2>1. n \in Ancestors(g, t)
    BY <1>3
  <2>2. n \in Ancestors(g, m)
    BY <1>1, <2>1, AncestorsOfInputs
  <2> QED
    BY <1>3, <2>2
<1>5. t \in Sinks(g)
  BY <1>3, <1>4 DEF Sinks, Consumed
<1> QED
  BY <1>1, <1>3, <1>5

\* Every node belongs to a procedure, and what a node reads belongs to all that
\* the node belongs to.
LEMMA MembershipOf ==
  ASSUME NEW g, Parses(g), g.procs \in Seq(ProcIds), Ids(g) \subseteq NodeIds
  PROVE  \A n \in Ids(g) :
           /\ Membership(g)[n] \subseteq Range(EffectiveProcs(g)) /\ Membership(g)[n] # {}
           /\ \A m \in InputsOf(g, n) : m \in Ids(g) /\ Membership(g)[n] \subseteq Membership(g)[m]
<1> DEFINE E == EffectiveProcs(g)
           M == Membership(g)
<1>1. Wired(g)
  BY DEF Parses, Wired
<1>2. \A n \in Ids(g) : M[n] = {p \in Range(E) : \E t \in TestsFor(g, p) : n \in Ancestors(g, t)}
  <2> TAKE n \in Ids(g)
  <2>1. \A p : TestsFor(g, p) \subseteq Terminals(g)
    BY DEF TestsFor
  <2> DEFINE closure == [t \in Terminals(g) |-> Ancestors(g, t)]
             tests == [p \in Range(E) |-> TestsFor(g, p)]
  <2>2. M[n] = {p \in DOMAIN tests : \E t \in tests[p] : n \in closure[t]}
    BY DEF Membership
  <2>3. \A p \in Range(E) : \A t \in tests[p] : closure[t] = Ancestors(g, t)
    BY <2>1
  <2>4. DOMAIN tests = Range(E) /\ \A p \in Range(E) : tests[p] = TestsFor(g, p)
    OBVIOUS
  <2> HIDE DEF tests, closure, E, M
  <2> QED
    BY <2>2, <2>3, <2>4
<1> HIDE DEF E, M
<1>3. ASSUME NEW n \in Ids(g) PROVE M[n] # {}
  <2>1. PICK t \in Terminals(g) : n \in Ancestors(g, t)
    BY FeedsTest
  <2>2. PICK i \in DOMAIN E : {j \in DOMAIN E : t \in TestsFor(g, E[j])} = {i}
    BY TestOnce DEF E
  <2>3. t \in TestsFor(g, E[i]) /\ E[i] \in Range(E)
    BY <2>2 DEF Range
  <2> QED
    BY <1>2, <2>1, <2>3
<1>4. ASSUME NEW n \in Ids(g), NEW m \in InputsOf(g, n) PROVE m \in Ids(g) /\ M[n] \subseteq M[m]
  <2>1. m \in Ids(g)
    BY <1>1 DEF Wired
  <2>2. \A t \in Ids(g) : n \in Ancestors(g, t) => m \in Ancestors(g, t)
    BY <1>1, AncestorsClosed DEF Closed
  <2>3. \A p : TestsFor(g, p) \subseteq Ids(g)
    BY DEF TestsFor, Terminals, Sinks
  <2> QED
    BY <1>2, <2>1, <2>2, <2>3
<1> QED
  BY <1>2, <1>3, <1>4 DEF E, M

\* The band that shows a node.
Shown(g, n) == BandOf(g, Membership(g), n)
\* The bands: the shared one, and those of the procedures.
Bands(g) == <<NoProc>> \o EffectiveProcs(g)
\* What band p shows.
Band(g, p) == Only(Topological(g), {n \in Ids(g) : Shown(g, n) = p})

\* A list read in order from a set S of what is known before.
AfterKnown(g, S, out) ==
  \A j \in 1..Len(out) : InputsOf(g, out[j]) \subseteq S \cup {out[k] : k \in 1..(j - 1)}

\* A list in order goes on with one in order after it.
LEMMA ConcatAfter ==
  ASSUME NEW g, NEW T, NEW a \in Seq(T), NEW b \in Seq(T),
         AfterInputs(g, a), AfterKnown(g, Range(a), b)
  PROVE  AfterInputs(g, a \o b)
<1> DEFINE u == a \o b
           m == Len(a)
           n == Len(b)
<1>1. /\ Len(u) = m + n /\ m \in Nat /\ n \in Nat
      /\ \A i \in 1..(m + n) : u[i] = IF i <= m THEN a[i] ELSE b[i - m]
  BY ConcatProperties, LenProperties
<1>2. Range(a) = {a[k] : k \in 1..m}
  BY RangeEquality
<1> HIDE DEF u, m, n
<1>3. ASSUME NEW j \in 1..m PROVE InputsOf(g, u[j]) \subseteq {u[k] : k \in 1..(j - 1)}
  <2>0. u[j] = a[j]
    BY <1>1
  <2>1. InputsOf(g, a[j]) \subseteq {a[k] : k \in 1..(j - 1)}
    BY DEF AfterInputs, m
  <2>2. \A k \in 1..(j - 1) : u[k] = a[k]
    BY <1>1
  <2> QED
    BY <2>0, <2>1, <2>2
<1>4. ASSUME NEW j \in (m + 1)..(m + n) PROVE InputsOf(g, u[j]) \subseteq {u[k] : k \in 1..(j - 1)}
  <2> DEFINE i == j - m
  <2>1. i \in 1..n /\ u[j] = b[i]
    BY <1>1
  <2>2. InputsOf(g, b[i]) \subseteq Range(a) \cup {b[k] : k \in 1..(i - 1)}
    BY <2>1 DEF AfterKnown, n
  <2>3. \A k \in 1..m : k \in 1..(j - 1) /\ u[k] = a[k]
    BY <1>1
  <2>4. \A k \in 1..(i - 1) : k + m \in 1..(j - 1) /\ u[k + m] = b[k]
    BY <1>1
  <2> HIDE DEF i
  <2>5. ASSUME NEW c \in InputsOf(g, b[i]) PROVE c \in {u[k] : k \in 1..(j - 1)}
    <3>1. c \in {a[k] : k \in 1..m} \/ c \in {b[k] : k \in 1..(i - 1)}
      BY <1>2, <2>2, <2>5
    <3>2. CASE c \in {a[k] : k \in 1..m}
      BY <2>3, <3>2
    <3>3. CASE c \in {b[k] : k \in 1..(i - 1)}
      BY <2>4, <3>3
    <3> QED
      BY <3>1, <3>2, <3>3
  <2> QED
    BY <2>1, <2>5
<1>5. \A j \in 1..(m + n) : j \in 1..m \/ j \in (m + 1)..(m + n)
  BY <1>1
<1>6. \A j \in 1..Len(u) : InputsOf(g, u[j]) \subseteq {u[k] : k \in 1..(j - 1)}
  BY <1>1, <1>3, <1>4, <1>5
<1> QED
  BY <1>6 DEF AfterInputs, u

\* What one band shows comes after what it reads of the same band.
LEMMA OnlyAfter ==
  ASSUME NEW g, NEW out \in Seq(Ids(g)), IsInjective(out), AfterInputs(g, out), NEW P, NEW S,
         \A n \in P \cap Ids(g) : InputsOf(g, n) \subseteq P \cup S
  PROVE  AfterKnown(g, S, Only(out, P))
<1> DEFINE o == Only(out, P)
<1>1. PICK e \in [1..Len(o) -> 1..Len(out)] :
        /\ \A a, b \in 1..Len(o) : a < b => e[a] < e[b]
        /\ \A a \in 1..Len(o) : o[a] = out[e[a]] /\ out[e[a]] \in P
        /\ \A j \in 1..Len(out) : out[j] \in P => \E a \in 1..Len(o) : e[a] = j
  BY OnlyEmbeds
<1>2. Len(o) \in Nat /\ Len(out) \in Nat
  <2> o \in Seq(Ids(g))
    BY OnlyEmbeds
  <2> QED
    BY LenProperties
<1> HIDE DEF o
<1>3. ASSUME NEW j \in 1..Len(o), NEW m \in InputsOf(g, o[j]), m \notin S
      PROVE  m \in {o[k] : k \in 1..(j - 1)}
  <2>1. e[j] \in 1..Len(out) /\ o[j] = out[e[j]] /\ o[j] \in P
    BY <1>1
  <2>2. o[j] \in Ids(g)
    BY <2>1
  <2>3. m \in P
    BY <1>3, <2>1, <2>2
  <2>4. m \in {out[k] : k \in 1..(e[j] - 1)}
    BY <1>3, <2>1 DEF AfterInputs
  <2>5. PICK k \in 1..(e[j] - 1) : m = out[k]
    BY <2>4
  <2>6. k \in 1..Len(out) /\ k < e[j]
    BY <1>2, <2>1, <2>5
  <2>7. PICK a \in 1..Len(o) : e[a] = k
    BY <1>1, <2>3, <2>5, <2>6
  <2>8. o[a] = m
    BY <1>1, <2>5, <2>7
  <2>9. a < j
    <3> SUFFICES ASSUME ~(a < j) PROVE FALSE
      OBVIOUS
    <3>1. a = j \/ j < a
      BY <1>2
    <3>2. e[j] <= e[a]
      BY <1>1, <2>1, <2>6, <2>7, <3>1
    <3> QED
      BY <1>2, <2>1, <2>6, <2>7, <3>2
  <2> QED
    BY <1>2, <2>8, <2>9
<1>4. \A j \in 1..Len(o) : InputsOf(g, o[j]) \subseteq S \cup {o[k] : k \in 1..(j - 1)}
  BY <1>3
<1> QED
  BY <1>4 DEF AfterKnown, o

\* A node reads of its own band and of the shared one only.
LEMMA BandOfInputs ==
  ASSUME NEW g, Parses(g), g.procs \in Seq(ProcIds), Ids(g) \subseteq NodeIds, NEW n \in Ids(g),
         g.node[n].inputs \in Seq(NodeIds)
  PROVE  /\ Shown(g, n) \in Range(Bands(g))
         /\ \A m \in InputsOf(g, n) : m \in Ids(g) /\ Shown(g, m) \in {NoProc, Shown(g, n)}
<1> DEFINE M == Membership(g)
           E == EffectiveProcs(g)
<1>1. /\ M[n] \subseteq Range(E) /\ M[n] # {}
      /\ \A m \in InputsOf(g, n) : /\ m \in Ids(g) /\ M[n] \subseteq M[m]
                                   /\ M[m] \subseteq Range(E)
  BY MembershipOf
<1>2. E \in Seq(ProcIds \cup NodeIds)
  BY ProceduresOnce
<1>3. IsFiniteSet(Range(E))
  BY <1>2, RangeFinite
<1>4. Range(Bands(g)) = {NoProc} \cup Range(E)
  <2> DEFINE Q == ProcIds \cup NodeIds \cup {NoProc}
             one == <<NoProc>>
  <2>1. one \in Seq(Q) /\ Range(one) = {NoProc} /\ E \in Seq(Q)
    BY <1>2 DEF Range
  <2> HIDE DEF E, Q, one
  <2>2. Range(one \o E) = Range(one) \cup Range(E)
    BY <2>1, RangeConcatenation
  <2> QED
    BY <2>1, <2>2 DEF Bands, E, one
<1> HIDE DEF E, M
<1>5. \A c : Shown(g, c) = IF TypeOf(g, c) # "import" /\ Cardinality(M[c]) = 1
                           THEN CHOOSE p \in M[c] : TRUE ELSE NoProc
  BY DEF Shown, BandOf, M
<1>6. \A S : IsFiniteSet(S) => (Cardinality(S) = 1 <=> \E x : S = {x})
  BY FS_Singleton
<1>7. IsFiniteSet(M[n])
  BY <1>1, <1>3, FS_Subset
<1>8. Shown(g, n) \in Range(Bands(g))
  BY <1>1, <1>4, <1>5
<1>9. ASSUME NEW m \in InputsOf(g, n), Shown(g, m) # NoProc PROVE Shown(g, m) = Shown(g, n)
  <2>1. IsFiniteSet(M[m]) /\ m \in Ids(g)
    BY <1>1, <1>3, FS_Subset
  <2>2. Cardinality(M[m]) = 1
    BY <1>5, <1>9
  <2>3. PICK p : M[m] = {p}
    BY <1>6, <2>1, <2>2
  <2>4. M[n] = {p}
    BY <1>1, <2>3
  <2>5. Cardinality(M[n]) = 1
    BY <1>6, <1>7, <2>4
  <2>6. TypeOf(g, n) # "import"
    <3> SUFFICES ASSUME TypeOf(g, n) = "import" PROVE FALSE
      OBVIOUS
    <3>1. Len(g.node[n].inputs) = 0
      BY DEF Parses, Arity
    <3>2. InputsOf(g, n) = {}
      BY <3>1 DEF InputsOf, Range
    <3> QED
      BY <3>2
  <2>7. Shown(g, n) = (CHOOSE x \in {p} : TRUE) /\ Shown(g, m) = (CHOOSE x \in {p} : TRUE)
    BY <1>5, <1>9, <2>2, <2>3, <2>4, <2>5, <2>6
  <2> QED
    BY <2>7
<1> QED
  BY <1>1, <1>8, <1>9

\* A band lists what it shows, once.
LEMMA BandListed ==
  ASSUME NEW g, Wired(g), Acyclic(g), NEW p
  PROVE  /\ Band(g, p) \in Seq(Ids(g)) /\ IsInjective(Band(g, p))
         /\ Range(Band(g, p)) = {n \in Ids(g) : Shown(g, n) = p}
<1> DEFINE P == {n \in Ids(g) : Shown(g, n) = p}
           out == Topological(g)
<1>1. out \in Seq(Ids(g)) /\ Range(out) = Ids(g) /\ IsInjective(out)
  BY TopologicalOrder
<1> HIDE DEF out
<1>2. /\ Only(out, P) \in Seq(Ids(g)) /\ IsInjective(Only(out, P))
      /\ Range(Only(out, P)) = Range(out) \cap P
  BY <1>1, OnlyRange
<1> QED
  BY <1>1, <1>2 DEF Band, out

\* The first i bands: in order, every node they show once.
InBands(g, i) == {n \in Ids(g) : Shown(g, n) \in {Bands(g)[k] : k \in 1..i}}
BandsSoFar(g, i, q) ==
  /\ q \in Seq(Ids(g)) /\ IsInjective(q) /\ Range(q) = InBands(g, i)
  /\ AfterInputs(g, q)

\* The bands so far and the next one are in order, and no node is in both.
LEMMA OneMoreBand ==
  ASSUME NEW g, Parses(g), g.procs \in Seq(ProcIds), Ids(g) \subseteq NodeIds,
         \A n \in Ids(g) : g.node[n].inputs \in Seq(NodeIds),
         IsInjective(Bands(g)), Bands(g)[1] = NoProc,
         NEW i \in Nat, i + 1 \in DOMAIN Bands(g), DOMAIN Bands(g) = 1..Len(Bands(g)),
         Len(Bands(g)) \in Nat,
         NEW q, BandsSoFar(g, i, q), NEW p, p = Bands(g)[i + 1]
  PROVE  BandsSoFar(g, i + 1, q \o Band(g, p))
<1> DEFINE b == Band(g, p)
           B == Bands(g)
           P == {n \in Ids(g) : Shown(g, n) = p}
<1>0. Wired(g) /\ Acyclic(g)
  BY DEF Parses, Wired
<1>1. b \in Seq(Ids(g)) /\ IsInjective(b) /\ Range(b) = P
  BY <1>0, BandListed
<1>2. q \in Seq(Ids(g)) /\ IsInjective(q) /\ Range(q) = InBands(g, i) /\ AfterInputs(g, q)
  BY DEF BandsSoFar
<1>3. \A k \in 1..i : B[k] # p
  <2> SUFFICES ASSUME NEW k \in 1..i, B[k] = p PROVE FALSE
    OBVIOUS
  <2>1. k \in DOMAIN B /\ i + 1 \in DOMAIN B /\ k # i + 1 /\ B[k] = B[i + 1]
    OBVIOUS
  <2> QED
    BY <2>1 DEF IsInjective
<1>4. P \cap InBands(g, i) = {}
  BY <1>3 DEF InBands
<1>5. InBands(g, i + 1) = InBands(g, i) \cup P
  <2>1. \A k \in 1..(i + 1) : k \in 1..i \/ k = i + 1
    OBVIOUS
  <2>2. \A k \in 1..i : k \in 1..(i + 1)
    OBVIOUS
  <2>3. i + 1 \in 1..(i + 1)
    OBVIOUS
  <2> QED
    BY <2>1, <2>2, <2>3 DEF InBands
<1>6. AfterKnown(g, InBands(g, i), b)
  <2> DEFINE out == Topological(g)
             S == InBands(g, i)
  <2>1. out \in Seq(Ids(g)) /\ IsInjective(out) /\ AfterInputs(g, out)
    BY <1>0, TopologicalOrder
  <2>2. ASSUME NEW n \in P \cap Ids(g), NEW m \in InputsOf(g, n) PROVE m \in P \cup S
    <3>1. m \in Ids(g) /\ Shown(g, m) \in {NoProc, Shown(g, n)}
      BY <2>2, BandOfInputs
    <3>2. CASE Shown(g, m) = NoProc /\ i = 0
      BY <3>1, <3>2
    <3>3. CASE Shown(g, m) = NoProc /\ i # 0
      <4>1. 1 \in 1..i
        BY <3>3
      <4> QED
        BY <3>1, <3>3, <4>1 DEF InBands
    <3> QED
      BY <2>2, <3>1, <3>2, <3>3
  <2>3. b = Only(out, P)
    BY DEF Band
  <2> HIDE DEF out, P, b, S
  <2>4. \A n \in P \cap Ids(g) : InputsOf(g, n) \subseteq P \cup S
    BY <2>2
  <2>5. AfterKnown(g, S, Only(out, P))
    BY <2>1, <2>4, OnlyAfter
  <2> QED
    BY <2>3, <2>5 DEF S
<1> HIDE DEF b, P
<1>7. AfterInputs(g, q \o b)
  BY <1>1, <1>2, <1>6, ConcatAfter
<1>8. IsInjective(q \o b)
  BY <1>1, <1>2, <1>4, ConcatOnce
<1>9. q \o b \in Seq(Ids(g)) /\ Range(q \o b) = Range(q) \cup Range(b)
  BY <1>1, <1>2, ConcatProperties, RangeConcatenation
<1>10. BandsSoFar(g, i + 1, q \o b)
  BY <1>1, <1>2, <1>5, <1>7, <1>8, <1>9 DEF BandsSoFar
<1> QED
  BY <1>10 DEF b

\* No two bands are of the same procedure.
LEMMA BandsAre ==
  ASSUME NEW g, Parses(g), g.procs \in Seq(ProcIds), Ids(g) \subseteq NodeIds
  PROVE  /\ Bands(g) \in Seq(ProcIds \cup NodeIds \cup {NoProc}) /\ IsInjective(Bands(g))
         /\ Bands(g)[1] = NoProc /\ Len(Bands(g)) \in Nat \ {0}
<1> DEFINE Q == ProcIds \cup NodeIds \cup {NoProc}
           E == EffectiveProcs(g)
<1>1. E \in Seq(ProcIds \cup NodeIds) /\ IsInjective(E)
  BY ProceduresOnce
<1>2. Range(E) \subseteq ProcIds \cup NodeIds
  BY <1>1, RangeOfSeq
<1>3. NoProc \notin Range(E)
  BY <1>2, IdsAssumption
<1>4. <<NoProc>> \in Seq(Q) /\ Range(<<NoProc>>) = {NoProc} /\ IsInjective(<<NoProc>>)
      /\ Len(<<NoProc>>) = 1 /\ <<NoProc>>[1] = NoProc
  BY DEF Range, IsInjective
<1>5. E \in Seq(Q)
  BY <1>1
<1> HIDE DEF E, Q
<1>6. IsInjective(<<NoProc>> \o E)
  BY <1>1, <1>3, <1>4, <1>5, ConcatOnce
<1>7. /\ <<NoProc>> \o E \in Seq(Q) /\ Len(<<NoProc>> \o E) = 1 + Len(E)
      /\ (<<NoProc>> \o E)[1] = NoProc /\ Len(E) \in Nat
  BY <1>4, <1>5, ConcatProperties, LenProperties
<1> QED
  BY <1>6, <1>7 DEF Bands, E, Q

\* The flattened order is the concatenation of the bands.
LEMMA BandOrderIs ==
  ASSUME NEW g
  PROVE  BandOrder(g) = FlattenSeq([i \in DOMAIN Bands(g) |-> Band(g, Bands(g)[i])])
<1> DEFINE member == Membership(g)
           band == [n \in Ids(g) |-> BandOf(g, member, n)]
           procs == Bands(g)
<1>1. BandOrder(g) = FlattenSeq([i \in DOMAIN procs |->
                                   Only(Topological(g), {n \in Ids(g) : band[n] = procs[i]})])
  BY DEF BandOrder, Bands
<1>2. \A p : {n \in Ids(g) : band[n] = p} = {n \in Ids(g) : Shown(g, n) = p}
  BY DEF Shown
<1>3. \A i \in DOMAIN procs : Only(Topological(g), {n \in Ids(g) : band[n] = procs[i]}) = Band(g, procs[i])
  BY <1>2 DEF Band
<1> HIDE DEF procs, band
<1>4. [i \in DOMAIN procs |-> Only(Topological(g), {n \in Ids(g) : band[n] = procs[i]})]
        = [i \in DOMAIN procs |-> Band(g, procs[i])]
  BY <1>3
<1> QED
  BY <1>1, <1>4 DEF procs

\* The bands list every step once, after the steps it reads.
LEMMA BandsShowAll ==
  ASSUME NEW g, Parses(g), g.procs \in Seq(ProcIds), Ids(g) \subseteq NodeIds,
         \A n \in Ids(g) : g.node[n].inputs \in Seq(NodeIds)
  PROVE  /\ BandOrder(g) \in Seq(Ids(g)) /\ IsInjective(BandOrder(g))
         /\ Range(BandOrder(g)) = Ids(g) /\ AfterInputs(g, BandOrder(g))
<1> DEFINE B == Bands(g)
           L == Len(B)
           s == [i \in DOMAIN B |-> Band(g, B[i])]
<1>0. Wired(g) /\ Acyclic(g)
  BY DEF Parses, Wired
<1>1. /\ L \in Nat \ {0} /\ DOMAIN B = 1..L /\ IsInjective(B) /\ B[1] = NoProc
      /\ Range(B) = {B[k] : k \in 1..L}
  BY BandsAre, LenProperties, RangeEquality
<1>2. /\ Len(s) = L /\ \A i \in 1..L : s[i] = Band(g, B[i])
  BY <1>1
<1> HIDE DEF s
<1>3. PICK f : f[1] = s[1] /\ f[L] = FlattenSeq(s) /\ \A i \in 2..L : f[i] = f[i - 1] \o s[i]
  <2>1. Len(s) \in Nat \ {0}
    BY <1>1, <1>2
  <2> HIDE DEF L
  <2> QED
    BY <1>2, <2>1, FlattenDef
<1> HIDE DEF L
<1> DEFINE U == {i \in 0..L : i = 0 \/ BandsSoFar(g, i, f[i])}
<1>4. BandsSoFar(g, 1, f[1])
  <2>1. \A n : n \in InBands(g, 0) <=> FALSE
    BY DEF InBands
  <2>2. <<>> \in Seq(Ids(g)) /\ IsInjective(<<>>) /\ Range(<<>>) = {} /\ Len(<<>>) = 0
    BY DEF IsInjective, Range
  <2>3. AfterInputs(g, <<>>)
    BY <2>2 DEF AfterInputs
  <2>4. BandsSoFar(g, 0, <<>>)
    BY <2>1, <2>2, <2>3 DEF BandsSoFar
  <2>5. BandsSoFar(g, 0 + 1, <<>> \o Band(g, B[1]))
    <3>1. 0 + 1 \in DOMAIN Bands(g) /\ 0 + 1 = 1
      BY <1>1
    <3> QED
      BY <1>1, <2>4, <3>1, OneMoreBand DEF L
  <2>6. Band(g, B[1]) \in Seq(Ids(g))
    BY <1>0, BandListed
  <2>7. <<>> \o Band(g, B[1]) = f[1]
    <3>1. f[1] = Band(g, B[1])
      BY <1>1, <1>2, <1>3
    <3> QED
      BY <2>6, <3>1, ConcatEmptySeq
  <2> QED
    BY <2>5, <2>7
<1>5. ASSUME NEW i \in 1..L, i - 1 \in U PROVE i \in U
  <2>1. CASE i = 1
    BY <1>1, <1>4, <2>1
  <2>2. CASE i # 1
    <3>1. i \in 2..L /\ i - 1 \in Nat /\ (i - 1) + 1 = i /\ i - 1 # 0
      BY <1>1, <2>2
    <3>2. BandsSoFar(g, i - 1, f[i - 1])
      BY <1>5, <3>1
    <3>3. f[i] = f[i - 1] \o Band(g, B[i])
      BY <1>2, <1>3, <3>1
    <3>4. BandsSoFar(g, (i - 1) + 1, f[i - 1] \o Band(g, B[i]))
      BY <1>1, <3>1, <3>2, OneMoreBand DEF L
    <3>5. BandsSoFar(g, i, f[i])
      BY <3>1, <3>3, <3>4
    <3> QED
      BY <1>1, <3>1, <3>5
  <2> QED
    BY <2>1, <2>2
<1>6. L \in U
  <2>1. 0 \in U
    BY <1>1
  <2>2. \A i \in 1..L : i - 1 \in U => i \in U
    BY <1>5
  <2> HIDE DEF U
  <2>3. 0..L \subseteq U
    BY <1>1, <2>1, <2>2, UpToInduction
  <2> QED
    BY <1>1, <2>3
<1>7. BandsSoFar(g, L, FlattenSeq(s))
  BY <1>1, <1>3, <1>6
<1>8. InBands(g, L) = Ids(g)
  <2>1. \A n \in Ids(g) : Shown(g, n) \in {B[k] : k \in 1..L}
    BY <1>1, BandOfInputs
  <2> QED
    BY <2>1 DEF InBands
<1>9. BandOrder(g) = FlattenSeq(s)
  BY BandOrderIs DEF s
<1> QED
  BY <1>7, <1>8, <1>9 DEF BandsSoFar
----------------------------------------------------------------------------
(* The graphs of the Builder *)

\* A step of a graph with k steps, as its form posts it.
Posted(node, k) ==
  /\ node.type \in NodeTypes /\ node.inputs \in Seq(1..k)
  /\ node.proc \in ProcIds \cup {NoProc}
  /\ node.type = "import" => node.source \in Sources
  /\ node.type = "filter" => node.config \in Filters
  /\ node.type = "test" => node.config \in Checks
  /\ node.type = "join" => node.config.mode \in JoinModes

\* A graph of the Builder: its steps are numbered in the order they were added.
Built(g) ==
  /\ g.procs = Defined
  /\ Len(g.order) \in 0..MaxSteps /\ Ids(g) = 1..Len(g.order)
  /\ \A n \in Ids(g) : Posted(g.node[n], Len(g.order))

\* A step that is repointed to the new one is still a step of the form.
LEMMA RepointedPosted ==
  ASSUME NEW node, NEW k \in Nat, Posted(node, k), New = k + 1, NEW up
  PROVE  Posted([node EXCEPT !.inputs = Repointed(@, up)], k + 1)
<1>1. node.inputs \in Seq(1..k)
  BY DEF Posted
<1>2. Repointed(node.inputs, up) \in Seq(1..(k + 1))
  BY <1>1 DEF Repointed
<1> QED
  BY <1>2 DEF Posted

\* insertStep leaves a graph of the Builder.
LEMMA InsertBuilds ==
  ASSUME Built(graph), graph.order \in Seq(NodeIds), Room,
         NEW type, NEW src, NEW inputs, NEW down, NEW config, NEW proc,
         Posted([type |-> type, source |-> src, inputs |-> inputs, config |-> config,
                 proc |-> proc], Len(graph.order)),
         Insert(type, src, inputs, down, config, proc)
  PROVE  (Built(graph) /\ graph.order \in Seq(NodeIds))'
<1> DEFINE L == Len(graph.order)
           node == [type |-> type, source |-> src, inputs |-> inputs,
                    config |-> config, proc |-> proc]
           f == [m \in Steps |->
                   IF m \in down
                   THEN [graph.node[m] EXCEPT !.inputs = Repointed(@, inputs[1])]
                   ELSE graph.node[m]]
           A == {f[m] : m \in Steps} \cup {node}
<1>1. /\ graph'.order = Append(graph.order, New) /\ graph'.node = Append(f, node)
      /\ graph'.procs = graph.procs
  BY DEF Insert
<1>2. L \in Nat /\ New = L + 1 /\ L + 1 <= MaxSteps /\ Steps = 1..L /\ MaxSteps \in Nat
  BY DataAssumption DEF Built, New, Room, Steps
<1>3. \A m \in 1..L : Posted(graph.node[m], L)
  BY <1>2 DEF Built, Steps
<1>4. \A m \in 1..L : Posted(f[m], L + 1)
  <2> TAKE m \in 1..L
  <2>1. CASE m \in down
    <3> DEFINE old == graph.node[m]
               u == inputs[1]
    <3>1. f[m] = [old EXCEPT !.inputs = Repointed(@, u)]
      BY <1>2, <2>1
    <3>2. Posted(old, L)
      BY <1>3
    <3> HIDE DEF u, old, f
    <3>3. Posted([old EXCEPT !.inputs = Repointed(@, u)], L + 1)
      BY <1>2, <3>2, RepointedPosted
    <3> QED
      BY <3>1, <3>3
  <2>2. CASE m \notin down
    <3>1. f[m] = graph.node[m]
      BY <1>2, <2>2
    <3>2. Seq(1..L) \subseteq Seq(1..(L + 1))
      BY <1>2
    <3> QED
      BY <1>3, <3>1, <3>2 DEF Posted
  <2> QED
    BY <2>1, <2>2
<1>5. Posted(node, L + 1)
  <2>1. Seq(1..L) \subseteq Seq(1..(L + 1))
    BY <1>2
  <2> HIDE DEF node
  <2> QED
    BY <2>1 DEF Posted, node
<1>6. f \in Seq(A) /\ node \in A /\ Len(f) = L
  <2>1. f \in [1..L -> A]
    BY <1>2
  <2> HIDE DEF f, A
  <2> QED
    BY <1>2, <2>1 DEF A
<1> HIDE DEF f, node, A
<1>7. DOMAIN graph'.node = 1..(L + 1) /\ \A m \in 1..(L + 1) : Posted(graph'.node[m], L + 1)
  <2>1. /\ Append(f, node) \in Seq(A) /\ Len(Append(f, node)) = L + 1
        /\ \A i \in 1..L : Append(f, node)[i] = f[i]
        /\ Append(f, node)[L + 1] = node
    BY <1>6, AppendProperties
  <2>2. DOMAIN Append(f, node) = 1..(L + 1)
    BY <2>1, LenProperties
  <2>3. \A m \in 1..(L + 1) : m \in 1..L \/ m = L + 1
    BY <1>2
  <2> QED
    BY <1>1, <1>4, <1>5, <2>1, <2>2, <2>3
<1>8. graph'.order \in Seq(NodeIds) /\ Len(graph'.order) = L + 1
  <2>1. New \in NodeIds
    BY <1>2, DataAssumption
  <2> QED
    BY <1>1, <2>1, AppendProperties
<1> QED
  BY <1>1, <1>2, <1>7, <1>8 DEF Built, Ids

BuilderInv == Built(graph) /\ graph.order \in Seq(NodeIds)

\* However the author adds steps, the graph stays one of the Builder.
LEMMA BuilderInvariant == BuilderSpec => []BuilderInv
<1>1. BuilderInit => BuilderInv
  BY DataAssumption DEF BuilderInit, BuilderInv, Built, Ids
<1>2. ASSUME BuilderInv, [BuilderNext]_graph PROVE BuilderInv'
  <2> DEFINE L == Len(graph.order)
  <2>1. L \in Nat /\ Steps = 1..L
    BY <1>2, DataAssumption DEF BuilderInv, Built, Steps
  <2>2. \A up, right \in Steps : <<up>> \in Seq(1..L) /\ <<up, right>> \in Seq(1..L) /\ <<>> \in Seq(1..L)
    BY <2>1
  <2> DEFINE N(type, src, inputs, config, proc) ==
               [type |-> type, source |-> src, inputs |-> inputs, config |-> config, proc |-> proc]
  <2>3. ASSUME Room, NEW type, NEW src, NEW inputs, NEW down, NEW config, NEW proc,
               Insert(type, src, inputs, down, config, proc),
               Posted([type |-> type, source |-> src, inputs |-> inputs, config |-> config,
                       proc |-> proc], L)
        PROVE  BuilderInv'
    BY <1>2, <2>3, InsertBuilds DEF BuilderInv
  <2>4. CASE AddImport
    <3>1. PICK s \in Sources : Room /\ Insert("import", s, <<>>, {}, NoConfig, NoProc)
      BY <2>4 DEF AddImport
    <3>2. Posted(N("import", s, <<>>, NoConfig, NoProc), L)
      BY <2>1 DEF Posted, NodeTypes
    <3> QED
      BY <2>3, <3>1, <3>2
  <2>5. CASE AddFilter
    <3>1. PICK up \in Steps, f \in Filters :
            /\ Room
            /\ \E down \in Below(up) : Insert("filter", NoSource, <<up>>, down, f, NoProc)
      BY <2>5 DEF AddFilter
    <3>2. Posted(N("filter", NoSource, <<up>>, f, NoProc), L)
      BY <2>2 DEF Posted, NodeTypes
    <3> QED
      BY <2>3, <3>1, <3>2
  <2>6. CASE AddJoin
    <3>1. PICK up \in Steps, right \in Steps, m \in Modes :
            /\ Room
            /\ \E down \in Below(up) :
                 Insert("join", NoSource, <<up, right>>, down, [mode |-> m], NoProc)
      BY <2>6 DEF AddJoin
    <3>2. Posted(N("join", NoSource, <<up, right>>, [mode |-> m], NoProc), L)
      BY <2>2, DataAssumption DEF Posted, NodeTypes
    <3> QED
      BY <2>3, <3>1, <3>2
  <2>7. CASE AddTransform
    <3>1. PICK up \in Steps, rows \in Customs :
            /\ Room
            /\ \E down \in Below(up) :
                 Insert("transform", NoSource, <<up>>, down, [keep |-> rows], NoProc)
      BY <2>7 DEF AddTransform
    <3>2. Posted(N("transform", NoSource, <<up>>, [keep |-> rows], NoProc), L)
      BY <2>2 DEF Posted, NodeTypes
    <3> QED
      BY <2>3, <3>1, <3>2
  <2>8. CASE AddTest
    <3>1. PICK up \in Steps, c \in Checks, p \in ProcIds \cup {NoProc} :
            /\ Room
            /\ \E down \in Below(up) : Insert("test", NoSource, <<up>>, down, c, p)
      BY <2>8 DEF AddTest
    <3>2. Posted(N("test", NoSource, <<up>>, c, p), L)
      BY <2>2 DEF Posted, NodeTypes
    <3> QED
      BY <2>3, <3>1, <3>2
  <2>9. CASE AddCheck
    <3>1. PICK up \in Steps, rows \in Customs, p \in ProcIds \cup {NoProc} :
            /\ Room
            /\ \E down \in Below(up) : Insert("check", NoSource, <<up>>, down, [keep |-> rows], p)
      BY <2>9 DEF AddCheck
    <3>2. Posted(N("check", NoSource, <<up>>, [keep |-> rows], p), L)
      BY <2>2 DEF Posted, NodeTypes
    <3> QED
      BY <2>3, <3>1, <3>2
  <2>10. CASE UNCHANGED graph
    <3> DEFINE g == graph'
    <3>1. g = graph
      BY <2>10
    <3> QED
      BY <1>2, <2>10 DEF BuilderInv, Built, Ids
  <2> QED
    BY <1>2, <2>4, <2>5, <2>6, <2>7, <2>8, <2>9, <2>10 DEF BuilderNext
<1> QED
  BY <1>1, <1>2, PTL DEF BuilderSpec

\* What the lemmas on procedures and bands need of a graph of the Builder.
LEMMA BuiltGraphs ==
  ASSUME BuilderInv
  PROVE  /\ graph.procs \in Seq(ProcIds) /\ Ids(graph) \subseteq NodeIds
         /\ \A n \in Ids(graph) : graph.node[n].inputs \in Seq(NodeIds)
<1> DEFINE L == Len(graph.order)
<1>1. L \in Nat /\ L <= MaxSteps /\ Ids(graph) = 1..L /\ NodeIds = 1..MaxSteps
  BY DataAssumption DEF BuilderInv, Built
<1>2. 1..L \subseteq NodeIds
  BY <1>1, DataAssumption
<1>3. \A n \in Ids(graph) : graph.node[n].inputs \in Seq(1..L)
  BY DEF BuilderInv, Built, Posted
<1>4. Seq(1..L) \subseteq Seq(NodeIds)
  BY <1>2
<1> QED
  BY <1>1, <1>2, <1>3, <1>4, DataAssumption DEF BuilderInv, Built

\* Every Test is run by exactly one procedure.
THEOREM TestsRunOnce == BuilderSpec => []EveryTestOnce
<1>1. BuilderInv => EveryTestOnce
  <2> SUFFICES ASSUME BuilderInv, Parses(graph), NEW t \in Terminals(graph)
               PROVE  Cardinality({i \in DOMAIN EffectiveProcs(graph) :
                                     t \in TestsFor(graph, EffectiveProcs(graph)[i])}) = 1
    BY DEF EveryTestOnce
  <2>1. PICK i \in DOMAIN EffectiveProcs(graph) :
          {j \in DOMAIN EffectiveProcs(graph) : t \in TestsFor(graph, EffectiveProcs(graph)[j])} = {i}
    BY BuiltGraphs, TestOnce
  <2> QED
    BY <2>1, FS_Singleton
<1> QED
  BY <1>1, BuilderInvariant, PTL

\* group_nodes_by_band loses no step and shows none twice, and no step before one
\* it is computed from, whichever procedures the steps feed.
THEOREM BandsAreInOrder == BuilderSpec => []BandsInOrder
<1>1. BuilderInv => BandsInOrder
  <2> SUFFICES ASSUME BuilderInv, Parses(graph) PROVE BandsInOrder
    BY DEF BandsInOrder
  <2> DEFINE o == BandOrder(graph)
  <2>1. /\ o \in Seq(Ids(graph)) /\ IsInjective(o) /\ Range(o) = Ids(graph)
        /\ AfterInputs(graph, o)
    BY BuiltGraphs, BandsShowAll
  <2> HIDE DEF o
  <2>2. Cardinality(Ids(graph)) = Len(graph.order)
    BY WiredSize DEF Parses, Wired
  <2>3. Len(o) = Len(graph.order)
    BY <2>1, <2>2, RangeFinite
  <2>4. ASSUME NEW i \in DOMAIN o
        PROVE  InputsOf(graph, o[i]) \subseteq Range(SubSeq(o, 1, i - 1))
    <3>1. i \in 1..Len(o) /\ Len(o) \in Nat
      BY <2>1, <2>4, LenProperties
    <3>2. InputsOf(graph, o[i]) \subseteq {o[k] : k \in 1..(i - 1)}
      BY <2>1, <3>1 DEF AfterInputs
    <3> DEFINE q == SubSeq(o, 1, i - 1)
    <3>3. q = [k \in 1..(i - 1) |-> o[k]]
      BY <3>1
    <3>4. Range(q) = {o[k] : k \in 1..(i - 1)}
      BY <3>3 DEF Range
    <3> QED
      BY <3>2, <3>4
  <2> QED
    BY <2>1, <2>3, <2>4 DEF BandsInOrder, o
<1> QED
  BY <1>1, BuilderInvariant, PTL
----------------------------------------------------------------------------
(* Frames, of a graph and of the slice of a Test *)

\* What the lemmas on frames need of a graph.
Plain(g) ==
  /\ Parses(g)
  /\ \A n \in Ids(g) :
       /\ g.node[n].inputs \in Seq(Ids(g)) /\ TypeOf(g, n) \in NodeTypes
       /\ TypeOf(g, n) = "import" => g.node[n].source \in Sources
       /\ TypeOf(g, n) \in {"filter", "test"} =>
            /\ g.node[n].config.conds \in Seq(Conds)
            /\ g.node[n].config.logic \in {"all", "any"}

\* The frame at a node depends on the frames of its inputs only.
LEMMA StreamReads ==
  ASSUME NEW g, Plain(g), NEW n \in Ids(g), NEW data, NEW f, NEW h,
         \A m \in InputsOf(g, n) : f[m] = h[m]
  PROVE  Stream(g.node[n], data, f) = Stream(g.node[n], data, h)
<1> DEFINE node == g.node[n]
<1>1. node.inputs \in Seq(Ids(g)) /\ node.type \in NodeTypes /\ Arity(node.type, Len(node.inputs))
  BY DEF Plain, Parses, TypeOf
<1>2. \A i \in 1..Len(node.inputs) : f[node.inputs[i]] = h[node.inputs[i]]
  BY <1>1 DEF InputsOf, Range
<1> HIDE DEF node
<1>3. CASE node.type = "import"
  BY <1>3 DEF Stream, node
<1>4. CASE node.type = "join"
  <2>0. Len(node.inputs) = 2
    <3> DEFINE k == Len(node.inputs)
               type == node.type
    <3> HIDE DEF k, type
    <3>1. Arity(type, k) /\ type = "join"
      BY <1>1, <1>4 DEF k, type
    <3>2. k = 2
      BY <3>1 DEF Arity
    <3> QED
      BY <3>2 DEF k
  <2>1. 1 \in 1..Len(node.inputs) /\ 2 \in 1..Len(node.inputs)
    BY <2>0
  <2>2. f[node.inputs[1]] = h[node.inputs[1]] /\ f[node.inputs[2]] = h[node.inputs[2]]
    BY <1>2, <2>1
  <2>3. \A out : Stream(node, data, out) = Join(node.config.mode, out[node.inputs[1]], out[node.inputs[2]])
    BY <1>4 DEF Stream
  <2>4. Stream(node, data, f) = Stream(node, data, h)
    BY <2>2, <2>3
  <2> QED
    BY <2>4 DEF node
<1>5. CASE node.type \notin {"import", "join"}
  <2>1. 1 \in 1..Len(node.inputs)
    BY <1>1, <1>5 DEF Arity
  <2>2. f[node.inputs[1]] = h[node.inputs[1]]
    BY <1>2, <2>1
  <2> QED
    BY <1>1, <1>5, <2>2 DEF Stream, node, NodeTypes
<1> QED
  BY <1>3, <1>4, <1>5

\* The recursive definition of the streams has the solution it describes.
LEMMA StreamsDef ==
  ASSUME NEW g, Plain(g), NEW data
  PROVE  /\ DOMAIN Streams(g, data) = Ids(g)
         /\ \A n \in Ids(g) : Streams(g, data)[n] = Stream(g.node[n], data, Streams(g, data))
<1> DEFINE order == Topological(g)
           L == Len(order)
           Body(n, f) == Stream(g.node[n], data, f)
           Upto(i, f) == /\ f = [n \in Ids(g) |-> f[n]]
                         /\ \A j \in 1..i : f[order[j]] = Body(order[j], f)
           U == {i \in 0..L : \E f : Upto(i, f)}
<1>0. Wired(g) /\ Acyclic(g)
  BY DEF Plain, Parses, Wired
<1>1. /\ order \in Seq(Ids(g)) /\ IsInjective(order) /\ Range(order) = Ids(g)
      /\ AfterInputs(g, order)
  BY <1>0, TopologicalOrder
<1>2. L \in Nat /\ DOMAIN order = 1..L /\ \A j \in 1..L : order[j] \in Ids(g)
  BY <1>1, LenProperties
<1>3. Ids(g) = {order[j] : j \in 1..L}
  BY <1>1, RangeEquality
<1>4. \A j \in 1..L : InputsOf(g, order[j]) \subseteq {order[k] : k \in 1..(j - 1)}
  BY <1>1 DEF AfterInputs
<1>5. \A j, k \in 1..L : order[j] = order[k] => j = k
  BY <1>1, <1>2 DEF IsInjective
<1> HIDE DEF order, L
<1>6. \A n \in Ids(g) : \A f, h : (\A m \in InputsOf(g, n) : f[m] = h[m]) => Body(n, f) = Body(n, h)
  BY StreamReads
<1> HIDE DEF Body
<1>7. 0 \in U
  <2> DEFINE e == [n \in Ids(g) |-> 0]
  <2>1. Upto(0, e)
    OBVIOUS
  <2> HIDE DEF Upto
  <2> QED
    BY <1>2, <2>1
<1>8. ASSUME NEW i \in 1..L, i - 1 \in U PROVE i \in U
  <2>1. PICK f : Upto(i - 1, f)
    BY <1>8
  <2> DEFINE h == [f EXCEPT ![order[i]] = Body(order[i], f)]
  <2>2. f = [n \in Ids(g) |-> f[n]] /\ \A j \in 1..(i - 1) : f[order[j]] = Body(order[j], f)
    BY <2>1
  <2>3. order[i] \in Ids(g)
    BY <1>2
  <2>4. h = [n \in Ids(g) |-> h[n]] /\ h[order[i]] = Body(order[i], f)
    BY <2>2, <2>3
  <2>5. \A j \in 1..(i - 1) : j \in 1..L /\ order[j] # order[i] /\ h[order[j]] = f[order[j]]
    <3> TAKE j \in 1..(i - 1)
    <3>1. j \in 1..L /\ j # i
      BY <1>2
    <3>2. order[j] # order[i] /\ order[j] \in Ids(g)
      BY <1>2, <1>5, <3>1
    <3> QED
      BY <2>2, <3>1, <3>2
  <2> HIDE DEF h
  <2>6. ASSUME NEW j \in 1..i PROVE Body(order[j], f) = Body(order[j], h)
    <3>1. j \in 1..L /\ order[j] \in Ids(g)
      BY <1>2
    <3>2. \A m \in InputsOf(g, order[j]) : f[m] = h[m]
      <4> TAKE m \in InputsOf(g, order[j])
      <4>1. PICK k \in 1..(j - 1) : m = order[k]
        BY <1>4, <3>1
      <4>2. k \in 1..(i - 1)
        BY <1>2
      <4> QED
        BY <2>5, <4>1, <4>2
    <3> QED
      BY <1>6, <3>1, <3>2
  <2>7. ASSUME NEW j \in 1..i PROVE h[order[j]] = Body(order[j], h)
    <3>1. CASE j = i
      BY <2>4, <2>6, <3>1
    <3>2. CASE j # i
      <4>1. j \in 1..(i - 1)
        BY <1>2, <3>2
      <4> QED
        BY <2>2, <2>5, <2>6, <4>1
    <3> QED
      BY <3>1, <3>2
  <2>8. Upto(i, h)
    BY <2>4, <2>7
  <2> HIDE DEF Upto
  <2> QED
    BY <1>2, <2>8
<1>9. L \in U
  <2>1. \A i \in 1..L : i - 1 \in U => i \in U
    BY <1>8
  <2> HIDE DEF U
  <2>2. 0..L \subseteq U
    BY <1>2, <1>7, <2>1, UpToInduction
  <2> QED
    BY <1>2, <2>2
<1>10. PICK f : Upto(L, f)
  BY <1>9
<1>11. f = [n \in Ids(g) |-> Body(n, f)]
  <2>1. f = [n \in Ids(g) |-> f[n]] /\ \A j \in 1..L : f[order[j]] = Body(order[j], f)
    BY <1>10
  <2>2. \A n \in Ids(g) : f[n] = Body(n, f)
    BY <1>3, <2>1
  <2> QED
    BY <2>1, <2>2
<1>12. Streams(g, data) = CHOOSE out : out = [n \in Ids(g) |-> Body(n, out)]
  BY DEF Streams, Body
<1>13. Streams(g, data) = [n \in Ids(g) |-> Body(n, Streams(g, data))]
  BY <1>11, <1>12
<1> QED
  BY <1>13 DEF Body

\* The slice of a Test is a pipeline of its own, with that Test alone.
LEMMA SliceParses ==
  ASSUME NEW g, Plain(g), NEW t \in Terminals(g), NEW h, h = Slice(g, {t})
  PROVE  /\ Plain(h) /\ Ids(h) = Ancestors(g, t) /\ Terminals(h) = {t}
         /\ \A n \in Ids(h) : h.node[n] = g.node[n]
<1> DEFINE keep == Ancestors(g, t)
<1>0. Wired(g) /\ Acyclic(g) /\ Parses(g) /\ t \in Ids(g) /\ t \in Sinks(g) /\ TypeOf(g, t) \in TerminalTypes
  BY DEF Plain, Parses, Wired, Terminals, Sinks
<1>1. t \in keep /\ keep \subseteq Ids(g) /\ Closed(g, keep)
  BY <1>0, AncestorsClosed
<1> HIDE DEF keep
<1>2. h = [order |-> Only(g.order, keep), node |-> [n \in keep |-> g.node[n]], procs |-> <<>>]
  <2>1. UNION {Ancestors(g, x) : x \in {t}} = Ancestors(g, t)
    OBVIOUS
  <2> QED
    BY <2>1 DEF Slice, keep
<1>3. Ids(h) = keep /\ \A n \in keep : h.node[n] = g.node[n]
  <2> DEFINE nodes == [n \in keep |-> g.node[n]]
             order == Only(g.order, keep)
  <2>1. h = [order |-> order, node |-> nodes, procs |-> <<>>]
    BY <1>2
  <2>2. DOMAIN nodes = keep /\ \A n \in keep : nodes[n] = g.node[n]
    OBVIOUS
  <2> HIDE DEF nodes, order
  <2>3. h.node = nodes
    BY <2>1
  <2> QED
    BY <2>2, <2>3 DEF Ids
<1>4. \A n \in keep : InputsOf(h, n) = InputsOf(g, n) /\ TypeOf(h, n) = TypeOf(g, n)
  BY <1>3 DEF InputsOf, TypeOf
<1>5. \A n \in keep : InputsOf(g, n) \subseteq keep
  BY <1>1 DEF Closed
<1>6. Listed(h)
  <2> DEFINE o == Only(g.order, keep)
  <2>1. g.order \in Seq(Ids(g)) /\ Range(g.order) = Ids(g) /\ IsInjective(g.order)
    BY <1>0 DEF Parses, Listed
  <2>2. o \in Seq(Ids(g)) /\ IsInjective(o) /\ Range(o) = Range(g.order) \cap keep
    BY <2>1, OnlyRange
  <2>3. h.order = o
    BY <1>2
  <2> HIDE DEF o
  <2>4. Range(o) = keep
    BY <1>1, <2>1, <2>2
  <2>5. o \in Seq(keep)
    BY <2>2, <2>4 DEF Range
  <2> QED
    BY <1>3, <2>2, <2>3, <2>4, <2>5 DEF Listed
<1>7. Len(h.order) \in Nat
  BY <1>6, LenProperties DEF Listed
<1>8. Acyclic(h)
  <2> SUFFICES ASSUME NEW n \in keep, NEW m \in InputsOf(g, n) PROVE n \notin Ancestors(h, m)
    BY <1>3, <1>4 DEF Acyclic
  <2> DEFINE C == Ancestors(g, m)
  <2>1. m \in keep /\ m \in Ids(g) /\ n \in Ids(g)
    BY <1>1, <1>5
  <2>2. m \in C /\ Closed(g, C)
    BY <1>0, <2>1, AncestorsClosed
  <2>3. n \notin C
    BY <1>0, <2>1 DEF Acyclic
  <2> HIDE DEF C
  <2>4. Closed(h, C)
    BY <1>1, <1>3, <1>4, <2>2 DEF Closed
  <2>5. Ancestors(h, m) \subseteq C
    BY <1>7, <2>2, <2>4, AncestorsLeast
  <2> QED
    BY <2>3, <2>5
<1>9. t \in Sinks(h)
  <2>1. \A n \in keep : t \notin InputsOf(h, n)
    BY <1>0, <1>1, <1>4 DEF Sinks, Consumed
  <2> QED
    BY <1>1, <1>3, <2>1 DEF Sinks, Consumed
<1>10. ASSUME NEW n \in keep, n # t PROVE n \notin Sinks(h)
  <2> SUFFICES ASSUME \A m \in keep : n \notin InputsOf(g, m) PROVE FALSE
    BY <1>3, <1>4 DEF Sinks, Consumed
  <2> DEFINE C == keep \ {n}
  <2>1. t \in C /\ Closed(g, C)
    BY <1>1, <1>5, <1>10 DEF Closed
  <2>2. Len(g.order) \in Nat
    BY <1>0, WiredSize
  <2> HIDE DEF C
  <2>3. keep \subseteq C
    BY <2>1, <2>2, AncestorsLeast DEF keep
  <2> QED
    BY <2>3 DEF C
<1>11. Sinks(h) = {t} /\ Terminals(h) = {t}
  <2>1. Sinks(h) \subseteq keep
    BY <1>3 DEF Sinks
  <2>2. Sinks(h) = {t}
    BY <1>9, <1>10, <2>1
  <2>3. TypeOf(h, t) \in TerminalTypes
    BY <1>0, <1>1, <1>4
  <2> QED
    BY <2>2, <2>3 DEF Terminals
<1>12. Parses(h)
  <2>1. IsInjective(h.procs)
    BY <1>2 DEF IsInjective
  <2>2. \A n \in keep : /\ Arity(TypeOf(g, n), Len(g.node[n].inputs))
                        /\ InputsOf(g, n) \subseteq Ids(g) \ {n}
    BY <1>0, <1>1 DEF Parses
  <2>3. \A n \in Ids(h) : /\ Arity(TypeOf(h, n), Len(h.node[n].inputs))
                          /\ InputsOf(h, n) \subseteq Ids(h) \ {n}
    BY <1>3, <1>4, <1>5, <2>2
  <2> QED
    BY <1>6, <1>8, <1>11, <2>1, <2>3 DEF Parses
<1>13. \A n \in keep : g.node[n].inputs \in Seq(keep)
  <2> TAKE n \in keep
  <2>1. g.node[n].inputs \in Seq(Ids(g)) /\ Range(g.node[n].inputs) \subseteq keep
    BY <1>1, <1>5 DEF Plain, InputsOf
  <2> QED
    BY <2>1 DEF Range
<1>14. Plain(h)
  BY <1>1, <1>3, <1>4, <1>12, <1>13 DEF Plain
<1> QED
  BY <1>3, <1>11, <1>14 DEF keep

\* The steps of a slice compute what they compute in the whole graph.
LEMMA SliceStreams ==
  ASSUME NEW g, Plain(g), NEW t \in Terminals(g), NEW h, h = Slice(g, {t}), NEW data
  PROVE  \A n \in Ids(h) : Streams(h, data)[n] = Streams(g, data)[n]
<1> DEFINE D == {n \in Ids(h) : Streams(h, data)[n] # Streams(g, data)[n]}
<1>1. /\ Plain(h) /\ Ids(h) \subseteq Ids(g) /\ \A n \in Ids(h) : h.node[n] = g.node[n]
  <2>1. t \in Ids(g) /\ Wired(g)
    BY DEF Plain, Parses, Wired, Terminals, Sinks
  <2>2. Ancestors(g, t) \subseteq Ids(g)
    BY <2>1, AncestorsClosed
  <2>3. /\ Plain(h) /\ Ids(h) = Ancestors(g, t)
        /\ \A n \in Ids(h) : h.node[n] = g.node[n]
    BY SliceParses
  <2> QED
    BY <2>2, <2>3
<1>2. Wired(h) /\ Acyclic(h)
  BY <1>1 DEF Plain, Parses, Wired
<1> SUFFICES ASSUME D # {} PROVE FALSE
  OBVIOUS
<1>3. PICK n \in D : InputsOf(h, n) \cap D = {}
  <2>1. D \subseteq Ids(h)
    OBVIOUS
  <2> HIDE DEF D
  <2> QED
    BY <1>2, <2>1, FirstOfSet
<1>4. n \in Ids(h) /\ n \in Ids(g) /\ h.node[n] = g.node[n]
  BY <1>1
<1>5. \A m \in InputsOf(h, n) : Streams(h, data)[m] = Streams(g, data)[m]
  <2>1. InputsOf(h, n) \subseteq Ids(h)
    BY <1>2, <1>4 DEF Wired
  <2> QED
    BY <1>3, <2>1
<1>6. Stream(h.node[n], data, Streams(h, data)) = Stream(h.node[n], data, Streams(g, data))
  <2> DEFINE a == Streams(h, data)
             b == Streams(g, data)
  <2>1. Plain(h) /\ n \in Ids(h) /\ \A m \in InputsOf(h, n) : a[m] = b[m]
    BY <1>1, <1>4, <1>5
  <2> HIDE DEF a, b
  <2>2. Stream(h.node[n], data, a) = Stream(h.node[n], data, b)
    BY <2>1, StreamReads
  <2> QED
    BY <2>2 DEF a, b
<1>7. Streams(h, data)[n] = Streams(g, data)[n]
  BY <1>1, <1>4, <1>6, StreamsDef
<1> QED
  BY <1>3, <1>7
----------------------------------------------------------------------------
(* Compiled rules and checks *)

\* What CondsOf holds: the conditions of a node that are filled in.
LEMMA UsableConds ==
  ASSUME NEW conds \in Seq(Conds)
  PROVE  /\ Usable(conds) \in Seq(Conds)
         /\ Range(Usable(conds)) \subseteq {c \in Conds : c.kind # "blank"}
         /\ Usable(conds) = <<>> <=> Range(Usable(conds)) = {}
<1> DEFINE P == {c \in Range(conds) : c.kind # "blank"}
           u == Usable(conds)
<1>1. u \in Seq(Conds) /\ Range(u) = Range(conds) \cap P
  BY OnlyRange DEF Usable
<1> HIDE DEF u
<1>2. \A c \in Range(u) : c \in Conds /\ c.kind # "blank"
  BY <1>1 DEF Range
<1>3. u = <<>> <=> Range(u) = {}
  <2>1. u # <<>> => u[1] \in Range(u)
    BY <1>1 DEF Range
  <2>2. u = <<>> => Range(u) = {}
    BY DEF Range
  <2> QED
    BY <2>1, <2>2
<1> QED
  BY <1>1, <1>2, <1>3 DEF u

\* A condition other than is_duplicate looks at the row alone.
LEMMA PassesAnywhere ==
  ASSUME NEW c \in Conds, c.kind \notin {"blank", "duplicate"}, NEW r, NEW f, NEW h
  PROVE  Passes(c, r, f) = Passes(c, r, h)
<1>1. c.kind \in {"scalar", "exists", "not_exists"}
  BY DEF Conds
<1> QED
  BY <1>1 DEF Passes

\* The rows a rule with the logic "all" selects.
LEMMA SelectAll ==
  ASSUME NEW conds, NEW frame
  PROVE  Select(conds, "all", frame) = {r \in frame : \A c \in Range(conds) : Passes(c, r, frame)}
<1>1. \A r : (\A i \in DOMAIN conds : Passes(conds[i], r, frame))
               <=> (\A c \in Range(conds) : Passes(c, r, frame))
  BY DEF Range
<1> QED
  BY <1>1 DEF Select

\* A Filter with the logic "all" keeps what passes all its conditions, if any.
LEMMA NarrowedAll ==
  ASSUME NEW config, config.logic = "all", config.conds \in Seq(Conds), NEW frame
  PROVE  Narrowed(config, frame) =
           {r \in frame : \A c \in Range(Usable(config.conds)) : Passes(c, r, frame)}
<1> DEFINE u == Usable(config.conds)
<1>1. u = <<>> <=> Range(u) = {}
  BY UsableConds
<1>2. Select(u, "all", frame) = {r \in frame : \A c \in Range(u) : Passes(c, r, frame)}
  BY SelectAll
<1>3. Narrowed(config, frame) = IF u = <<>> THEN frame ELSE Select(u, "all", frame)
  BY DEF Narrowed
<1> HIDE DEF u
<1> QED
  BY <1>1, <1>2, <1>3 DEF u

\* In a pipeline of one source every Import reads it.
LEMMA OneSource ==
  ASSUME NEW g, Plain(g), Len(ImportSources(g)) = 1
  PROVE  \A n \in Ids(g) : TypeOf(g, n) = "import" => g.node[n].source = PrimaryOf(g)
<1> DEFINE s == ImportSources(g)
<1>1. /\ s \in Seq(Sources)
      /\ Range(s) = {g.node[n].source : n \in {n \in Ids(g) : TypeOf(g, n) = "import"}}
  <2>1. /\ \A n \in Ids(g) : g.node[n].inputs \in Seq(Ids(g))
        /\ \A n \in Ids(g) : TypeOf(g, n) = "import" => g.node[n].source \in Sources
        /\ Parses(g)
    BY DEF Plain
  <2> QED
    BY <2>1, ImportSourcesOf
<1>2. Len(s) = 1
  OBVIOUS
<1>3. PrimaryOf(g) = Head(s)
  BY DEF PrimaryOf
<1> HIDE DEF s
<1>4. Range(s) = {s[1]} /\ Head(s) = s[1]
  <2>1. Range(s) = {s[i] : i \in 1..1}
    BY <1>1, <1>2, RangeEquality
  <2>2. s # <<>>
    BY <1>2
  <2> QED
    BY <1>1, <2>1, <2>2
<1> QED
  BY <1>1, <1>3, <1>4

\* The Filters of a pipeline, and those a node is computed from.
FilterNodes(g) == {n \in Ids(g) : TypeOf(g, n) = "filter"}
CondsBefore(g, n) == UNION {CondsOf(g, m) : m \in FilterNodes(g) \cap Ancestors(g, n)}

LEMMA FiltersRange ==
  ASSUME NEW g, Plain(g)
  PROVE  FiltersOf(g) \in Seq(Ids(g)) /\ Range(FiltersOf(g)) = FilterNodes(g)
<1> DEFINE o == Topological(g)
           P == FilterNodes(g)
<1>1. o \in Seq(Ids(g)) /\ Range(o) = Ids(g)
  BY TopologicalOrder DEF Plain, Parses, Wired
<1>2. FiltersOf(g) = Only(o, P)
  BY DEF FiltersOf, FilterNodes
<1>3. P \subseteq Ids(g)
  BY DEF FilterNodes
<1> HIDE DEF o, P
<1>4. Only(o, P) \in Seq(Ids(g)) /\ Range(Only(o, P)) = Range(o) \cap P
  BY <1>1, OnlyRange
<1>5. Range(o) \cap P = P
  BY <1>1, <1>3
<1> QED
  BY <1>2, <1>4, <1>5 DEF P

\* The conditions of the flat rule are those of all Filters and of the Test.
LEMMA FlatRange ==
  ASSUME NEW g, Plain(g), TypeOf(g, Terminal(g)) = "test", Terminal(g) \in Ids(g)
  PROVE  /\ FlatConds(g) \in Seq(Conds)
         /\ Range(FlatConds(g)) =
              CondsOf(g, Terminal(g)) \cup UNION {CondsOf(g, n) : n \in FilterNodes(g)}
         /\ FiltersOf(g) = <<>> => FlatConds(g) = Usable(g.node[Terminal(g)].config.conds)
<1> DEFINE F == FiltersOf(g)
           u(n) == Usable(g.node[n].config.conds)
           lists == [i \in DOMAIN F |-> u(F[i])]
           last == u(Terminal(g))
<1>1. F \in Seq(Ids(g)) /\ Range(F) = FilterNodes(g)
  BY FiltersRange
<1>2. \A n \in FilterNodes(g) \cup {Terminal(g)} : u(n) \in Seq(Conds)
  <2> TAKE n \in FilterNodes(g) \cup {Terminal(g)}
  <2>1. g.node[n].config.conds \in Seq(Conds)
    BY DEF Plain, FilterNodes
  <2> QED
    BY <2>1, UsableConds
<1>3. FlatConds(g) = FlattenSeq(lists) \o last
  BY DEF FlatConds
<1>4. \A n : CondsOf(g, n) = Range(u(n))
  BY DEF CondsOf
<1> HIDE DEF F, u
<1>5. Len(F) \in Nat /\ DOMAIN F = 1..Len(F) /\ \A i \in DOMAIN F : F[i] \in FilterNodes(g)
  BY <1>1 DEF Range
<1>6. lists \in Seq(Seq(Conds)) /\ DOMAIN lists = DOMAIN F /\ \A i \in DOMAIN F : lists[i] = u(F[i])
  BY <1>2, <1>5
<1>7. last \in Seq(Conds)
  BY <1>2
<1> HIDE DEF lists, last
<1>8. /\ FlattenSeq(lists) \in Seq(Conds)
      /\ Range(FlattenSeq(lists)) = UNION {Range(lists[i]) : i \in DOMAIN lists}
  BY <1>6, FlattenRange
<1>9. UNION {Range(lists[i]) : i \in DOMAIN lists} = UNION {CondsOf(g, n) : n \in FilterNodes(g)}
  <2>1. \A i \in DOMAIN F : Range(lists[i]) = CondsOf(g, F[i])
    BY <1>4, <1>6
  <2>2. FilterNodes(g) = {F[i] : i \in DOMAIN F}
    BY <1>1 DEF Range
  <2> QED
    BY <1>6, <2>1, <2>2
<1>10. Range(FlattenSeq(lists) \o last) = Range(FlattenSeq(lists)) \cup Range(last)
  BY <1>7, <1>8, RangeConcatenation
<1>11. ASSUME F = <<>> PROVE FlattenSeq(lists) \o last = last
  <2>1. DOMAIN lists = {}
    BY <1>6, <1>11
  <2>2. Len(lists) = 0
    BY <1>6, <2>1
  <2>3. lists = <<>>
    BY <1>6, <2>2, EmptySeq
  <2>4. FlattenSeq(lists) = <<>>
    BY <2>2, <2>3 DEF FlattenSeq
  <2> QED
    BY <1>7, <2>4
<1>12. Range(last) = CondsOf(g, Terminal(g))
  BY <1>4 DEF last
<1>13. FlatConds(g) \in Seq(Conds)
  BY <1>3, <1>7, <1>8, ConcatProperties
<1>14. Range(FlatConds(g)) = CondsOf(g, Terminal(g)) \cup UNION {CondsOf(g, n) : n \in FilterNodes(g)}
  BY <1>3, <1>8, <1>9, <1>10, <1>12
<1>15. F = <<>> => FlatConds(g) = u(Terminal(g))
  BY <1>3, <1>11 DEF last
<1> QED
  BY <1>13, <1>14, <1>15 DEF F, u

\* A linear chain of Filters that ends in one Test, as _try_pure_rule_spec takes it.
LEMMA ChainShape ==
  ASSUME NEW g, Plain(g), PureSingleSource(g), LinearChain(g)
  PROVE  /\ Terminals(g) = {Terminal(g)} /\ Terminal(g) \in Ids(g)
         /\ TypeOf(g, Terminal(g)) = "test"
         /\ \A n \in Ids(g) :
              \/ TypeOf(g, n) = "import"
              \/ /\ InputsOf(g, n) = {g.node[n].inputs[1]}
                 /\ g.node[n].inputs[1] \in Ids(g) \ {n, Terminal(g)}
                 /\ n # Terminal(g) => TypeOf(g, n) = "filter"
<1> DEFINE T == Terminal(g)
<1>1. Terminals(g) = {T}
  <2>1. Cardinality(Terminals(g)) = 1
    BY DEF PureSingleSource
  <2>2. Terminals(g) \subseteq Ids(g) /\ IsFiniteSet(Ids(g))
    BY WiredSize DEF Terminals, Sinks, Plain, Parses, Wired
  <2>3. \E x : Terminals(g) = {x}
    BY <2>1, <2>2, FS_Subset, FS_Singleton
  <2> QED
    BY <2>3 DEF Terminal
<1>2. T \in Ids(g) /\ T \in Sinks(g) /\ TypeOf(g, T) \in TerminalTypes
  BY <1>1 DEF Terminals, Sinks
<1> HIDE DEF T
<1>3. TypeOf(g, T) = "test"
  BY <1>2 DEF PureSingleSource, TerminalTypes
<1>4. ASSUME NEW n \in Ids(g), TypeOf(g, n) # "import"
      PROVE  /\ InputsOf(g, n) = {g.node[n].inputs[1]}
             /\ g.node[n].inputs[1] \in Ids(g) \ {n, T}
             /\ n # T => TypeOf(g, n) = "filter"
  <2>1. Len(g.node[n].inputs) = 1 /\ (n # T => TypeOf(g, n) = "filter")
    BY <1>4 DEF LinearChain, T
  <2>2. g.node[n].inputs \in Seq(Ids(g)) /\ InputsOf(g, n) \subseteq Ids(g) \ {n}
    BY DEF Plain, Parses
  <2>3. InputsOf(g, n) = {g.node[n].inputs[1]}
    <3>1. DOMAIN g.node[n].inputs = 1..1
      BY <2>1, <2>2
    <3>2. \A i : i \in 1..1 <=> i = 1
      OBVIOUS
    <3> QED
      BY <3>1, <3>2 DEF InputsOf, Range
  <2>4. T \notin InputsOf(g, n)
    BY <1>2 DEF Sinks, Consumed
  <2> QED
    BY <2>1, <2>2, <2>3, <2>4
<1> QED
  BY <1>1, <1>2, <1>3, <1>4 DEF T

\* Before the Test such a chain has narrowed the population by every condition
\* on the way, each judged over the population.
LEMMA ChainFrames ==
  ASSUME NEW g, Plain(g), PureSingleSource(g), LinearChain(g),
         \A n \in FilterNodes(g) : g.node[n].config.logic = "all",
         \A n \in FilterNodes(g) : \A c \in CondsOf(g, n) : c.kind # "duplicate",
         NEW pop, pop = DataOf[PrimaryOf(g)]
  PROVE  \A n \in Ids(g) \ {Terminal(g)} :
           Streams(g, DataOf)[n] = {r \in pop : \A c \in CondsBefore(g, n) : Passes(c, r, pop)}
<1> DEFINE str == Streams(g, DataOf)
           Right(n) == str[n] = {r \in pop : \A c \in CondsBefore(g, n) : Passes(c, r, pop)}
           D == {n \in Ids(g) \ {Terminal(g)} : ~Right(n)}
<1>0. Wired(g) /\ Acyclic(g) /\ Parses(g)
  BY DEF Plain, Parses, Wired
<1>1. \A n \in Ids(g) : str[n] = Stream(g.node[n], DataOf, str)
  BY StreamsDef
<1> HIDE DEF str
<1> SUFFICES ASSUME D # {} PROVE FALSE
  BY DEF str
<1>2. PICK n \in D : InputsOf(g, n) \cap D = {}
  <2>1. D \subseteq Ids(g)
    OBVIOUS
  <2> HIDE DEF D
  <2> QED
    BY <1>0, <2>1, FirstOfSet
<1> HIDE DEF Right
<1>3. n \in Ids(g) /\ n # Terminal(g) /\ ~Right(n)
  OBVIOUS
<1>4. ASSUME TypeOf(g, n) = "import" PROVE Right(n)
  <2>1. str[n] = pop
    <3>1. str[n] = DataOf[g.node[n].source]
      BY <1>1, <1>3, <1>4 DEF Stream, TypeOf
    <3>2. g.node[n].source = PrimaryOf(g)
      BY <1>3, <1>4, OneSource DEF PureSingleSource
    <3> QED
      BY <3>1, <3>2
  <2>2. InputsOf(g, n) = {}
    <3>1. g.node[n].inputs \in Seq(Ids(g)) /\ Len(g.node[n].inputs) = 0
      BY <1>0, <1>3, <1>4 DEF Plain, Parses, Arity
    <3> QED
      BY <3>1 DEF InputsOf, Range
  <2>3. Ancestors(g, n) = {n}
    BY <1>0, <1>3, <2>2, AncestorsOfInputs
  <2>4. CondsBefore(g, n) = {}
    BY <1>4, <2>3 DEF CondsBefore, FilterNodes
  <2> QED
    BY <2>1, <2>4 DEF Right
<1>5. ASSUME TypeOf(g, n) = "filter" PROVE Right(n)
  <2> DEFINE m == g.node[n].inputs[1]
             conds == CondsOf(g, n)
             node == g.node[n]
  <2>1. InputsOf(g, n) = {m} /\ m \in Ids(g) \ {n, Terminal(g)}
    BY <1>3, <1>5, ChainShape
  <2>2. Right(m)
    BY <1>2, <2>1
  <2>3. str[n] = Narrowed(node.config, str[m])
    BY <1>1, <1>3, <1>5 DEF Stream, TypeOf
  <2>4. node.config.logic = "all" /\ node.config.conds \in Seq(Conds) /\ n \in FilterNodes(g)
    BY <1>3, <1>5 DEF Plain, FilterNodes
  <2>5. conds = Range(Usable(node.config.conds)) /\ \A c \in conds : c \in Conds /\ c.kind \notin {"blank", "duplicate"}
    <3>1. conds = Range(Usable(node.config.conds))
      BY DEF CondsOf
    <3>2. Range(Usable(node.config.conds)) \subseteq {c \in Conds : c.kind # "blank"}
      BY <2>4, UsableConds
    <3>3. \A c \in conds : c.kind # "duplicate"
      BY <2>4
    <3> HIDE DEF conds
    <3> QED
      BY <3>1, <3>2, <3>3
  <2> HIDE DEF m, conds, node
  <2>6. str[n] = {r \in str[m] : \A c \in conds : Passes(c, r, str[m])}
    BY <2>3, <2>4, <2>5, NarrowedAll
  <2>7. \A c \in conds : \A r : Passes(c, r, str[m]) = Passes(c, r, pop)
    <3> DEFINE f == str[m]
    <3> HIDE DEF f
    <3>1. \A c \in conds : \A r : Passes(c, r, f) = Passes(c, r, pop)
      BY <2>5, PassesAnywhere
    <3> QED
      BY <3>1 DEF f
  <2>8. CondsBefore(g, n) = conds \cup CondsBefore(g, m)
    <3>1. Ancestors(g, n) = {n} \cup Ancestors(g, m)
      BY <1>0, <1>3, <2>1, AncestorsOfInputs
    <3> DEFINE A == Ancestors(g, n)
               B == Ancestors(g, m)
    <3>2. FilterNodes(g) \cap A = {n} \cup (FilterNodes(g) \cap B)
      BY <2>4, <3>1
    <3> HIDE DEF A, B
    <3> QED
      BY <3>2 DEF CondsBefore, A, B, conds
  <2>9. str[m] = {r \in pop : \A c \in CondsBefore(g, m) : Passes(c, r, pop)}
    BY <2>2 DEF Right
  <2>10. str[n] = {r \in str[m] : \A c \in conds : Passes(c, r, pop)}
    BY <2>6, <2>7
  <2>11. \A r : r \in str[n] <=> r \in pop /\ \A c \in conds \cup CondsBefore(g, m) : Passes(c, r, pop)
    BY <2>9, <2>10
  <2> QED
    BY <2>8, <2>10, <2>11 DEF Right
<1>6. TypeOf(g, n) \in {"import", "filter"}
  BY <1>3, ChainShape
<1> QED
  BY <1>3, <1>4, <1>5, <1>6

\* The rule that a chain is flattened into flags what its Test flags, but for
\* an is_duplicate behind a Filter and a Test without conditions.
LEMMA FlatRule ==
  ASSUME NEW g, Plain(g), Flattens(g), ~DuplicateBehindFilter(g), ~EmptyTestBehindFilter(g),
         NEW pop, pop = DataOf[PrimaryOf(g)]
  PROVE  Streams(g, DataOf)[Terminal(g)] =
           Select(FlatConds(g), g.node[Terminal(g)].config.logic, pop)
<1> DEFINE T == Terminal(g)
           str == Streams(g, DataOf)
           node == g.node[T]
           m == node.inputs[1]
           u == Usable(node.config.conds)
           before == UNION {CondsOf(g, n) : n \in FilterNodes(g)}
<1>0. Wired(g) /\ Acyclic(g) /\ Parses(g) /\ PureSingleSource(g) /\ LinearChain(g)
  BY DEF Plain, Parses, Wired, Flattens
<1>1. /\ Terminals(g) = {T} /\ T \in Ids(g) /\ TypeOf(g, T) = "test"
      /\ InputsOf(g, T) = {m} /\ m \in Ids(g) \ {T}
      /\ TypeOf(g, m) \in {"import", "filter"}
  <2>1. Terminals(g) = {T} /\ T \in Ids(g) /\ TypeOf(g, T) = "test"
    BY <1>0, ChainShape
  <2>2. InputsOf(g, T) = {m} /\ m \in Ids(g) \ {T}
    BY <1>0, <2>1, ChainShape
  <2>3. TypeOf(g, m) \in {"import", "filter"}
    BY <1>0, <2>2, ChainShape
  <2> QED
    BY <2>1, <2>2, <2>3
<1>2. str[T] = Flagged(u, node.config.logic, str[m])
  <2>1. str[T] = Stream(node, DataOf, str)
    BY <1>1, StreamsDef
  <2> HIDE DEF str
  <2> QED
    BY <1>1, <2>1 DEF Stream, TypeOf
<1>3. /\ FlatConds(g) \in Seq(Conds) /\ FlatConds(g) # <<>>
      /\ Range(FlatConds(g)) = CondsOf(g, T) \cup before
      /\ FiltersOf(g) = <<>> => FlatConds(g) = u
  BY <1>1, FlatRange DEF Flattens
<1>4. FiltersOf(g) \in Seq(Ids(g)) /\ Range(FiltersOf(g)) = FilterNodes(g)
  BY FiltersRange
<1>5. /\ CondsOf(g, T) = Range(u)
      /\ \A c \in CondsOf(g, T) : c \in Conds /\ c.kind # "blank"
      /\ u = <<>> <=> CondsOf(g, T) = {}
  <2>1. CondsOf(g, T) = Range(u)
    BY DEF CondsOf
  <2>2. node.config.conds \in Seq(Conds)
    BY <1>1 DEF Plain
  <2>3. Range(u) \subseteq {c \in Conds : c.kind # "blank"} /\ (u = <<>> <=> Range(u) = {})
    BY <2>2, UsableConds
  <2> HIDE DEF u
  <2> QED
    BY <2>1, <2>3
<1>6. ASSUME NEW n \in FilterNodes(g), NEW c \in CondsOf(g, n)
      PROVE  \A d \in CondsOf(g, T) \cup before : d.kind # "duplicate"
  <2>1. \A i \in DOMAIN FlatConds(g) : FlatConds(g)[i].kind # "duplicate"
    BY <1>4, <1>6 DEF DuplicateBehindFilter
  <2> HIDE DEF before
  <2> QED
    BY <1>3, <2>1 DEF Range
<1>7. str[m] = {r \in pop : \A c \in CondsBefore(g, m) : Passes(c, r, pop)}
  <2>1. \A n \in FilterNodes(g) : \A c \in CondsOf(g, n) : c.kind # "duplicate"
    BY <1>6
  <2>2. ASSUME NEW n \in FilterNodes(g) PROVE g.node[n].config.logic = "all"
    <3>1. n \in Ids(g) /\ TypeOf(g, n) = "filter" /\ n # T
      BY <1>1 DEF FilterNodes
    <3>2. g.node[n].config.logic = node.config.logic
      BY <1>0, <3>1 DEF LinearChain
    <3>3. FiltersOf(g) # <<>>
      BY <1>4 DEF Range
    <3> QED
      BY <3>2, <3>3 DEF Flattens
  <2> QED
    BY <1>0, <1>1, <2>1, <2>2, ChainFrames
<1>8. CondsBefore(g, m) = before
  <2>1. Ancestors(g, T) = {T} \cup Ancestors(g, m)
    BY <1>0, <1>1, AncestorsOfInputs
  <2>2. \A n \in Ids(g) : n \in Ancestors(g, T)
    BY <1>0, <1>1, FeedsTest
  <2>3. T \notin FilterNodes(g) /\ FilterNodes(g) \subseteq Ids(g)
    BY <1>1 DEF FilterNodes
  <2> DEFINE A == Ancestors(g, m)
  <2>4. FilterNodes(g) \cap A = FilterNodes(g)
    BY <2>1, <2>2, <2>3
  <2> HIDE DEF A
  <2> QED
    BY <2>4 DEF CondsBefore, A
<1> HIDE DEF T, str, node, m, u, before
<1>9. CASE FiltersOf(g) = <<>>
  <2>1. FilterNodes(g) = {}
    BY <1>4, <1>9 DEF Range
  <2>2. before = {}
    BY <2>1 DEF before
  <2>3. str[m] = pop
    BY <1>7, <1>8, <2>2
  <2>4. FlatConds(g) = u /\ u # <<>>
    BY <1>3, <1>9
  <2>5. str[T] = Select(u, node.config.logic, pop)
    BY <1>2, <2>3, <2>4 DEF Flagged
  <2> QED
    BY <2>4, <2>5 DEF str, T, node
<1>10. CASE FiltersOf(g) # <<>>
  <2>1. node.config.logic = "all"
    BY <1>10 DEF Flattens, node, T
  <2>2. u # <<>>
    BY <1>5 DEF EmptyTestBehindFilter, T
  <2> DEFINE f == str[m]
  <2>3. str[T] = {r \in f : \A c \in CondsOf(g, T) : Passes(c, r, f)}
    <3>1. str[T] = Select(u, "all", f)
      BY <1>2, <2>1, <2>2 DEF Flagged
    <3> HIDE DEF f
    <3> QED
      BY <1>5, <3>1, SelectAll
  <2>4. ASSUME NEW c \in CondsOf(g, T), NEW r PROVE Passes(c, r, f) = Passes(c, r, pop)
    <3>1. CASE before = {}
      <4>1. f = pop
        BY <1>7, <1>8, <3>1
      <4> QED
        BY <4>1
    <3>2. CASE before # {}
      <4>1. \E n \in FilterNodes(g) : CondsOf(g, n) # {}
        BY <3>2 DEF before
      <4>2. c.kind # "duplicate"
        BY <1>6, <2>4, <4>1
      <4>3. c \in Conds /\ c.kind \notin {"blank", "duplicate"}
        BY <1>5, <4>2
      <4> HIDE DEF f
      <4> QED
        BY <4>3, PassesAnywhere
    <3> QED
      BY <3>1, <3>2
  <2>5. str[T] = {r \in f : \A c \in CondsOf(g, T) : Passes(c, r, pop)}
    BY <2>3, <2>4
  <2>6. Select(FlatConds(g), "all", pop) = {r \in pop : \A c \in CondsOf(g, T) \cup before : Passes(c, r, pop)}
    <3>1. Select(FlatConds(g), "all", pop) = {r \in pop : \A c \in Range(FlatConds(g)) : Passes(c, r, pop)}
      BY SelectAll
    <3> QED
      BY <1>3, <3>1
  <2>7. \A r : r \in str[T] <=> r \in Select(FlatConds(g), "all", pop)
    BY <1>7, <1>8, <2>5, <2>6
  <2>8. str[T] = Select(FlatConds(g), "all", pop)
    BY <2>5, <2>6, <2>7
  <2> QED
    BY <2>1, <2>8 DEF str, T, node
<1> QED
  BY <1>9, <1>10

\* A check whose first Import is that of the control reads the sources as they are.
LEMMA DataIs ==
  ASSUME NEW g, PrimaryOf(g) \in Sources
  PROVE  TestData(g, DataOf[PrimaryOf(g)]) = DataOf
<1>1. DataOf \in [Sources -> SUBSET Rows]
  BY DataAssumption
<1> DEFINE p == PrimaryOf(g)
<1> HIDE DEF p
<1>2. [s \in Sources |-> IF s = p THEN DataOf[p] ELSE DataOf[s]] = [s \in Sources |-> DataOf[s]]
  OBVIOUS
<1>3. [s \in Sources |-> DataOf[s]] = DataOf
  BY <1>1
<1> QED
  BY <1>2, <1>3 DEF TestData, p

LEMMA PrimaryIsSource ==
  ASSUME NEW g, Plain(g)
  PROVE  PrimaryOf(g) \in Sources
<1>1. ImportSources(g) \in Seq(Sources) /\ ImportSources(g) # <<>>
  <2>1. /\ \A n \in Ids(g) : g.node[n].inputs \in Seq(Ids(g))
        /\ \A n \in Ids(g) : TypeOf(g, n) = "import" => g.node[n].source \in Sources
        /\ Parses(g)
    BY DEF Plain
  <2> QED
    BY <2>1, ImportSourcesOf
<1> QED
  BY <1>1 DEF PrimaryOf

\* What the compiled code of a pipeline flags over its own first source.
LEMMA CompiledIsStream ==
  ASSUME NEW g, Plain(g), ~DuplicateBehindFilter(g), ~EmptyTestBehindFilter(g)
  PROVE  CompiledFlags(g, DataOf[PrimaryOf(g)]) =
           UNION {Streams(g, DataOf)[t] : t \in Terminals(g)}
<1> DEFINE pop == DataOf[PrimaryOf(g)]
           str == Streams(g, DataOf)
           rule == Select(FlatConds(g), g.node[Terminal(g)].config.logic, pop)
<1>1. CASE Flattens(g)
  <2>1. CompiledFlags(g, pop) = rule
    BY <1>1 DEF CompiledFlags
  <2>2. Terminals(g) = {Terminal(g)}
    BY <1>1, ChainShape DEF Flattens
  <2>3. str[Terminal(g)] = rule
    BY <1>1, FlatRule
  <2> HIDE DEF str, rule, pop
  <2>4. UNION {str[t] : t \in Terminals(g)} = str[Terminal(g)]
    BY <2>2
  <2> QED
    BY <2>1, <2>3, <2>4 DEF str, pop
<1>2. CASE ~Flattens(g)
  <2>1. TestData(g, pop) = DataOf
    BY PrimaryIsSource, DataIs
  <2> HIDE DEF pop
  <2>2. CompiledFlags(g, pop) = UNION {Streams(g, TestData(g, pop))[t] : t \in Terminals(g)}
    BY <1>2 DEF CompiledFlags
  <2> QED
    BY <2>1, <2>2 DEF pop
<1> QED
  BY <1>1, <1>2

\* The compiled check of a Test flags what the preview shows at the Test.
LEMMA CheckIsStream ==
  ASSUME NEW g, Plain(g), NEW t \in Terminals(g), Faithful(g, Slice(g, {t}))
  PROVE  CheckFlags(g, t) = Streams(g, DataOf)[t]
<1> DEFINE h == Slice(g, {t})
<1>1. /\ ~DuplicateBehindFilter(h) /\ ~EmptyTestBehindFilter(h) /\ PrimaryOf(h) = PrimaryOf(g)
      /\ CheckFlags(g, t) = CompiledFlags(h, DataOf[PrimaryOf(g)])
  BY DEF Faithful, OtherPopulation, CheckFlags
<1>2. h = Slice(g, {t})
  OBVIOUS
<1> HIDE DEF h
<1>3. /\ Plain(h) /\ Ids(h) = Ancestors(g, t) /\ Terminals(h) = {t}
      /\ \A n \in Ids(h) : h.node[n] = g.node[n]
  BY <1>2, SliceParses
<1>4. t \in Ids(h)
  BY <1>3 DEF Terminals, Sinks
<1>5. Streams(h, DataOf)[t] = Streams(g, DataOf)[t]
  BY <1>2, <1>4, SliceStreams
<1>6. CompiledFlags(h, DataOf[PrimaryOf(h)]) = UNION {Streams(h, DataOf)[x] : x \in Terminals(h)}
  BY <1>1, <1>3, CompiledIsStream
<1> DEFINE str == Streams(h, DataOf)
<1> HIDE DEF str
<1>7. UNION {str[x] : x \in {t}} = str[t]
  OBVIOUS
<1> QED
  BY <1>1, <1>3, <1>5, <1>6, <1>7 DEF str
----------------------------------------------------------------------------
(* The theorems of checks and traces *)

\* What a Test flags that reads an Import.
LEMMA TestStream ==
  ASSUME NEW g, Plain(g), NEW t \in Ids(g), TypeOf(g, t) = "test",
         TypeOf(g, g.node[t].inputs[1]) = "import",
         NEW conds, conds = Usable(g.node[t].config.conds), conds # <<>>
  PROVE  Streams(g, DataOf)[t] =
           Select(conds, g.node[t].config.logic, DataOf[g.node[g.node[t].inputs[1]].source])
<1> DEFINE str == Streams(g, DataOf)
           node == g.node[t]
           m == node.inputs[1]
<1>1. m \in Ids(g)
  <2> DEFINE k == Len(node.inputs)
             type == TypeOf(g, t)
  <2>1. node.inputs \in Seq(Ids(g)) /\ Arity(type, k)
    BY DEF Plain, Parses
  <2>2. type = "test"
    OBVIOUS
  <2> HIDE DEF k, type
  <2>3. k >= 1
    BY <2>1, <2>2 DEF Arity
  <2> QED
    BY <2>1, <2>3 DEF k
<1>2. str[t] = Stream(node, DataOf, str) /\ str[m] = Stream(g.node[m], DataOf, str)
  BY <1>1, StreamsDef
<1> HIDE DEF str
<1>3. str[m] = DataOf[g.node[m].source]
  BY <1>2 DEF Stream, TypeOf
<1>4. str[t] = Flagged(conds, node.config.logic, str[m])
  BY <1>2 DEF Stream, TypeOf
<1> QED
  BY <1>3, <1>4 DEF Flagged, str

\* What the lemmas on frames need holds of the graphs of the Builder.
LEMMA BuiltPlain ==
  ASSUME BuilderInv, Parses(graph)
  PROVE  Plain(graph)
<1>1. Ids(graph) = 1..Len(graph.order) /\ \A n \in Ids(graph) : Posted(graph.node[n], Len(graph.order))
  BY DEF BuilderInv, Built
<1>2. \A c \in Filters \cup Checks : c.logic \in {"all", "any"} /\ c.conds \in Seq(Conds)
  BY DataAssumption
<1> SUFFICES ASSUME NEW n \in Ids(graph)
             PROVE  /\ graph.node[n].inputs \in Seq(Ids(graph)) /\ TypeOf(graph, n) \in NodeTypes
                    /\ TypeOf(graph, n) = "import" => graph.node[n].source \in Sources
                    /\ TypeOf(graph, n) \in {"filter", "test"} =>
                         /\ graph.node[n].config.conds \in Seq(Conds)
                         /\ graph.node[n].config.logic \in {"all", "any"}
  BY DEF Plain
<1> DEFINE node == graph.node[n]
<1>3. Posted(node, Len(graph.order)) /\ TypeOf(graph, n) = node.type
  BY <1>1 DEF TypeOf
<1> HIDE DEF node
<1>4. node.type \in {"filter", "test"} => node.config \in Filters \cup Checks
  BY <1>3 DEF Posted
<1>5. node.inputs \in Seq(Ids(graph)) /\ node.type \in NodeTypes /\ (node.type = "import" => node.source \in Sources)
  BY <1>1, <1>3 DEF Posted
<1> QED
  BY <1>2, <1>3, <1>4, <1>5 DEF node

\* Whether compile_pipeline flattens a graph into a rule or emits code for it, the
\* compiled tests flag what materialize_steps shows at the Tests, per check and for
\* the whole graph, except in the three ways that Faithful names.
THEOREM ChecksMatch == BuilderSpec => []ChecksMatchPreview
<1>1. BuilderInv => ChecksMatchPreview
  <2> SUFFICES ASSUME BuilderInv, Parses(graph)
               PROVE  /\ \A t \in Terminals(graph) :
                           Faithful(graph, Slice(graph, {t})) =>
                             CheckFlags(graph, t) = PreviewFrames(graph)[t]
                      /\ Faithful(graph, graph) =>
                           TestFlags(graph) = UNION {PreviewFrames(graph)[t] : t \in Terminals(graph)}
    BY DEF ChecksMatchPreview
  <2>1. Plain(graph)
    BY BuiltPlain
  <2>2. PreviewFrames(graph) = Streams(graph, DataOf)
    BY DEF PreviewFrames
  <2>3. \A t \in Terminals(graph) : Faithful(graph, Slice(graph, {t})) =>
          CheckFlags(graph, t) = Streams(graph, DataOf)[t]
    BY <2>1, CheckIsStream
  <2>4. Faithful(graph, graph) =>
          TestFlags(graph) = UNION {Streams(graph, DataOf)[t] : t \in Terminals(graph)}
    BY <2>1, CompiledIsStream DEF Faithful, TestFlags
  <2> QED
    BY <2>2, <2>3, <2>4
<1> QED
  BY <1>1, BuilderInvariant, PTL

\* A verdict that trace_record gives on a record, from the preview's frames or
\* from the conditions of the Test, is that of the compiled check.
THEOREM TracesMatch == BuilderSpec => []TraceMatchesRun
<1>1. BuilderInv => TraceMatchesRun
  <2> SUFFICES ASSUME BuilderInv, Parses(graph), NEW t \in Terminals(graph),
                      Faithful(graph, Slice(graph, {t})), NEW k, Judged(graph, t, k)
               PROVE  TraceFlagged(graph, t, k) = (k \in KeysOf(CheckFlags(graph, t)))
    BY DEF TraceMatchesRun
  <2>1. Plain(graph) /\ t \in Ids(graph) /\ TypeOf(graph, t) \in TerminalTypes
    BY BuiltPlain DEF Terminals, Sinks
  <2>2. CheckFlags(graph, t) = Streams(graph, DataOf)[t]
    BY <2>1, CheckIsStream
  <2>3. CASE FrameKnown(graph, t)
    BY <2>2, <2>3 DEF TraceFlagged, PreviewFrames
  <2>4. CASE ~FrameKnown(graph, t)
    <3> DEFINE config == graph.node[t].config
               m == graph.node[t].inputs[1]
               rows == DataOf[graph.node[m].source]
    <3>1. /\ TypeOf(graph, t) = "test" /\ TypeOf(graph, m) = "import"
          /\ config.conds # <<>> /\ Usable(config.conds) = config.conds
      BY <2>4 DEF Judged, JudgedByConditions
    <3>2. CheckFlags(graph, t) = Select(config.conds, config.logic, rows)
      BY <2>1, <2>2, <3>1, TestStream
    <3>3. TraceFlagged(graph, t, k) = \E r \in InputRows(graph, t, k) : RowFails(graph, t, r)
      BY <2>4 DEF TraceFlagged
    <3>4. InputRows(graph, t, k) = {r \in rows : KeyOf[r] = k}
      BY DEF InputRows
    <3>5. \A r : RowFails(graph, t, r) <=> r \in Select(config.conds, config.logic, rows)
      BY DEF RowFails
    <3> HIDE DEF config, rows
    <3>6. Select(config.conds, config.logic, rows) \subseteq rows
      BY DEF Select
    <3>7. TraceFlagged(graph, t, k) <=> k \in KeysOf(CheckFlags(graph, t))
      BY <3>2, <3>3, <3>4, <3>5, <3>6 DEF KeysOf
    <3>8. TraceFlagged(graph, t, k) \in BOOLEAN
      BY <3>3
    <3> QED
      BY <3>7, <3>8
  <2> QED
    BY <2>3, <2>4
<1> QED
  BY <1>1, BuilderInvariant, PTL
----------------------------------------------------------------------------
(* The bound of the cache *)

\* The threads that are between the first frame they store and the last test of
\* the cache's size.
Storing(r) == req[r].pc \in {"store", "evict", "pop"}

Popping == {r \in Requests : req[r].pc = "pop"}

\* The inductive invariant.  One thread may see that the cache is small enough
\* while another has still frames to store: a thread is storing whenever there
\* are too many entries, and it is the last of them that brings the cache down.
\* Threads that all saw one entry too many all remove one; there are enough.
Requested == /\ DOMAIN req = Requests
             /\ \A r \in Requests : DOMAIN req[r] = DOMAIN Idle
Sequence == \E S : cache \in Seq(S)
OneEach == \A i, j \in DOMAIN cache : cache[i].key = cache[j].key => i = j
Attended == Len(cache) > Cap => \E r \in Requests : Storing(r)
Enough == Popping # {} => Len(cache) + Cardinality(Requests) > Cap + Cardinality(Popping)
BoundInv == Requested /\ Sequence /\ OneEach /\ Attended /\ Enough

\* The places of a sequence whose entry was moved to the end.
LEMMA MovedToEnd ==
  ASSUME NEW S, NEW q \in Seq(S), NEW i \in DOMAIN q
  PROVE  LET m == Append(SubSeq(q, 1, i - 1) \o SubSeq(q, i + 1, Len(q)), q[i]) IN
         /\ m \in Seq(S)
         /\ Len(m) = Len(q)
         /\ \A k \in 1..Len(q) : m[k] = q[IF k < i THEN k ELSE IF k < Len(q) THEN k + 1 ELSE i]
<1> DEFINE L == Len(q)
           a == SubSeq(q, 1, i - 1)
           b == SubSeq(q, i + 1, L)
           w == a \o b
           m == Append(w, q[i])
<1>1. i \in 1..L /\ L \in Nat /\ \A k \in 1..L : q[k] \in S
  OBVIOUS
<1>2. m = Append(w, q[i])
  OBVIOUS
<1>3. /\ a \in Seq(S) /\ Len(a) = i - 1
      /\ \A k \in 1..(i - 1) : a[k] = q[k]
  <2>1. 1 \in Int /\ i - 1 \in Int /\ \A k \in 1..(i - 1) : q[k] \in S
    BY <1>1
  <2>2. /\ SubSeq(q, 1, i - 1) \in Seq(S)
        /\ Len(SubSeq(q, 1, i - 1)) = IF 1 <= i - 1 THEN (i - 1) - 1 + 1 ELSE 0
        /\ \A k \in 1..((i - 1) - 1 + 1) : SubSeq(q, 1, i - 1)[k] = q[1 + k - 1]
    BY <2>1, SubSeqProperties
  <2>3. (i - 1) - 1 + 1 = i - 1 /\ (~(1 <= i - 1) => i - 1 = 0)
    BY <1>1
  <2>4. \A k \in 1..(i - 1) : 1 + k - 1 = k
    OBVIOUS
  <2> QED
    BY <2>2, <2>3, <2>4
<1>4. /\ b \in Seq(S) /\ Len(b) = L - i
      /\ \A k \in 1..(L - i) : b[k] = q[i + k]
  <2>1. i + 1 \in Int /\ L \in Int /\ \A k \in (i + 1)..L : q[k] \in S
    BY <1>1
  <2>2. /\ SubSeq(q, i + 1, L) \in Seq(S)
        /\ Len(SubSeq(q, i + 1, L)) = IF i + 1 <= L THEN L - (i + 1) + 1 ELSE 0
        /\ \A k \in 1..(L - (i + 1) + 1) : SubSeq(q, i + 1, L)[k] = q[(i + 1) + k - 1]
    BY <2>1, SubSeqProperties
  <2> HIDE DEF L
  <2>3. L - (i + 1) + 1 = L - i /\ (~(i + 1 <= L) => L - i = 0)
    BY <1>1
  <2>4. \A k \in 1..(L - i) : (i + 1) + k - 1 = i + k
    BY <1>1
  <2> QED
    BY <2>2, <2>3, <2>4
<1>5. /\ w \in Seq(S) /\ Len(w) = Len(a) + Len(b)
      /\ \A k \in 1..(Len(a) + Len(b)) : w[k] = IF k <= Len(a) THEN a[k] ELSE b[k - Len(a)]
  BY <1>3, <1>4, ConcatProperties
<1> HIDE DEF w, a, b, L, m
<1>6. /\ Len(w) = L - 1
      /\ \A k \in 1..(L - 1) : w[k] = q[IF k < i THEN k ELSE k + 1]
  <2>0. i \in Int /\ L \in Int /\ 1 <= i /\ i <= L
    BY <1>1
  <2>1. Len(w) = L - 1
    BY <2>0, <1>3, <1>4, <1>5
  <2>a. \A k \in 1..(L - 1) : w[k] = IF k <= i - 1 THEN a[k] ELSE b[k - (i - 1)]
    BY <2>0, <2>1, <1>3, <1>5
  <2>2. ASSUME NEW k \in 1..(L - 1) PROVE w[k] = q[IF k < i THEN k ELSE k + 1]
    <3>0. k \in Int /\ 1 <= k /\ k <= L - 1
      BY <2>2, <2>0
    <3>1. CASE k < i
      <4>1. k <= i - 1 /\ k \in 1..(i - 1)
        BY <3>0, <3>1, <2>0
      <4>2. w[k] = a[k]
        BY <2>a, <4>1
      <4> QED
        BY <3>1, <4>1, <4>2, <1>3
    <3>2. CASE ~(k < i)
      <4> DEFINE d == k - (i - 1)
      <4>1. d \in 1..(L - i) /\ i + d = k + 1 /\ ~(k <= i - 1)
        <5>1. i <= k
          BY <3>0, <3>2, <2>0
        <5>2. k - (i - 1) \in Int /\ 1 <= k - (i - 1) /\ k - (i - 1) <= L - i
          BY <5>1, <3>0, <2>0
        <5>3. i + (k - (i - 1)) = k + 1
          <6>1. \A x, y \in Int : x + (y - (x - 1)) = y + 1
            OBVIOUS
          <6> QED
            BY <6>1, <3>0, <2>0
        <5>a. ~(k <= i - 1)
          BY <5>1, <3>0, <2>0
        <5> HIDE DEF d
        <5>4. d \in Int /\ 1 <= d /\ d <= L - i /\ i + d = k + 1
          BY <5>2, <5>3 DEF d
        <5>5. L - i \in Int
          BY <2>0
        <5>6. d \in 1..(L - i)
          BY <5>4, <5>5
        <5> QED
          BY <5>a, <5>4, <5>6
      <4>2. w[k] = b[d]
        BY <2>a, <4>1
      <4>3. b[d] = q[i + d]
        BY <4>1, <1>4
      <4> HIDE DEF d
      <4> QED
        BY <3>2, <4>1, <4>2, <4>3
    <3> QED
      BY <3>1, <3>2
  <2> QED
    BY <2>1, <2>2
<1>7. /\ m \in Seq(S) /\ Len(m) = L
      /\ \A k \in 1..(L - 1) : m[k] = w[k]
      /\ m[L] = q[i]
  <2>1. w \in Seq(S) /\ q[i] \in S
    BY <1>1, <1>5
  <2>2. /\ m \in Seq(S) /\ Len(m) = Len(w) + 1
        /\ \A k \in 1..Len(w) : m[k] = w[k]
        /\ m[Len(w) + 1] = q[i]
    <3>1. /\ Append(w, q[i]) \in Seq(S) /\ Len(Append(w, q[i])) = Len(w) + 1
          /\ \A k \in 1..Len(w) : Append(w, q[i])[k] = w[k]
          /\ Append(w, q[i])[Len(w) + 1] = q[i]
      BY <2>1, AppendProperties
    <3> QED
      BY <1>2, <3>1
  <2>3. Len(w) + 1 = L
    BY <1>1, <1>6
  <2> QED
    BY <2>2, <2>3, <1>6
<1>9. ASSUME NEW k \in 1..L PROVE m[k] = q[IF k < i THEN k ELSE IF k < L THEN k + 1 ELSE i]
  <2>0. k \in Int /\ L \in Int /\ i \in Int /\ 1 <= k /\ k <= L /\ i <= L
    BY <1>1, <1>9
  <2>1. CASE k = L
    <3>1. ~(k < i) /\ ~(k < L)
      BY <2>0, <2>1
    <3> QED
      BY <2>1, <3>1, <1>7
  <2>2. CASE k # L
    <3>1. k \in 1..(L - 1) /\ k < L
      BY <2>0, <2>2
    <3> QED
      <4>1. m[k] = w[k] /\ w[k] = q[IF k < i THEN k ELSE k + 1]
        BY <3>1, <1>6, <1>7
      <4> QED
        BY <3>1, <4>1, Zenon
  <2> QED
    BY <2>1, <2>2
<1> QED
  BY <1>7, <1>9 DEF L, m, w, a, b

\* A step by which no thread starts or ends to store or remove, and that leaves
\* no fewer entries.
LEMMA PhasesKept ==
  ASSUME BoundInv, Requested', Sequence', Len(cache') = Len(cache),
         \A r \in Requests : /\ Storing(r) <=> Storing(r)'
                             /\ req[r].pc = "pop" <=> req'[r].pc = "pop"
  PROVE  Attended' /\ Enough'
<1>1. Popping' = Popping
  BY DEF Popping
<1>2. Attended'
  BY DEF BoundInv, Attended
<1>3. Enough'
  BY <1>1 DEF BoundInv, Enough
<1> QED
  BY <1>2, <1>3

\* The steps before the frames are computed: they leave the cache, or move an
\* entry within it, and the thread neither stores before nor after.
Preparing(r) ==
  Ask(r) \/ ReadRow(r) \/ ReadFile(r) \/ StatFile(r) \/ PlanMissing(r) \/ PlanReuse(r) \/ Reuse(r)

\* The steps before a preview stores anything leave the cache alone.
LEMMA Prepares ==
  ASSUME BoundInv, NEW r \in Requests, Preparing(r)
  PROVE  /\ Requested' /\ UNCHANGED cache
         /\ \A q \in Requests : /\ Storing(q) <=> Storing(q)'
                                /\ req[q].pc = "pop" <=> req'[q].pc = "pop"
<1> DEFINE Early == {"idle", "done", "row", "file", "stat", "missing", "seed", "reuse", "touch",
                     "move", "exec"}
           Fine == /\ Requested' /\ UNCHANGED cache
                   /\ \A q \in Requests \ {r} : req'[q].pc = req[q].pc
                   /\ req[r].pc \in Early /\ req'[r].pc \in Early
<1>0. Requested
  BY DEF BoundInv
<1>1. SUFFICES Fine
  BY DEF Storing
<1>2. \A pc, next, todo, changed :
        /\ DOMAIN changed = DOMAIN Idle /\ pc \in Early /\ next \in Early
        /\ Loop(r, pc, next, todo, changed) /\ req[r].pc \in Early /\ UNCHANGED cache
        => Fine
  <2> SUFFICES ASSUME NEW pc, NEW next, NEW todo, NEW changed,
                      DOMAIN changed = DOMAIN Idle, pc \in Early, next \in Early,
                      Loop(r, pc, next, todo, changed), req[r].pc \in Early, UNCHANGED cache
               PROVE  Fine
    OBVIOUS
  <2> DEFINE d == [changed EXCEPT !.pc = IF More(r) = <<>> THEN next ELSE pc,
                                  !.todo = IF More(r) = <<>> THEN todo ELSE More(r)]
  <2>1. DOMAIN d = DOMAIN Idle /\ d.pc \in Early
    BY DEF Idle
  <2>2. req' = [req EXCEPT ![r] = d]
    BY DEF Loop
  <2> HIDE DEF d
  <2> QED
    BY <1>0, <2>1, <2>2 DEF Requested
<1>3. Fail(r) \/ Lack(r) => (req[r].pc \in Early /\ UNCHANGED cache => Fine)
  <2> DEFINE d == [Idle EXCEPT !.pc = "done", !.alone = req[r].alone]
             e == [Idle EXCEPT !.pc = "done", !.lacks = TRUE]
  <2>1. DOMAIN d = DOMAIN Idle /\ d.pc \in Early /\ DOMAIN e = DOMAIN Idle /\ e.pc \in Early
    BY DEF Idle
  <2>2. Fail(r) => req' = [req EXCEPT ![r] = d]
    BY DEF Fail
  <2>3. Lack(r) => req' = [req EXCEPT ![r] = e]
    BY DEF Lack
  <2> HIDE DEF d, e
  <2> QED
    BY <1>0, <2>1, <2>2, <2>3 DEF Requested
<1>4. \A c \in Early :
        req' = [req EXCEPT ![r].pc = c] /\ req[r].pc \in Early /\ UNCHANGED cache => Fine
  <2> SUFFICES ASSUME NEW c \in Early, req' = [req EXCEPT ![r].pc = c], req[r].pc \in Early,
                      UNCHANGED cache
               PROVE  Fine
    OBVIOUS
  <2> DEFINE d == [req[r] EXCEPT !.pc = c]
  <2>1. DOMAIN d = DOMAIN Idle /\ d.pc \in Early
    BY <1>0 DEF Requested, Idle
  <2>2. req' = [req EXCEPT ![r] = d]
    OBVIOUS
  <2> HIDE DEF d
  <2> QED
    BY <1>0, <2>1, <2>2 DEF Requested
<1>5. CASE Ask(r)
  <2>1. PICK g \in Graphs :
          req' = [q \in Requests |->
            IF q = r THEN [Idle EXCEPT !.pc = "row", !.g = g, !.todo = ImportSources(g),
                                       !.alone = ~\E p \in Requests : Running(p)]
            ELSE [req[q] EXCEPT !.alone = @ /\ ~Running(q)]]
    BY <1>5 DEF Ask
  <2>2. req[r].pc \in Early
    BY <1>5 DEF Ask, Running
  <2>3. \A q \in Requests \ {r} : /\ DOMAIN req'[q] = DOMAIN req[q]
                                  /\ req'[q].pc = req[q].pc
    BY <2>1, <1>0 DEF Requested, Idle
  <2>4. DOMAIN req'[r] = DOMAIN Idle /\ req'[r].pc = "row"
    BY <2>1 DEF Idle
  <2>5. DOMAIN req' = Requests
    BY <2>1
  <2> QED
    BY <1>0, <1>5, <2>2, <2>3, <2>4, <2>5 DEF Ask, Requested
<1>6. CASE ReadRow(r)
  <2>1. req[r].pc \in Early /\ UNCHANGED cache
    BY <1>6 DEF ReadRow, At
  <2>2. Lack(r) \/ req' = [req EXCEPT ![r].pc = "file"]
    BY <1>6 DEF ReadRow
  <2> QED
    BY <2>1, <2>2, <1>3, <1>4
<1>7. CASE ReadFile(r)
  <2>1. DOMAIN [req[r] EXCEPT !.load = Put(@, Current(r), source[Current(r)].file)] = DOMAIN Idle
    BY <1>0 DEF Requested
  <2>2. req[r].pc \in Early /\ UNCHANGED cache
    BY <1>7 DEF ReadFile, At
  <2>3. \/ Lack(r)
        \/ Loop(r, "row", "stat", ImportSources(req[r].g),
                [req[r] EXCEPT !.load = Put(@, Current(r), source[Current(r)].file)])
    BY <1>7 DEF ReadFile
  <2> QED
    BY <1>2, <1>3, <2>1, <2>2, <2>3
<1>8. CASE StatFile(r)
  <2>1. DOMAIN [req[r] EXCEPT !.at = Put(@, Current(r), Version(Current(r)))] = DOMAIN Idle
    BY <1>0 DEF Requested
  <2>2. req[r].pc \in Early /\ UNCHANGED cache
    BY <1>8 DEF StatFile, At
  <2>3. Loop(r, "stat", "missing", req[r].g.order,
             [req[r] EXCEPT !.at = Put(@, Current(r), Version(Current(r)))])
    BY <1>8 DEF StatFile
  <2> QED
    BY <1>2, <2>1, <2>2, <2>3
<1>9. CASE PlanMissing(r)
  <2>1. DOMAIN (IF Missing(r, Current(r)) THEN [req[r] EXCEPT !.recompute = @ \cup {Current(r)}]
                ELSE req[r]) = DOMAIN Idle
    BY <1>0 DEF Requested
  <2>2. req[r].pc \in Early /\ UNCHANGED cache
    BY <1>9 DEF PlanMissing, At
  <2>3. Loop(r, "missing", "seed", req[r].g.order,
             IF Missing(r, Current(r)) THEN [req[r] EXCEPT !.recompute = @ \cup {Current(r)}]
             ELSE req[r])
    BY <1>9 DEF PlanMissing
  <2> QED
    BY <1>2, <2>1, <2>2, <2>3
<1>10. CASE PlanReuse(r)
  <2>1. DOMAIN req[r] = DOMAIN Idle
    BY <1>0 DEF Requested
  <2>2. req[r].pc \in Early /\ UNCHANGED cache
    BY <1>10 DEF PlanReuse, At
  <2>3. \/ \E c \in Early : req' = [req EXCEPT ![r].pc = c]
        \/ Loop(r, "seed", "touch", req[r].g.order, req[r])
        \/ Loop(r, "touch", "exec", <<>>, req[r])
    <3>1. CASE Cached(Key(r, Current(r)))
      <4>1. req' = [req EXCEPT ![r].pc = IF req[r].pc = "seed" THEN "reuse" ELSE "move"]
        BY <1>10, <3>1 DEF PlanReuse
      <4> QED
        BY <4>1
    <3>2. CASE ~Cached(Key(r, Current(r)))
      BY <1>10, <3>2 DEF PlanReuse
    <3> QED
      BY <3>1, <3>2
  <2> QED
    BY <1>2, <1>4, <2>1, <2>2, <2>3
<1>11. CASE Reuse(r)
  <2> DEFINE f == cache[Place(Key(r, Current(r)))].frame
  <2>1. DOMAIN [req[r] EXCEPT !.seed = Put(@, Current(r), f)] = DOMAIN Idle
    BY <1>0 DEF Requested
  <2>2. req[r].pc \in Early /\ UNCHANGED cache
    BY <1>11 DEF Reuse, At
  <2>3. \/ Fail(r)
        \/ Loop(r, "seed", "touch", req[r].g.order,
                [req[r] EXCEPT !.seed = Put(@, Current(r), f)])
    BY <1>11 DEF Reuse
  <2> QED
    BY <1>2, <1>3, <2>1, <2>2, <2>3
<1> QED
  BY <1>5, <1>6, <1>7, <1>8, <1>9, <1>10, <1>11 DEF Preparing

\* The entry that was used last goes to the end; the rest of the loop follows.
LEMMA Moves ==
  ASSUME BoundInv, NEW r \in Requests, MoveToEnd(r)
  PROVE  BoundInv'
<1> DEFINE k == Key(r, Current(r))
           Early == {"move", "touch", "exec", "done"}
<1>0. Requested /\ Sequence /\ OneEach /\ Attended /\ Enough
  BY DEF BoundInv
<1>1. req[r].pc = "move"
  BY DEF MoveToEnd, At
<1>2. /\ Requested' /\ req'[r].pc \in Early
      /\ \A q \in Requests \ {r} : req'[q].pc = req[q].pc
  <2>1. Fail(r) \/ Loop(r, "touch", "exec", <<>>, req[r])
    BY DEF MoveToEnd
  <2>2. CASE Fail(r)
    BY <2>2, <1>0 DEF Fail, Requested, Idle
  <2>3. CASE Loop(r, "touch", "exec", <<>>, req[r])
    <3> DEFINE d == [req[r] EXCEPT !.pc = IF More(r) = <<>> THEN "exec" ELSE "touch",
                                   !.todo = IF More(r) = <<>> THEN <<>> ELSE More(r)]
    <3>1. DOMAIN d = DOMAIN Idle /\ d.pc \in Early
      BY <1>0 DEF Requested, Idle
    <3>2. req' = [req EXCEPT ![r] = d]
      BY <2>3 DEF Loop
    <3> HIDE DEF d
    <3> QED
      BY <1>0, <3>1, <3>2 DEF Requested
  <2> QED
    BY <2>1, <2>2, <2>3
<1>3. \A q \in Requests : /\ Storing(q) <=> Storing(q)'
                          /\ req[q].pc = "pop" <=> req'[q].pc = "pop"
  BY <1>1, <1>2 DEF Storing
<1>4. Sequence' /\ OneEach' /\ Len(cache') = Len(cache)
  <2>1. CASE cache' = cache
    BY <2>1, <1>0 DEF Sequence, OneEach
  <2>2. CASE Cached(k) /\ cache' = Append(Without(Place(k)), cache[Place(k)])
    <3>1. PICK S : cache \in Seq(S)
      BY <1>0 DEF Sequence
    <3>2. Place(k) \in DOMAIN cache
      BY <2>2 DEF Cached, Place
    <3>a. PICK i \in DOMAIN cache : i = Place(k)
      BY <3>2
    <3>3. cache' = Append(SubSeq(cache, 1, i - 1) \o SubSeq(cache, i + 1, Len(cache)), cache[i])
      BY <2>2, <3>a DEF Without
    <3>4. /\ cache' \in Seq(S)
          /\ Len(cache') = Len(cache)
          /\ \A x \in 1..Len(cache) :
               cache'[x] = cache[IF x < i THEN x ELSE IF x < Len(cache) THEN x + 1 ELSE i]
      <4> DEFINE m == Append(SubSeq(cache, 1, i - 1) \o SubSeq(cache, i + 1, Len(cache)), cache[i])
      <4>1. /\ m \in Seq(S) /\ Len(m) = Len(cache)
            /\ \A x \in 1..Len(cache) :
                 m[x] = cache[IF x < i THEN x ELSE IF x < Len(cache) THEN x + 1 ELSE i]
        BY <3>1, MovedToEnd
      <4>2. cache' = m
        BY <3>3
      <4> HIDE DEF m
      <4> QED
        BY <4>1, <4>2
    <3>5. OneEach'
      <4> SUFFICES ASSUME NEW x \in DOMAIN cache', NEW y \in DOMAIN cache',
                          cache'[x].key = cache'[y].key
                   PROVE  x = y
        BY DEF OneEach
      <4> DEFINE from(z) == IF z < i THEN z ELSE IF z < Len(cache) THEN z + 1 ELSE i
      <4>1. /\ Len(cache) \in Nat /\ i \in 1..Len(cache) /\ DOMAIN cache = 1..Len(cache)
            /\ x \in 1..Len(cache) /\ y \in 1..Len(cache)
        BY <3>1, <3>4
      <4>2. from(x) \in DOMAIN cache /\ from(y) \in DOMAIN cache
        BY <4>1
      <4>3. cache[from(x)].key = cache[from(y)].key
        BY <3>4, <4>1
      <4>4. from(x) = from(y)
        BY <4>2, <4>3, <1>0 DEF OneEach
      <4> QED
        BY <4>1, <4>4
    <3> QED
      BY <3>4, <3>5 DEF Sequence
  <2> QED
    BY <2>1, <2>2 DEF MoveToEnd
<1> QED
  BY <1>2, <1>3, <1>4, PhasesKept DEF BoundInv

\* The frames are computed, or the preview fails; the cache is as it was.
LEMMA Executes ==
  ASSUME BoundInv, NEW r \in Requests, Execute(r)
  PROVE  BoundInv'
<1>0. Requested /\ Sequence /\ OneEach /\ Attended /\ Enough
  BY DEF BoundInv
<1>1. req[r].pc = "exec" /\ cache' = cache
  BY DEF Execute, At
<1>2. \/ Fail(r) \/ Raise(r)
      \/ \E out : req' = [req EXCEPT ![r].pc = AfterStore(req[r].recompute), ![r].out = out,
                                     ![r].load = Nothing, ![r].seed = Nothing]
  BY DEF Execute
<1>3. /\ Requested' /\ req'[r].pc \in {"store", "evict", "done"}
      /\ \A q \in Requests \ {r} : req'[q].pc = req[q].pc
  <2>1. CASE Fail(r) \/ Raise(r)
    BY <2>1, <1>0 DEF Fail, Raise, Requested, Idle
  <2>2. ASSUME NEW out,
               req' = [req EXCEPT ![r].pc = AfterStore(req[r].recompute), ![r].out = out,
                                  ![r].load = Nothing, ![r].seed = Nothing]
        PROVE  /\ Requested' /\ req'[r].pc \in {"store", "evict", "done"}
               /\ \A q \in Requests \ {r} : req'[q].pc = req[q].pc
    <3> DEFINE d == [req[r] EXCEPT !.pc = AfterStore(req[r].recompute), !.out = out,
                                   !.load = Nothing, !.seed = Nothing]
    <3>1. DOMAIN d = DOMAIN Idle /\ d.pc \in {"store", "evict"}
      BY <1>0 DEF Requested, Idle, AfterStore
    <3>2. req' = [req EXCEPT ![r] = d]
      BY <2>2
    <3> HIDE DEF d
    <3> QED
      BY <1>0, <3>1, <3>2 DEF Requested
  <2> QED
    BY <1>2, <2>1, <2>2
<1>4. Popping' = Popping
  BY <1>1, <1>3 DEF Popping
<1> QED
  BY <1>0, <1>1, <1>3, <1>4 DEF BoundInv, Sequence, OneEach, Attended, Enough, Storing

\* One more frame, under a key that is new or in the place of the one it had.
LEMMA Stores ==
  ASSUME BoundInv, NEW r \in Requests, Store(r)
  PROVE  BoundInv'
<1>0. Requested /\ Sequence /\ OneEach /\ Attended /\ Enough
  BY DEF BoundInv
<1>1. PICK n \in req[r].recompute :
        LET entry == [key |-> Key(r, n), frame |-> req[r].out[n]]
            left == req[r].recompute \ {n}
        IN /\ cache' = IF Cached(entry.key) THEN [cache EXCEPT ![Place(entry.key)] = entry]
                       ELSE Append(cache, entry)
           /\ req' = [req EXCEPT ![r].pc = AfterStore(left), ![r].recompute = left]
  BY DEF Store
<1> DEFINE entry == [key |-> Key(r, n), frame |-> req[r].out[n]]
           left == req[r].recompute \ {n}
<1>2. req[r].pc = "store"
  BY DEF Store, At
<1>3. /\ Requested' /\ req'[r].pc \in {"store", "evict"}
      /\ \A q \in Requests \ {r} : req'[q].pc = req[q].pc
  <2> DEFINE d == [req[r] EXCEPT !.pc = AfterStore(left), !.recompute = left]
  <2>1. DOMAIN d = DOMAIN Idle /\ d.pc \in {"store", "evict"}
    BY <1>0 DEF Requested, Idle, AfterStore
  <2>2. req' = [req EXCEPT ![r] = d]
    BY <1>1
  <2> HIDE DEF d
  <2> QED
    BY <1>0, <2>1, <2>2 DEF Requested
<1>4. Popping' = Popping
  BY <1>2, <1>3 DEF Popping
<1>5. PICK S : cache \in Seq(S)
  BY <1>0 DEF Sequence
<1>6. Sequence' /\ OneEach' /\ Len(cache') \in {Len(cache), Len(cache) + 1}
  <2> DEFINE T == S \cup {entry}
  <2>1. cache \in Seq(T) /\ entry \in T /\ entry.key = Key(r, n)
    BY <1>5
  <2>2. CASE Cached(entry.key)
    <3>1. cache' = [cache EXCEPT ![Place(entry.key)] = entry]
      BY <1>1, <2>2
    <3>2. Place(entry.key) \in DOMAIN cache /\ cache[Place(entry.key)].key = entry.key
      BY <2>2 DEF Cached, Place
    <3> HIDE DEF entry
    <3>3. /\ DOMAIN cache' = DOMAIN cache /\ cache' \in Seq(T) /\ Len(cache') = Len(cache)
      BY <3>1, <3>2, <2>1
    <3>4. \A i \in DOMAIN cache : cache'[i].key = cache[i].key
      BY <3>1, <3>2
    <3> QED
      BY <3>3, <3>4, <1>0 DEF Sequence, OneEach
  <2>3. CASE ~Cached(entry.key)
    <3>1. cache' = Append(cache, entry)
      BY <1>1, <2>3
    <3> HIDE DEF entry
    <3>2. /\ cache' \in Seq(T) /\ Len(cache') = Len(cache) + 1
          /\ \A i \in 1..Len(cache) : cache'[i] = cache[i]
          /\ cache'[Len(cache) + 1] = entry
      BY <3>1, <2>1, AppendProperties
    <3>3. /\ Len(cache) \in Nat /\ DOMAIN cache = 1..Len(cache)
          /\ DOMAIN cache' = 1..(Len(cache) + 1)
      BY <2>1, <3>2
    <3>4. \A i \in 1..Len(cache) : cache[i].key # entry.key
      BY <2>3, <3>3 DEF Cached
    <3>5. OneEach'
      <4> SUFFICES ASSUME NEW x \in DOMAIN cache', NEW y \in DOMAIN cache',
                          cache'[x].key = cache'[y].key
                   PROVE  x = y
        BY DEF OneEach
      <4>1. CASE x \in 1..Len(cache) /\ y \in 1..Len(cache)
        BY <4>1, <3>2, <3>3, <1>0 DEF OneEach
      <4>2. CASE x \notin 1..Len(cache) \/ y \notin 1..Len(cache)
        <5>1. \A z \in DOMAIN cache' : z \in 1..Len(cache) \/ z = Len(cache) + 1
          BY <3>3
        <5> QED
          BY <4>2, <5>1, <3>2, <3>4
      <4> QED
        BY <4>1, <4>2
    <3> QED
      BY <3>2, <3>5 DEF Sequence
  <2> QED
    BY <2>2, <2>3
<1>7. Attended'
  BY <1>3 DEF Attended, Storing
<1>8. Enough'
  <2>1. Popping \in SUBSET Requests
    BY DEF Popping
  <2>2. /\ Cap \in Nat /\ Cardinality(Requests) \in Nat /\ Cardinality(Popping) \in Nat
        /\ Len(cache) \in Nat
    BY <2>1, <1>5, CacheAssumption, FS_CardinalityType, FS_Subset
  <2> QED
    BY <2>2, <1>0, <1>4, <1>6 DEF Enough
<1> QED
  BY <1>3, <1>6, <1>7, <1>8 DEF BoundInv

\* A thread that finds the cache small enough is done; else it will remove.
LEMMA CheckSizes ==
  ASSUME BoundInv, NEW r \in Requests, CheckSize(r)
  PROVE  BoundInv'
<1>0. Requested /\ Sequence /\ OneEach /\ Attended /\ Enough
  BY DEF BoundInv
<1>1. /\ req[r].pc = "evict" /\ cache' = cache
      /\ req' = [req EXCEPT ![r].pc = IF Len(cache) > Cap THEN "pop" ELSE "done"]
  BY DEF CheckSize, At
<1>2. /\ Requested' /\ req'[r].pc = IF Len(cache) > Cap THEN "pop" ELSE "done"
      /\ \A q \in Requests \ {r} : req'[q].pc = req[q].pc
  BY <1>0, <1>1 DEF Requested, Idle
<1>3. Sequence' /\ OneEach'
  BY <1>0, <1>1 DEF Sequence, OneEach
<1>4. Attended'
  BY <1>1, <1>2 DEF Attended, Storing
<1>5. Enough'
  <2>1. CASE Len(cache) > Cap
    <3>1. Popping' \in SUBSET Requests
      BY DEF Popping
    <3>2. /\ Cardinality(Popping)' \in Nat /\ Cardinality(Requests) \in Nat /\ Cap \in Nat
          /\ Cardinality(Popping)' <= Cardinality(Requests)
      BY <3>1, CacheAssumption, FS_Subset, FS_CardinalityType
    <3>3. Len(cache) \in Nat
      BY <1>0 DEF Sequence
    <3> QED
      BY <1>1, <2>1, <3>2, <3>3 DEF Enough
  <2>2. CASE ~(Len(cache) > Cap)
    <3>1. Popping' = Popping
      BY <1>1, <1>2, <2>2 DEF Popping
    <3> QED
      BY <3>1, <1>0, <1>1 DEF Enough
  <2> QED
    BY <2>1, <2>2
<1> QED
  BY <1>2, <1>3, <1>4, <1>5 DEF BoundInv

\* One entry leaves; there is one, whoever else removes at the same time.
LEMMA Evicts ==
  ASSUME BoundInv, NEW r \in Requests, Evict(r)
  PROVE  BoundInv'
<1>0. Requested /\ Sequence /\ OneEach /\ Attended /\ Enough
  BY DEF BoundInv
<1>1. /\ req[r].pc = "pop" /\ cache' = Tail(cache)
      /\ req' = [req EXCEPT ![r].pc = "evict"]
  BY DEF Evict, At, AfterEvict
<1>2. /\ Requested' /\ req'[r].pc = "evict"
      /\ \A q \in Requests \ {r} : req'[q].pc = req[q].pc
  BY <1>0, <1>1 DEF Requested, Idle
<1>3. PICK S : cache \in Seq(S)
  BY <1>0 DEF Sequence
<1>4. Popping' = Popping \ {r} /\ r \in Popping
  BY <1>1, <1>2 DEF Popping
<1>5. /\ Cardinality(Popping) \in Nat /\ Cardinality(Requests) \in Nat /\ Cap \in Nat
      /\ Cardinality(Requests) <= Cap
      /\ Cardinality(Popping)' = Cardinality(Popping) - 1
  <2>1. Popping \in SUBSET Requests
    BY DEF Popping
  <2>2. IsFiniteSet(Popping) /\ Cardinality(Popping) \in Nat
    BY <2>1, CacheAssumption, FS_Subset, FS_CardinalityType
  <2>3. Cardinality(Popping \ {r}) = Cardinality(Popping) - 1
    BY <1>4, <2>2, FS_RemoveElement
  <2> QED
    BY <1>4, <2>2, <2>3, CacheAssumption, FS_CardinalityType
<1>6. Len(cache) \in Nat /\ Len(cache) + Cardinality(Requests) > Cap + Cardinality(Popping)
  BY <1>0, <1>3, <1>4 DEF Enough
<1>7. Len(cache) > 0 /\ cache # <<>>
  BY <1>3, <1>5, <1>6
<1>8. /\ cache' \in Seq(S) /\ Len(cache') = Len(cache) - 1
      /\ \A i \in 1..Len(cache') : cache'[i] = cache[i + 1]
  BY <1>1, <1>3, <1>7, HeadTailProperties
<1>9. OneEach'
  <2> SUFFICES ASSUME NEW x \in DOMAIN cache', NEW y \in DOMAIN cache',
                      cache'[x].key = cache'[y].key
               PROVE  x = y
    BY DEF OneEach
  <2>1. /\ x \in Nat /\ y \in Nat /\ x + 1 \in DOMAIN cache /\ y + 1 \in DOMAIN cache
        /\ cache'[x] = cache[x + 1] /\ cache'[y] = cache[y + 1]
    BY <1>3, <1>6, <1>8
  <2>2. x + 1 = y + 1
    BY <2>1, <1>0 DEF OneEach
  <2> QED
    BY <2>1, <2>2
<1>10. Attended'
  BY <1>2 DEF Attended, Storing
<1>11. Enough'
  BY <1>5, <1>6, <1>8 DEF Enough
<1> QED
  BY <1>2, <1>8, <1>9, <1>10, <1>11 DEF BoundInv, Sequence

\* The invariant of the bound, with what the threads are about to remove.
LEMMA BoundHolds == Spec => []BoundInv
<1>1. Init => BoundInv
  <2> SUFFICES ASSUME Init PROVE BoundInv
    OBVIOUS
  <2>1. Requested /\ Popping = {}
    BY DEF Init, Requested, Popping, Idle
  <2>2. cache \in Seq({}) /\ Len(cache) = 0 /\ DOMAIN cache = {}
    BY DEF Init
  <2>3. Cap \in Nat
    BY CacheAssumption
  <2> QED
    BY <2>1, <2>2, <2>3 DEF BoundInv, Sequence, OneEach, Attended, Enough
<1>2. BoundInv /\ [Next]_vars => BoundInv'
  <2> SUFFICES ASSUME BoundInv, [Next]_vars PROVE BoundInv'
    OBVIOUS
  <2>0. CASE UNCHANGED vars
    BY <2>0 DEF BoundInv, Requested, Sequence, OneEach, Attended, Enough, Popping, Storing, vars
  <2>1. ASSUME NEW s \in Sources, Confirm(s) PROVE BoundInv'
    <3>1. UNCHANGED <<cache, req>>
      BY <2>1 DEF Confirm, ArchiveRow, WriteFile, RecordRow
    <3> QED
      BY <3>1 DEF BoundInv, Requested, Sequence, OneEach, Attended, Enough, Popping, Storing
  <2>2. ASSUME NEW r \in Requests, Preview(r) PROVE BoundInv'
    <3>1. CASE Preparing(r)
      <4>1. Requested' /\ cache' = cache
        BY <3>1, Prepares
      <4>2. Sequence' /\ OneEach' /\ Len(cache') = Len(cache)
        BY <4>1 DEF BoundInv, Sequence, OneEach
      <4>3. Attended' /\ Enough'
        BY <3>1, <4>1, <4>2, Prepares, PhasesKept
      <4> QED
        BY <4>1, <4>2, <4>3 DEF BoundInv
    <3>2. CASE MoveToEnd(r)
      BY <3>2, Moves
    <3>3. CASE Execute(r)
      BY <3>3, Executes
    <3>4. CASE Store(r)
      BY <3>4, Stores
    <3>5. CASE CheckSize(r)
      BY <3>5, CheckSizes
    <3>6. CASE Evict(r)
      BY <3>6, Evicts
    <3> QED
      BY <2>2, <3>1, <3>2, <3>3, <3>4, <3>5, <3>6 DEF Preview, Preparing
  <2> QED
    BY <2>0, <2>1, <2>2 DEF Next, Server
<1> QED
  BY <1>1, <1>2, PTL DEF Spec

\* Between previews the cache keeps to its bound and holds no key twice, for any
\* number of threads that store and evict without a lock.
THEOREM CacheKeepsItsBound == Spec => []CacheBounded
<1>1. BoundInv => CacheBounded
  <2> SUFFICES ASSUME BoundInv PROVE CacheBounded
    OBVIOUS
  <2>1. Len(cache) \in Nat
    BY DEF BoundInv, Sequence
  <2>2. \A r \in Requests : Storing(r) => Running(r)
    BY DEF Storing, Running
  <2> QED
    BY <2>1, <2>2, CacheAssumption DEF BoundInv, OneEach, Attended, CacheBounded
<1> QED
  BY <1>1, BoundHolds, PTL
----------------------------------------------------------------------------
(* What a step computes *)

\* Honest(frame, key), given the versions that were read before their file.
HonestIn(frame, key, rc) ==
  /\ frame.steps = key.steps
  /\ {d[1] : d \in frame.data} = DOMAIN key.at
  /\ \A d \in frame.data :
       \/ <<d[1], key.at[d[1]]>> \in rc
       \/ d[2] = key.at[d[1]]

\* A preview has loaded all sources of g and read their versions.
Versioned(g, load, at, rc) ==
  /\ Range(ImportSources(g)) \subseteq DOMAIN at
  /\ \A s \in DOMAIN at : at[s] = load[s] \/ <<s, at[s]>> \in rc

\* The graphs an author may save parse.
LEMMA GraphWired ==
  ASSUME NEW g \in Graphs
  PROVE  /\ Parses(g) /\ Wired(g) /\ Acyclic(g) /\ \A n \in Ids(g) : g.node[n] \in Node
         /\ Ids(g) # {}
<1>1. Parses(g) /\ \A n \in Ids(g) : g.node[n] \in Node
  BY CacheAssumption
<1> QED
  BY <1>1 DEF Parses, Wired, Terminals, Sinks

\* The sources that a preview of such a graph loads.
LEMMA GraphSources ==
  ASSUME NEW g \in Graphs
  PROVE  /\ ImportSources(g) \in Seq(Sources) /\ ImportSources(g) # <<>>
         /\ Range(ImportSources(g)) =
              {g.node[n].source : n \in {n \in Ids(g) : TypeOf(g, n) = "import"}}
<1>1. /\ Parses(g) /\ \A n \in Ids(g) : g.node[n].inputs \in Seq(NodeIds)
      /\ \A n \in Ids(g) : TypeOf(g, n) = "import" => g.node[n].source \in Sources
  BY GraphWired DEF Node
<1> QED
  BY <1>1, ImportSourcesOf

\* An Import loads what its key names, or the version had been overtaken.
LEMMA ImportComputes ==
  ASSUME NEW g \in Graphs, NEW n \in Ids(g), NEW load, NEW at, NEW rc, NEW out,
         Versioned(g, load, at, rc), TypeOf(g, n) = "import"
  PROVE  HonestIn(Compute(g, n, load, out), StepKey(g, at, n), rc)
<1> DEFINE s == g.node[n].source
           key == StepKey(g, at, n)
           frame == Compute(g, n, load, out)
<1>0. Wired(g)
  BY GraphWired
<1>1. g.node[n].inputs \in Seq(NodeIds) /\ Len(g.node[n].inputs) = 0
  BY GraphWired DEF Parses, Arity, Node
<1>2. InputsOf(g, n) = {}
  BY <1>1 DEF InputsOf, Range
<1>3. Ancestors(g, n) = {n}
  BY <1>0, <1>2, AncestorsOfInputs
<1>4. SourcesOf(g, n) = {s}
  BY <1>3 DEF SourcesOf
<1>5. frame = [steps |-> Closure(g, n), data |-> {<<s, load[s]>>}]
  BY DEF Compute
<1>6. key = [steps |-> Closure(g, n), at |-> [t \in {s} |-> at[t]]]
  BY <1>4 DEF StepKey
<1>7. s \in DOMAIN at
  BY GraphWired, GraphSources DEF Versioned
<1>8. at[s] = load[s] \/ <<s, at[s]>> \in rc
  BY <1>7 DEF Versioned
<1> HIDE DEF s, key, frame
<1>9. frame.steps = key.steps /\ frame.data = {<<s, load[s]>>}
  BY <1>5, <1>6
<1>10. DOMAIN key.at = {s} /\ key.at[s] = at[s]
  BY <1>6
<1>11. HonestIn(frame, key, rc)
  BY <1>8, <1>9, <1>10 DEF HonestIn
<1> QED
  BY <1>11 DEF frame, key

\* A step over honest frames of its inputs computes an honest frame.
LEMMA StepComputes ==
  ASSUME NEW g \in Graphs, NEW n \in Ids(g), NEW load, NEW at, NEW rc, NEW out,
         TypeOf(g, n) # "import",
         \A i \in InputsOf(g, n) : HonestIn(out[i], StepKey(g, at, i), rc)
  PROVE  HonestIn(Compute(g, n, load, out), StepKey(g, at, n), rc)
<1> DEFINE I == InputsOf(g, n)
           A == Ancestors(g, n)
           key == StepKey(g, at, n)
           frame == Compute(g, n, load, out)
<1>0. Wired(g) /\ I \subseteq Ids(g)
  BY GraphWired DEF Wired
<1>1. A = {n} \cup UNION {Ancestors(g, i) : i \in I}
  BY <1>0, AncestorsOfInputs
<1>2. \A i \in I : /\ out[i].steps = [m \in Ancestors(g, i) |-> g.node[m]]
                   /\ {d[1] : d \in out[i].data} = SourcesOf(g, i)
                   /\ \A d \in out[i].data : <<d[1], at[d[1]]>> \in rc \/ d[2] = at[d[1]]
  <2> TAKE i \in I
  <2> DEFINE k == StepKey(g, at, i)
  <2>1. k.steps = [m \in Ancestors(g, i) |-> g.node[m]] /\ DOMAIN k.at = SourcesOf(g, i)
        /\ \A s \in SourcesOf(g, i) : k.at[s] = at[s]
    BY DEF StepKey, Closure
  <2>2. HonestIn(out[i], k, rc)
    OBVIOUS
  <2> HIDE DEF k
  <2>3. \A d \in out[i].data : d[1] \in SourcesOf(g, i)
    BY <2>1, <2>2 DEF HonestIn
  <2> QED
    BY <2>1, <2>2, <2>3 DEF HonestIn
<1>3. SourcesOf(g, n) = UNION {SourcesOf(g, i) : i \in I}
  <2>1. \A s : s \in SourcesOf(g, n) <=>
          \E m \in A : TypeOf(g, m) = "import" /\ s = g.node[m].source
    BY DEF SourcesOf
  <2>2. \A i \in I : \A s : s \in SourcesOf(g, i) <=>
          \E m \in Ancestors(g, i) : TypeOf(g, m) = "import" /\ s = g.node[m].source
    BY DEF SourcesOf
  <2> HIDE DEF A, I
  <2>3. \A s : s \in SourcesOf(g, n) <=> \E i \in I : s \in SourcesOf(g, i)
    BY <1>1, <2>1, <2>2
  <2> QED
    BY <2>3
<1> DEFINE stp(m) == IF m = n THEN g.node[n]
                     ELSE LET i == CHOOSE i \in I : m \in DOMAIN out[i].steps
                          IN out[i].steps[m]
<1>4. /\ frame.steps = [m \in {n} \cup UNION {DOMAIN out[i].steps : i \in I} |-> stp(m)]
      /\ frame.data = UNION {out[i].data : i \in I}
  BY DEF Compute
<1>5. \A i \in I : DOMAIN out[i].steps = Ancestors(g, i)
  BY <1>2
<1>6. {n} \cup UNION {DOMAIN out[i].steps : i \in I} = A
  BY <1>1, <1>5
<1>7. \A m \in A : stp(m) = g.node[m]
  <2> SUFFICES ASSUME NEW m \in A, m # n PROVE stp(m) = g.node[m]
    OBVIOUS
  <2>1. \E i \in I : m \in DOMAIN out[i].steps
    BY <1>1, <1>5
  <2> DEFINE i == CHOOSE i \in I : m \in DOMAIN out[i].steps
  <2>2. i \in I /\ m \in DOMAIN out[i].steps
    BY <2>1
  <2>3. stp(m) = out[i].steps[m]
    OBVIOUS
  <2> HIDE DEF i, stp
  <2>4. m \in Ancestors(g, i) /\ out[i].steps = [k \in Ancestors(g, i) |-> g.node[k]]
    BY <2>2, <1>2, <1>5
  <2> QED
    BY <2>3, <2>4
<1> HIDE DEF stp
<1>8. frame.steps = [m \in A |-> g.node[m]]
  BY <1>4, <1>6, <1>7
<1>9. key.steps = [m \in A |-> g.node[m]] /\ DOMAIN key.at = SourcesOf(g, n)
      /\ \A s \in SourcesOf(g, n) : key.at[s] = at[s]
  BY DEF StepKey, Closure
<1> HIDE DEF frame, key
<1>10. \A s : s \in {d[1] : d \in frame.data} <=> s \in DOMAIN key.at
  <2>1. \A s : s \in {d[1] : d \in frame.data} <=> \E i \in I : s \in {d[1] : d \in out[i].data}
    BY <1>4
  <2>2. \A i \in I : {d[1] : d \in out[i].data} = SourcesOf(g, i)
    BY <1>2
  <2>3. \A s : s \in {d[1] : d \in frame.data} <=> \E i \in I : s \in SourcesOf(g, i)
    BY <2>1, <2>2, Zenon
  <2> QED
    BY <2>3, <1>3, <1>9
<1>11. {d[1] : d \in frame.data} = DOMAIN key.at
  BY <1>10
<1>12. \A d \in frame.data : <<d[1], key.at[d[1]]>> \in rc \/ d[2] = key.at[d[1]]
  <2> TAKE d \in frame.data
  <2>1. PICK i \in I : d \in out[i].data
    BY <1>4
  <2>2. d[1] \in SourcesOf(g, n)
    BY <1>9, <1>11
  <2> QED
    BY <2>1, <2>2, <1>2, <1>9
<1>13. HonestIn(frame, key, rc)
  BY <1>8, <1>9, <1>11, <1>12 DEF HonestIn
<1> QED
  BY <1>13 DEF frame, key

\* The recursive definition of the frames has the solution it describes.
LEMMA FramesDef ==
  ASSUME NEW g, NEW order, Len(order) \in Nat, NEW recompute, NEW load, NEW seed, NEW frames,
         frames = Frames(g, order, recompute, load, seed)
  PROVE  /\ frames[0] = Nothing
         /\ \A i \in 1..Len(order) :
              frames[i] = Put(frames[i - 1], order[i],
                              IF order[i] \in recompute
                              THEN Compute(g, order[i], load, frames[i - 1])
                              ELSE seed[order[i]])
<1> DEFINE L == Len(order)
           Step(i, before) == Put(before, order[i], IF order[i] \in recompute
                                                 THEN Compute(g, order[i], load, before)
                                                 ELSE seed[order[i]])
           Sol(k, h) == h = [i \in 0..k |-> IF i = 0 THEN Nothing ELSE Step(i, h[i - 1])]
           T == {k \in Nat : \E h : Sol(k, h)}
<1> HIDE DEF Step
<1>1. 0 \in T
  <2>1. Sol(0, [i \in 0..0 |-> Nothing])
    OBVIOUS
  <2> QED
    BY <2>1
<1>2. ASSUME NEW k \in Nat, k \in T PROVE k + 1 \in T
  <2>1. PICK f : Sol(k, f)
    BY <1>2
  <2> DEFINE h == [i \in 0..k+1 |-> IF i <= k THEN f[i] ELSE Step(k+1, f[k])]
  <2>2. ASSUME NEW i \in 0..k+1 PROVE h[i] = IF i = 0 THEN Nothing ELSE Step(i, h[i - 1])
    <3>1. CASE i = k + 1
      BY <3>1
    <3>2. CASE i = 0
      BY <2>1, <3>2
    <3>3. CASE i \in 1..k
      <4>1. i \in 0..k /\ i # 0 /\ i - 1 \in 0..k /\ i - 1 <= k /\ i <= k
        BY <3>3
      <4>2. h[i] = f[i] /\ h[i - 1] = f[i - 1]
        BY <4>1
      <4>3. f[i] = Step(i, f[i - 1])
        BY <2>1, <4>1
      <4> QED
        BY <4>1, <4>2, <4>3
    <3> QED
      BY <3>1, <3>2, <3>3
  <2>3. Sol(k + 1, h)
    BY <2>2
  <2> HIDE DEF h, Sol
  <2> QED
    BY <2>3
<1>3. \E h : Sol(L, h)
  <2> HIDE DEF T
  <2>1. L \in T
    BY <1>1, <1>2, SetInduction
  <2> QED
    BY <2>1 DEF T
<1>4. frames = CHOOSE h : Sol(L, h)
  BY DEF Frames, Step
<1>5. Sol(L, frames)
  BY <1>3, <1>4
<1>6. 0 \in 0..L /\ \A i \in 1..L : i \in 0..L /\ i # 0
  OBVIOUS
<1>7. frames[0] = Nothing /\ \A i \in 1..L : frames[i] = Step(i, frames[i - 1])
  <2> HIDE DEF L
  <2> QED
    BY <1>5, <1>6
<1> QED
  BY <1>7 DEF Step, L

\* Every frame of out is honest about its node.
AllHonest(g, at, rc, out) == \A n \in DOMAIN out : HonestIn(out[n], StepKey(g, at, n), rc)

\* Over honest seeds, every frame a preview computes is honest.
LEMMA FramesHonest ==
  ASSUME NEW g \in Graphs, NEW recompute, NEW load, NEW seed, NEW at, NEW rc,
         Versioned(g, load, at, rc), AllHonest(g, at, rc, seed),
         Ids(g) \ recompute \subseteq DOMAIN seed,
         NEW order, order = Topological(g)
  PROVE  LET out == Frames(g, order, recompute, load, seed)[Len(order)] IN
         DOMAIN out = Ids(g) /\ AllHonest(g, at, rc, out)
<1> DEFINE F == Frames(g, order, recompute, load, seed)
           L == Len(order)
           Upto(i) == {order[k] : k \in 1..i}
           Good(i, out) == DOMAIN out = Upto(i) /\ AllHonest(g, at, rc, out)
           U == {i \in 0..L : Good(i, F[i])}
<1>0. /\ order \in Seq(Ids(g)) /\ Range(order) = Ids(g) /\ L \in Nat
      /\ \A j \in 1..L : order[j] \in Ids(g)
      /\ \A j \in 1..L : InputsOf(g, order[j]) \subseteq Upto(j - 1)
  <2>1. Wired(g) /\ Acyclic(g)
    BY GraphWired
  <2>2. /\ order \in Seq(Ids(g)) /\ Range(order) = Ids(g) /\ AfterInputs(g, order)
    BY <2>1, TopologicalOrder
  <2>3. L \in Nat /\ \A j \in 1..L : order[j] \in Ids(g)
    BY <2>2
  <2>4. \A j \in 1..L : InputsOf(g, order[j]) \subseteq Upto(j - 1)
    BY <2>2 DEF AfterInputs
  <2> QED
    BY <2>2, <2>3, <2>4
<1>1. /\ F[0] = Nothing
      /\ \A i \in 1..L : F[i] = Put(F[i - 1], order[i],
                                    IF order[i] \in recompute
                                    THEN Compute(g, order[i], load, F[i - 1])
                                    ELSE seed[order[i]])
  BY <1>0, FramesDef
<1> HIDE DEF F, L
<1>2. 0 \in U
  <2>1. DOMAIN Nothing = {} /\ Upto(0) = {} /\ 0 \in 0..L
    BY <1>0 DEF Nothing
  <2> QED
    BY <2>1, <1>1 DEF AllHonest
<1>3. ASSUME NEW i \in 1..L, i - 1 \in U PROVE i \in U
  <2> DEFINE before == F[i - 1]
             n == order[i]
             frame == IF n \in recompute THEN Compute(g, n, load, before) ELSE seed[n]
  <2>1. DOMAIN before = Upto(i - 1) /\ AllHonest(g, at, rc, before) /\ i \in 0..L
    BY <1>0, <1>3
  <2>2. F[i] = Put(before, n, frame)
    BY <1>1
  <2>3. n \in Ids(g) /\ InputsOf(g, n) \subseteq Upto(i - 1)
    BY <1>0
  <2>4. Upto(i) = Upto(i - 1) \cup {n}
    <3>1. \A k : k \in 1..i <=> k \in 1..(i - 1) \/ k = i
      BY <1>0
    <3> QED
      BY <3>1
  <2> HIDE DEF Upto, before, n
  <2>5. HonestIn(frame, StepKey(g, at, n), rc)
    <3>1. CASE n \notin recompute
      <4>1. n \in DOMAIN seed /\ frame = seed[n]
        BY <2>3, <3>1
      <4> QED
        BY <4>1 DEF AllHonest
    <3>2. CASE n \in recompute /\ TypeOf(g, n) = "import"
      <4>1. frame = Compute(g, n, load, before)
        BY <3>2
      <4> QED
        BY <4>1, <3>2, <2>3, ImportComputes
    <3>3. CASE n \in recompute /\ TypeOf(g, n) # "import"
      <4>1. frame = Compute(g, n, load, before)
        BY <3>3
      <4>2. \A k \in InputsOf(g, n) : HonestIn(before[k], StepKey(g, at, k), rc)
        BY <2>1, <2>3 DEF AllHonest
      <4> QED
        BY <4>1, <4>2, <3>3, <2>3, StepComputes
    <3> QED
      BY <3>1, <3>2, <3>3
  <2> HIDE DEF frame
  <2>6. DOMAIN F[i] = Upto(i) /\ F[i][n] = frame
        /\ \A z \in Upto(i) : z = n \/ (z \in DOMAIN before /\ F[i][z] = before[z])
    BY <2>1, <2>2, <2>4 DEF Put
  <2>7. AllHonest(g, at, rc, F[i])
    BY <2>1, <2>5, <2>6 DEF AllHonest
  <2> QED
    BY <2>1, <2>6, <2>7
<1>4. L \in U
  <2> HIDE DEF U
  <2>1. 0..L \subseteq U
    BY <1>0, <1>2, <1>3, UpToInduction
  <2> QED
    BY <1>0, <2>1
<1>5. Upto(L) = Ids(g)
  BY <1>0, RangeEquality DEF L
<1> QED
  BY <1>4, <1>5 DEF F, L
----------------------------------------------------------------------------
(* The invariants of previews *)

\* What is so of a preview q, given the versions rc that were read before their
\* file: the sources it has still to look at ...
Loads(q) == Range(ImportSources(q.g))
Reading(q, rc) ==
  /\ q.g \in Graphs /\ q.todo \in Seq(Sources) /\ q.todo # <<>>
  /\ IF q.pc = "stat" THEN Loads(q) \subseteq DOMAIN q.at \cup Range(q.todo)
                       ELSE DOMAIN q.at = {}
  /\ \A s \in DOMAIN q.at : q.at[s] = q.load[s] \/ <<s, q.at[s]>> \in rc
  /\ q.recompute = {} /\ q.seed = Nothing
\* ... the versions and the frames it has taken ...
Planning(q, rc) ==
  /\ q.g \in Graphs /\ Versioned(q.g, q.load, q.at, rc)
  /\ q.todo \in Seq(Ids(q.g)) /\ (q.pc # "exec" => q.todo # <<>>)
  /\ q.recompute \subseteq Ids(q.g)
  /\ AllHonest(q.g, q.at, rc, q.seed)
\* ... and the frames it shows.
Showing(q, rc) ==
  /\ q.g \in Graphs /\ q.recompute \subseteq Ids(q.g)
  /\ DOMAIN q.out = Ids(q.g) /\ AllHonest(q.g, q.at, rc, q.out)

ReadPhase == {"row", "file", "stat"}
PlanPhase == {"missing", "seed", "reuse", "touch", "move", "exec"}
StorePhase == {"store", "evict", "pop"}
Sound(q, rc) ==
  \/ q.pc = "idle"
  \/ q.pc \in ReadPhase /\ Reading(q, rc)
  \/ q.pc \in PlanPhase /\ Planning(q, rc)
  \/ q.pc \in StorePhase /\ Showing(q, rc)
  \/ q.pc = "done" /\ (q.out # Nothing => Showing(q, rc))

HonestInv == CacheHonest /\ \A r \in Requests : Sound(req[r], raced)

\* What a preview that no other overlaps can rely on, given the keys of the
\* cache: what is not to be recomputed is cached until its frame is taken.
CachedKeys == {cache[i].key : i \in DOMAIN cache}
PlanKey(q, n) == StepKey(q.g, q.at, n)
Supplied(q, keys) ==
  /\ q.pc = "missing" =>
       \A n \in Ids(q.g) \ Range(q.todo) : n \in q.recompute \/ PlanKey(q, n) \in keys
  /\ q.pc \in {"seed", "reuse"} =>
       /\ \A n \in Ids(q.g) : n \in q.recompute \/ PlanKey(q, n) \in keys
       /\ \A n \in Ids(q.g) \ Range(q.todo) : n \in q.recompute \/ n \in DOMAIN q.seed
  /\ q.pc \in {"touch", "move", "exec"} =>
       \A n \in Ids(q.g) : n \in q.recompute \/ n \in DOMAIN q.seed
  /\ q.pc \in {"reuse", "move"} => PlanKey(q, Head(q.todo)) \in keys

GivenInv ==
  /\ PreviewGiven
  /\ \A r \in Requests : Running(r) /\ req[r].alone =>
       /\ \A p \in Requests \ {r} : ~Running(p)
       /\ Supplied(req[r], CachedKeys)

\* What is so stays so when more versions are known to be raced.
LEMMA SoundGrows ==
  ASSUME NEW q, NEW rc, NEW rd, rc \subseteq rd, Sound(q, rc)
  PROVE  Sound(q, rd)
<1>1. \A f, k : HonestIn(f, k, rc) => HonestIn(f, k, rd)
  BY DEF HonestIn
<1>2. \A g, at, out : AllHonest(g, at, rc, out) => AllHonest(g, at, rd, out)
  BY <1>1 DEF AllHonest
<1>3. Reading(q, rc) => Reading(q, rd)
  BY DEF Reading
<1>4. Planning(q, rc) => Planning(q, rd)
  BY <1>2 DEF Planning, Versioned
<1>5. Showing(q, rc) => Showing(q, rd)
  BY <1>2 DEF Showing
<1> QED
  BY <1>3, <1>4, <1>5 DEF Sound

\* Soundness of a request depends on no other request.
LEMMA SoundAs ==
  ASSUME NEW q, NEW d, NEW rc, d.pc = q.pc, d.g = q.g, d.todo = q.todo, d.load = q.load,
         d.at = q.at, d.recompute = q.recompute, d.seed = q.seed, d.out = q.out,
         Sound(q, rc)
  PROVE  Sound(d, rc)
  BY DEF Sound, Reading, Planning, Showing, Loads

\* A step of one thread keeps what is so of the others.
LEMMA OneMoves ==
  ASSUME HonestInv, Requested, NEW r \in Requests, NEW d, req' = [req EXCEPT ![r] = d],
         raced \subseteq raced', Sound(d, raced'), CacheHonest'
  PROVE  HonestInv'
<1>1. ASSUME NEW p \in Requests PROVE Sound(req'[p], raced')
  <2>1. CASE p = r
    BY <2>1 DEF Requested
  <2>2. CASE p # r
    <3>1. req'[p] = req[p] /\ Sound(req[p], raced)
      BY <2>2 DEF Requested, HonestInv
    <3> QED
      BY <3>1, SoundGrows
  <2> QED
    BY <2>1, <2>2
<1> QED
  BY <1>1 DEF HonestInv

\* After the turn of a loop thread r is at d.
LoopsTo(r, pc, next, todo, changed, d) ==
  /\ req' = [req EXCEPT ![r] = d]
  /\ IF More(r) = <<>> THEN d.pc = next /\ d.todo = todo ELSE d.pc = pc /\ d.todo = More(r)
  /\ d.g = changed.g /\ d.load = changed.load /\ d.at = changed.at
  /\ d.recompute = changed.recompute /\ d.seed = changed.seed
  /\ d.out = changed.out /\ d.alone = changed.alone /\ d.lacks = changed.lacks

\* A loop over a list either goes on with the rest of it or ends.
LEMMA Looped ==
  ASSUME NEW r \in Requests, NEW pc, NEW next, NEW todo, NEW changed,
         DOMAIN changed = DOMAIN Idle, Loop(r, pc, next, todo, changed)
  PROVE  \E d : LoopsTo(r, pc, next, todo, changed, d)
<1> DEFINE d == [changed EXCEPT !.pc = IF More(r) = <<>> THEN next ELSE pc,
                                !.todo = IF More(r) = <<>> THEN todo ELSE More(r)]
<1>1. req' = [req EXCEPT ![r] = d]
  BY DEF Loop
<1>2. /\ IF More(r) = <<>> THEN d.pc = next /\ d.todo = todo
                           ELSE d.pc = pc /\ d.todo = More(r)
      /\ d.g = changed.g /\ d.load = changed.load /\ d.at = changed.at
      /\ d.recompute = changed.recompute /\ d.seed = changed.seed
      /\ d.out = changed.out /\ d.alone = changed.alone /\ d.lacks = changed.lacks
  BY DEF Idle
<1> HIDE DEF d
<1>3. LoopsTo(r, pc, next, todo, changed, d)
  BY <1>1, <1>2 DEF LoopsTo
<1> QED
  BY <1>3

\* A preview that is given up is sound.
LEMMA Ends ==
  ASSUME NEW r \in Requests, Fail(r) \/ Lack(r), NEW rc
  PROVE  \E d : /\ req' = [req EXCEPT ![r] = d] /\ d.pc = "done" /\ d.out = Nothing
                /\ Lack(r) => d.lacks
                /\ d.lacks \/ d.alone = req[r].alone
                /\ Sound(d, rc)
<1> DEFINE d == [Idle EXCEPT !.pc = "done", !.alone = req[r].alone]
           e == [Idle EXCEPT !.pc = "done", !.lacks = TRUE]
<1>1. /\ d.pc = "done" /\ d.out = Nothing /\ d.alone = req[r].alone /\ d.lacks = FALSE
      /\ e.pc = "done" /\ e.out = Nothing /\ e.lacks = TRUE
  BY DEF Idle
<1>2. Sound(d, rc) /\ Sound(e, rc)
  BY <1>1 DEF Sound
<1>3. Fail(r) => req' = [req EXCEPT ![r] = d]
  BY DEF Fail
<1>4. Lack(r) => req' = [req EXCEPT ![r] = e]
  BY DEF Lack
<1> HIDE DEF d, e
<1>5. CASE Lack(r)
  BY <1>1, <1>2, <1>4, <1>5
<1>6. CASE ~Lack(r)
  BY <1>1, <1>2, <1>3, <1>6
<1> QED
  BY <1>5, <1>6

\* One whose step raised is, too, and says so.
LEMMA Raises ==
  ASSUME NEW r \in Requests, Raise(r), NEW rc
  PROVE  \E d : /\ req' = [req EXCEPT ![r] = d] /\ d.pc = "done" /\ d.raised
                /\ Sound(d, rc)
<1> DEFINE d == [Idle EXCEPT !.pc = "done", !.raised = TRUE]
<1>1. d.pc = "done" /\ d.out = Nothing /\ d.raised
  BY DEF Idle
<1>2. Sound(d, rc)
  BY <1>1 DEF Sound
<1>3. req' = [req EXCEPT ![r] = d]
  BY DEF Raise
<1> QED
  BY <1>1, <1>2, <1>3
----------------------------------------------------------------------------
(* Frames are honest *)

\* Honest entries stay honest when more reads are known to have raced.
LEMMA CacheStaysHonest ==
  ASSUME CacheHonest, raced \subseteq raced',
         \A i \in DOMAIN cache' : \E j \in DOMAIN cache : cache'[i] = cache[j]
  PROVE  CacheHonest'
  BY DEF CacheHonest, Honest

\* A request that runs is sound at its step.
LEMMA SoundOf ==
  ASSUME HonestInv, NEW r \in Requests
  PROVE  /\ req[r].pc \in ReadPhase => Reading(req[r], raced)
         /\ req[r].pc \in PlanPhase => Planning(req[r], raced)
         /\ req[r].pc \in StorePhase => Showing(req[r], raced)
         /\ req[r].pc = "done" /\ req[r].out # Nothing => Showing(req[r], raced)
  BY DEF HonestInv, Sound, ReadPhase, PlanPhase, StorePhase

\* The steps of a preview keep it sound; the first of them is the request.
LEMMA AskSound ==
  ASSUME HonestInv, Requested, NEW r \in Requests, Ask(r)
  PROVE  HonestInv'
<1>1. PICK g \in Graphs :
        req' = [q \in Requests |->
          IF q = r THEN [Idle EXCEPT !.pc = "row", !.g = g, !.todo = ImportSources(g),
                                     !.alone = ~\E p \in Requests : Running(p)]
          ELSE [req[q] EXCEPT !.alone = @ /\ ~Running(q)]]
  BY DEF Ask
<1>2. raced' = raced /\ cache' = cache
  BY DEF Ask
<1>3. ASSUME NEW p \in Requests PROVE Sound(req'[p], raced)
  <2>1. CASE p = r
    <3> DEFINE d == req'[r]
    <3>1. /\ d.pc = "row" /\ d.g = g /\ d.todo = ImportSources(g) /\ d.at = Nothing
          /\ d.recompute = {} /\ d.seed = Nothing
      BY <1>1 DEF Idle
    <3>2. ImportSources(g) \in Seq(Sources) /\ ImportSources(g) # <<>>
      BY GraphWired, GraphSources
    <3>3. DOMAIN Nothing = {}
      BY DEF Nothing
    <3> HIDE DEF d
    <3>4. Reading(d, raced)
      BY <3>1, <3>2, <3>3 DEF Reading
    <3> QED
      BY <2>1, <3>1, <3>4 DEF Sound, ReadPhase, d
  <2>2. CASE p # r
    <3> DEFINE q == req[p]
               d == [q EXCEPT !.alone = @ /\ ~Running(p)]
    <3>1. req'[p] = d
      BY <1>1, <2>2
    <3>2. DOMAIN q = DOMAIN Idle /\ Sound(q, raced)
      BY DEF Requested, HonestInv
    <3>3. /\ d.pc = q.pc /\ d.g = q.g /\ d.todo = q.todo /\ d.load = q.load /\ d.at = q.at
          /\ d.recompute = q.recompute /\ d.seed = q.seed /\ d.out = q.out
      BY <3>2 DEF Idle
    <3> HIDE DEF d, q
    <3> QED
      BY <3>1, <3>2, <3>3, SoundAs
  <2> QED
    BY <2>1, <2>2
<1>4. CacheHonest'
  BY <1>2, CacheStaysHonest DEF HonestInv
<1> QED
  BY <1>2, <1>3, <1>4 DEF HonestInv

LEMMA ReadRowSound ==
  ASSUME HonestInv, Requested, NEW r \in Requests, ReadRow(r)
  PROVE  HonestInv'
<1> DEFINE q == req[r]
<1>1. q.pc = "row" /\ raced' = raced /\ cache' = cache
  BY DEF ReadRow, At
<1>2. CacheHonest'
  BY <1>1, CacheStaysHonest DEF HonestInv
<1>3. CASE Lack(r)
  <2>1. PICK d : req' = [req EXCEPT ![r] = d] /\ Sound(d, raced')
    BY <1>3, Ends
  <2> QED
    BY <2>1, <1>1, <1>2, OneMoves
<1>4. CASE req' = [req EXCEPT ![r].pc = "file"]
  <2> DEFINE d == [q EXCEPT !.pc = "file"]
  <2>1. Reading(q, raced) /\ DOMAIN q = DOMAIN Idle
    BY <1>1, SoundOf DEF ReadPhase, Requested
  <2>2. /\ d.pc = "file" /\ d.g = q.g /\ d.todo = q.todo /\ d.load = q.load
        /\ d.at = q.at /\ d.recompute = q.recompute /\ d.seed = q.seed
    BY <2>1 DEF Idle
  <2>3. req' = [req EXCEPT ![r] = d]
    BY <1>4
  <2> HIDE DEF d, q
  <2>4. Reading(d, raced)
    BY <1>1, <2>1, <2>2 DEF Reading
  <2>5. Sound(d, raced')
    BY <1>1, <2>2, <2>4 DEF Sound, ReadPhase
  <2> QED
    BY <1>1, <1>2, <2>3, <2>5, OneMoves
<1> QED
  BY <1>3, <1>4 DEF ReadRow

LEMMA ReadFileSound ==
  ASSUME HonestInv, Requested, NEW r \in Requests, ReadFile(r)
  PROVE  HonestInv'
<1> DEFINE q == req[r]
           load == Put(q.load, Head(q.todo), source[Head(q.todo)].file)
           changed == [q EXCEPT !.load = load]
<1>1. q.pc = "file" /\ raced' = raced /\ cache' = cache
  BY DEF ReadFile, At
<1>2. CacheHonest'
  BY <1>1, CacheStaysHonest DEF HonestInv
<1>3. CASE Lack(r)
  <2>1. PICK d : req' = [req EXCEPT ![r] = d] /\ Sound(d, raced')
    BY <1>3, Ends
  <2> QED
    BY <2>1, <1>1, <1>2, OneMoves
<1>4. CASE Loop(r, "row", "stat", ImportSources(q.g), changed)
  <2>1. Reading(q, raced) /\ DOMAIN q = DOMAIN Idle
    BY <1>1, SoundOf DEF ReadPhase, Requested
  <2>2. DOMAIN changed = DOMAIN Idle
    BY <2>1
  <2>p. PICK d : LoopsTo(r, "row", "stat", ImportSources(q.g), changed, d)
    BY <1>4, <2>2, Looped, Zenon
  <2>3. /\ req' = [req EXCEPT ![r] = d]
        /\ IF More(r) = <<>> THEN d.pc = "stat" /\ d.todo = ImportSources(q.g)
                             ELSE d.pc = "row" /\ d.todo = More(r)
        /\ d.g = changed.g /\ d.load = changed.load /\ d.at = changed.at
        /\ d.recompute = changed.recompute /\ d.seed = changed.seed
    BY <2>p DEF LoopsTo
  <2>4. /\ changed.g = q.g /\ changed.at = q.at /\ changed.recompute = q.recompute
        /\ changed.seed = q.seed /\ More(r) = Tail(q.todo)
    BY <2>1 DEF Idle, More
  <2> HIDE DEF changed, q
  <2>5. q.g \in Graphs /\ q.todo \in Seq(Sources) /\ q.todo # <<>> /\ DOMAIN q.at = {}
        /\ q.recompute = {} /\ q.seed = Nothing
    BY <1>1, <2>1 DEF Reading
  <2>6. ImportSources(q.g) \in Seq(Sources) /\ ImportSources(q.g) # <<>>
    BY <2>5, GraphWired, GraphSources
  <2>7. Tail(q.todo) \in Seq(Sources)
    BY <2>5, HeadAndTail
  <2>8. Reading(d, raced)
    BY <2>3, <2>4, <2>5, <2>6, <2>7 DEF Reading, Loads
  <2>9. Sound(d, raced')
    BY <1>1, <2>3, <2>8 DEF Sound, ReadPhase
  <2> QED
    BY <1>1, <1>2, <2>3, <2>9, OneMoves
<1> QED
  BY <1>3, <1>4 DEF ReadFile, Current

LEMMA StatFileSound ==
  ASSUME HonestInv, Requested, NEW r \in Requests, StatFile(r)
  PROVE  HonestInv'
<1> DEFINE q == req[r]
           s == Head(q.todo)
           v == Version(s)
           at == Put(q.at, s, v)
           changed == [q EXCEPT !.at = at]
<1>1. /\ q.pc = "stat" /\ cache' = cache
      /\ Loop(r, "stat", "missing", q.g.order, changed)
      /\ raced' = IF HasRow(s) /\ source[s].file = q.load[s] THEN raced ELSE raced \cup {<<s, v>>}
  BY DEF StatFile, At, Current
<1>2. raced \subseteq raced' /\ (v = q.load[s] \/ <<s, v>> \in raced')
  BY <1>1 DEF Version
<1>3. CacheHonest'
  BY <1>1, <1>2, CacheStaysHonest DEF HonestInv
<1>4. Reading(q, raced) /\ DOMAIN q = DOMAIN Idle
  BY <1>1, SoundOf DEF ReadPhase, Requested
<1>5. DOMAIN changed = DOMAIN Idle
  BY <1>4
<1>p. PICK d : LoopsTo(r, "stat", "missing", q.g.order, changed, d)
  BY <1>1, <1>5, Looped, Zenon
<1>6. /\ req' = [req EXCEPT ![r] = d]
      /\ IF More(r) = <<>> THEN d.pc = "missing" /\ d.todo = q.g.order
                           ELSE d.pc = "stat" /\ d.todo = More(r)
      /\ d.g = changed.g /\ d.load = changed.load /\ d.at = changed.at
      /\ d.recompute = changed.recompute /\ d.seed = changed.seed
  BY <1>p DEF LoopsTo
<1>7. /\ changed.g = q.g /\ changed.load = q.load /\ changed.at = at
      /\ changed.recompute = q.recompute /\ changed.seed = q.seed /\ More(r) = Tail(q.todo)
  BY <1>4 DEF Idle, More
<1> HIDE DEF changed, q, s, v
<1>8. /\ q.g \in Graphs /\ q.todo \in Seq(Sources) /\ q.todo # <<>>
      /\ Loads(q) \subseteq DOMAIN q.at \cup Range(q.todo)
      /\ \A t \in DOMAIN q.at : q.at[t] = q.load[t] \/ <<t, q.at[t]>> \in raced
      /\ q.recompute = {} /\ q.seed = Nothing
  BY <1>1, <1>4 DEF Reading
<1>9. Tail(q.todo) \in Seq(Sources) /\ Range(q.todo) = Range(Tail(q.todo)) \cup {s}
  BY <1>8, HeadAndTail DEF s
<1>10. DOMAIN at = DOMAIN q.at \cup {s} /\ at[s] = v
       /\ \A t \in DOMAIN at : t = s \/ (t \in DOMAIN q.at /\ at[t] = q.at[t])
  BY DEF Put
<1> HIDE DEF at
<1>11. \A t \in DOMAIN at : at[t] = q.load[t] \/ <<t, at[t]>> \in raced'
  BY <1>2, <1>8, <1>10
<1>12. Sound(d, raced')
  <2>1. CASE More(r) = <<>>
    <3>1. Range(<<>>) = {}
      BY DEF Range
    <3>2. Range(ImportSources(q.g)) \subseteq DOMAIN at
      BY <1>7, <1>8, <1>9, <1>10, <2>1, <3>1 DEF Loads
    <3>3. q.g.order \in Seq(Ids(q.g)) /\ q.g.order # <<>>
      <4>1. Wired(q.g) /\ Ids(q.g) # {}
        BY <1>8, GraphWired
      <4>2. q.g.order \in Seq(Ids(q.g)) /\ Range(q.g.order) = Ids(q.g)
        BY <4>1 DEF Wired, Listed
      <4> QED
        BY <4>1, <4>2, <3>1
    <3>4. AllHonest(q.g, at, raced', Nothing)
      BY DEF AllHonest, Nothing
    <3>5. /\ d.pc = "missing" /\ d.todo = q.g.order /\ d.g = q.g /\ d.load = q.load /\ d.at = at
          /\ d.recompute = {} /\ d.seed = Nothing
      BY <2>1, <1>6, <1>7, <1>8
    <3>6. Planning(d, raced')
      BY <1>8, <1>11, <3>2, <3>3, <3>4, <3>5 DEF Planning, Versioned
    <3> QED
      BY <3>5, <3>6 DEF Sound, PlanPhase
  <2>2. CASE More(r) # <<>>
    <3>1. Loads(q) \subseteq DOMAIN at \cup Range(Tail(q.todo))
      BY <1>8, <1>9, <1>10
    <3>2. /\ d.pc = "stat" /\ d.todo = Tail(q.todo) /\ d.g = q.g /\ d.load = q.load /\ d.at = at
          /\ d.recompute = {} /\ d.seed = Nothing /\ Tail(q.todo) # <<>>
      BY <2>2, <1>6, <1>7, <1>8
    <3>3. Reading(d, raced')
      BY <1>8, <1>9, <1>11, <3>1, <3>2 DEF Reading, Loads
    <3> QED
      BY <3>2, <3>3 DEF Sound, ReadPhase
  <2> QED
    BY <2>1, <2>2
<1> QED
  BY <1>2, <1>3, <1>6, <1>12, OneMoves

\* The order of a graph's nodes, which every loop of the plan starts with.
LEMMA WholeOrder ==
  ASSUME NEW g \in Graphs
  PROVE  g.order \in Seq(Ids(g)) /\ g.order # <<>> /\ Range(g.order) = Ids(g)
<1>1. Wired(g) /\ Ids(g) # {}
  BY GraphWired
<1>2. g.order \in Seq(Ids(g)) /\ Range(g.order) = Ids(g)
  BY <1>1 DEF Wired, Listed
<1>3. Range(<<>>) = {}
  BY DEF Range
<1> QED
  BY <1>1, <1>2, <1>3

\* A turn of one of the plan's loops: what is so of changed is so after it.
LEMMA TurnSound ==
  ASSUME HonestInv, Requested, NEW r \in Requests, NEW changed,
         NEW pc \in {"missing", "seed", "touch"}, NEW next \in {"seed", "touch", "exec"}, NEW todo,
         DOMAIN changed = DOMAIN Idle, Loop(r, pc, next, todo, changed),
         req[r].todo \in Seq(Ids(changed.g)), req[r].todo # <<>>, changed.g \in Graphs,
         IF next = "exec" THEN todo = <<>> ELSE todo = changed.g.order,
         Versioned(changed.g, changed.load, changed.at, raced),
         changed.recompute \subseteq Ids(changed.g),
         AllHonest(changed.g, changed.at, raced, changed.seed),
         UNCHANGED <<cache, raced>>
  PROVE  HonestInv'
<1>1. PICK d : LoopsTo(r, pc, next, todo, changed, d)
  BY Looped, Zenon
<1>2. /\ req' = [req EXCEPT ![r] = d]
      /\ IF More(r) = <<>> THEN d.pc = next /\ d.todo = todo ELSE d.pc = pc /\ d.todo = More(r)
      /\ d.g = changed.g /\ d.load = changed.load /\ d.at = changed.at
      /\ d.recompute = changed.recompute /\ d.seed = changed.seed
  BY <1>1 DEF LoopsTo
<1>3. CacheHonest'
  BY CacheStaysHonest DEF HonestInv
<1>4. d.todo \in Seq(Ids(d.g)) /\ (d.pc # "exec" => d.todo # <<>>)
  <2>1. CASE More(r) = <<>>
    <3>1. d.pc = next /\ d.todo = todo /\ d.g = changed.g
      BY <2>1, <1>2
    <3>2. CASE next = "exec"
      <4>1. <<>> \in Seq(Ids(d.g))
        OBVIOUS
      <4> QED
        BY <3>1, <3>2, <4>1
    <3>3. CASE next # "exec"
      BY <3>1, <3>3, WholeOrder
    <3> QED
      BY <3>2, <3>3
  <2>2. CASE More(r) # <<>>
    BY <2>2, <1>2, HeadAndTail DEF More
  <2> QED
    BY <2>1, <2>2
<1>5. Planning(d, raced)
  BY <1>2, <1>4 DEF Planning
<1>6. Sound(d, raced')
  BY <1>2, <1>5 DEF Sound, PlanPhase
<1> QED
  BY <1>2, <1>3, <1>6, OneMoves

LEMMA PlanMissingSound ==
  ASSUME HonestInv, Requested, NEW r \in Requests, PlanMissing(r)
  PROVE  HonestInv'
<1> DEFINE q == req[r]
           n == Head(q.todo)
           more == [q EXCEPT !.recompute = @ \cup {n}]
           changed == IF Missing(r, n) THEN more ELSE q
<1>1. /\ q.pc = "missing" /\ UNCHANGED <<cache, raced>>
      /\ Loop(r, "missing", "seed", q.g.order, changed)
  BY DEF PlanMissing, At, Current
<1>2. Planning(q, raced) /\ DOMAIN q = DOMAIN Idle
  BY <1>1, SoundOf DEF PlanPhase, Requested
<1>3. /\ DOMAIN more = DOMAIN Idle /\ more.g = q.g /\ more.load = q.load /\ more.at = q.at
      /\ more.recompute = q.recompute \cup {n} /\ more.seed = q.seed
  BY <1>2 DEF Idle
<1> HIDE DEF more
<1>4. /\ DOMAIN changed = DOMAIN Idle /\ changed.g = q.g /\ changed.load = q.load
      /\ changed.at = q.at /\ changed.seed = q.seed
      /\ changed.recompute \subseteq q.recompute \cup {n}
  BY <1>2, <1>3
<1> HIDE DEF changed
<1>5. /\ q.g \in Graphs /\ Versioned(q.g, q.load, q.at, raced) /\ q.todo \in Seq(Ids(q.g))
      /\ q.todo # <<>> /\ q.recompute \subseteq Ids(q.g) /\ AllHonest(q.g, q.at, raced, q.seed)
  BY <1>1, <1>2 DEF Planning
<1>6. n \in Ids(q.g)
  BY <1>5, HeadAndTail
<1> HIDE DEF n
<1> QED
  BY <1>1, <1>4, <1>5, <1>6, TurnSound

LEMMA PlanReuseSound ==
  ASSUME HonestInv, Requested, NEW r \in Requests, PlanReuse(r)
  PROVE  HonestInv'
<1> DEFINE q == req[r]
<1>1. q.pc \in {"seed", "touch"} /\ UNCHANGED <<cache, raced>>
  BY DEF PlanReuse, At
<1>2. Planning(q, raced) /\ DOMAIN q = DOMAIN Idle
  BY <1>1, SoundOf DEF PlanPhase, Requested
<1>3. /\ q.g \in Graphs /\ Versioned(q.g, q.load, q.at, raced) /\ q.todo \in Seq(Ids(q.g))
      /\ q.todo # <<>> /\ q.recompute \subseteq Ids(q.g) /\ AllHonest(q.g, q.at, raced, q.seed)
  BY <1>1, <1>2 DEF Planning
<1>4. CASE Loop(r, "seed", "touch", q.g.order, q)
  BY <1>1, <1>2, <1>3, <1>4, TurnSound
<1>5. CASE Loop(r, "touch", "exec", <<>>, q)
  BY <1>1, <1>2, <1>3, <1>5, TurnSound
<1>6. ASSUME NEW c \in {"reuse", "move"}, req' = [req EXCEPT ![r].pc = c]
      PROVE  HonestInv'
  <2> DEFINE d == [q EXCEPT !.pc = c]
  <2>1. req' = [req EXCEPT ![r] = d]
    BY <1>6
  <2>2. /\ d.pc = c /\ d.g = q.g /\ d.todo = q.todo /\ d.load = q.load
        /\ d.at = q.at /\ d.recompute = q.recompute /\ d.seed = q.seed
    BY <1>2 DEF Idle
  <2> HIDE DEF d, q
  <2>3. Planning(d, raced)
    BY <1>3, <2>2 DEF Planning
  <2>4. Sound(d, raced')
    BY <1>1, <2>2, <2>3 DEF Sound, PlanPhase
  <2>5. CacheHonest'
    BY <1>1, CacheStaysHonest DEF HonestInv
  <2> QED
    BY <1>1, <2>1, <2>4, <2>5, OneMoves
<1>7. CASE Cached(Key(r, Current(r)))
  <2>1. req' = [req EXCEPT ![r].pc = IF req[r].pc = "seed" THEN "reuse" ELSE "move"]
    BY <1>7 DEF PlanReuse
  <2> QED
    BY <2>1, <1>6
<1>8. CASE ~Cached(Key(r, Current(r)))
  BY <1>4, <1>5, <1>8 DEF PlanReuse
<1> QED
  BY <1>7, <1>8

LEMMA ReuseSound ==
  ASSUME HonestInv, Requested, NEW r \in Requests, Reuse(r)
  PROVE  HonestInv'
<1> DEFINE q == req[r]
           n == Head(q.todo)
           k == StepKey(q.g, q.at, n)
           frame == cache[Place(k)].frame
           seed == Put(q.seed, n, frame)
           changed == [q EXCEPT !.seed = seed]
<1>1. q.pc = "reuse" /\ UNCHANGED <<cache, raced>>
  BY DEF Reuse, At
<1>2. Planning(q, raced) /\ DOMAIN q = DOMAIN Idle
  BY <1>1, SoundOf DEF PlanPhase, Requested
<1>3. CASE Fail(r)
  <2>1. PICK d : req' = [req EXCEPT ![r] = d] /\ Sound(d, raced')
    BY <1>3, Ends
  <2>2. CacheHonest'
    BY <1>1, CacheStaysHonest DEF HonestInv
  <2> QED
    BY <2>1, <2>2, <1>1, OneMoves
<1>4. CASE Cached(k) /\ Loop(r, "seed", "touch", q.g.order, changed)
  <2>1. /\ DOMAIN changed = DOMAIN Idle /\ changed.g = q.g /\ changed.load = q.load
        /\ changed.at = q.at /\ changed.seed = seed /\ changed.recompute = q.recompute
    BY <1>2 DEF Idle
  <2>2. HonestIn(frame, k, raced)
    <3>1. Place(k) \in DOMAIN cache /\ cache[Place(k)].key = k
      BY <1>4 DEF Cached, Place
    <3> QED
      BY <3>1 DEF HonestInv, CacheHonest, Honest, HonestIn
  <2> HIDE DEF changed, frame
  <2>3. /\ q.g \in Graphs /\ Versioned(q.g, q.load, q.at, raced) /\ q.todo \in Seq(Ids(q.g))
        /\ q.todo # <<>> /\ q.recompute \subseteq Ids(q.g) /\ AllHonest(q.g, q.at, raced, q.seed)
    BY <1>1, <1>2 DEF Planning
  <2>4. \A m \in DOMAIN seed : \/ m = n /\ seed[m] = frame
                               \/ m \in DOMAIN q.seed /\ seed[m] = q.seed[m]
    BY DEF Put
  <2>5. AllHonest(q.g, q.at, raced, seed)
    <3> HIDE DEF seed, q
    <3> QED
      BY <2>2, <2>3, <2>4 DEF AllHonest
  <2> HIDE DEF seed
  <2> QED
    BY <1>1, <1>4, <2>1, <2>3, <2>5, TurnSound
<1> QED
  BY <1>3, <1>4 DEF Reuse, Key, Current

LEMMA MoveToEndSound ==
  ASSUME HonestInv, BoundInv, NEW r \in Requests, MoveToEnd(r)
  PROVE  HonestInv'
<1> DEFINE q == req[r]
           k == Key(r, Current(r))
<1>1. q.pc = "move" /\ raced' = raced /\ Requested /\ Sequence
  BY DEF MoveToEnd, At, BoundInv
<1>2. CASE Fail(r) /\ cache' = cache
  <2>1. PICK d : req' = [req EXCEPT ![r] = d] /\ Sound(d, raced')
    BY <1>2, Ends
  <2>2. CacheHonest'
    BY <1>1, <1>2, CacheStaysHonest DEF HonestInv
  <2> QED
    BY <2>1, <2>2, <1>1, OneMoves
<1>3. CASE /\ Cached(k) /\ cache' = Append(Without(Place(k)), cache[Place(k)])
           /\ Loop(r, "touch", "exec", <<>>, q)
  <2>1. Planning(q, raced) /\ DOMAIN q = DOMAIN Idle
    BY <1>1, SoundOf DEF PlanPhase, Requested
  <2>2. PICK d : LoopsTo(r, "touch", "exec", <<>>, q, d)
    BY <1>3, <2>1, Looped, Zenon
  <2>3. /\ req' = [req EXCEPT ![r] = d]
        /\ IF More(r) = <<>> THEN d.pc = "exec" /\ d.todo = <<>> ELSE d.pc = "touch" /\ d.todo = More(r)
        /\ d.g = q.g /\ d.load = q.load /\ d.at = q.at
        /\ d.recompute = q.recompute /\ d.seed = q.seed
    BY <2>2 DEF LoopsTo
  <2>4. /\ q.g \in Graphs /\ Versioned(q.g, q.load, q.at, raced) /\ q.todo \in Seq(Ids(q.g))
        /\ q.todo # <<>> /\ q.recompute \subseteq Ids(q.g) /\ AllHonest(q.g, q.at, raced, q.seed)
    BY <1>1, <2>1 DEF Planning
  <2>5. d.todo \in Seq(Ids(d.g)) /\ (d.pc # "exec" => d.todo # <<>>) /\ d.pc \in {"exec", "touch"}
    <3>1. CASE More(r) = <<>>
      <4>1. <<>> \in Seq(Ids(d.g))
        OBVIOUS
      <4> QED
        BY <3>1, <2>3, <4>1
    <3>2. CASE More(r) # <<>>
      <4>1. Tail(q.todo) \in Seq(Ids(q.g)) /\ More(r) = Tail(q.todo)
        BY <2>4, HeadAndTail DEF More
      <4> QED
        BY <3>2, <2>3, <4>1
    <3> QED
      BY <3>1, <3>2
  <2>6. Sound(d, raced')
    <3>1. Planning(d, raced)
      BY <2>3, <2>4, <2>5 DEF Planning
    <3> QED
      BY <1>1, <2>5, <3>1 DEF Sound, PlanPhase
  <2>7. CacheHonest'
    <3>1. PICK S : cache \in Seq(S)
      BY <1>1 DEF Sequence
    <3>2. PICK i \in DOMAIN cache : i = Place(k)
      BY <1>3 DEF Cached, Place
    <3> DEFINE m == Append(SubSeq(cache, 1, i - 1) \o SubSeq(cache, i + 1, Len(cache)), cache[i])
    <3>3. cache' = m
      BY <1>3, <3>2 DEF Without
    <3>4. /\ m \in Seq(S) /\ Len(m) = Len(cache)
          /\ \A x \in 1..Len(cache) :
               m[x] = cache[IF x < i THEN x ELSE IF x < Len(cache) THEN x + 1 ELSE i]
      BY <3>1, MovedToEnd
    <3> HIDE DEF m
    <3>5. DOMAIN m = 1..Len(cache) /\ DOMAIN cache = 1..Len(cache) /\ Len(cache) \in Nat
      BY <3>1, <3>4
    <3>6. \A x \in DOMAIN m : \E y \in DOMAIN cache : m[x] = cache[y]
      <4> TAKE x \in DOMAIN m
      <4> DEFINE y == IF x < i THEN x ELSE IF x < Len(cache) THEN x + 1 ELSE i
      <4>1. y \in DOMAIN cache
        BY <3>5
      <4>2. m[x] = cache[y]
        BY <3>4, <3>5
      <4> QED
        BY <4>1, <4>2
    <3> QED
      BY <1>1, <3>3, <3>6, CacheStaysHonest DEF HonestInv
  <2> QED
    BY <1>1, <2>3, <2>6, <2>7, OneMoves
<1> QED
  BY <1>2, <1>3 DEF MoveToEnd

LEMMA ExecuteSound ==
  ASSUME HonestInv, Requested, NEW r \in Requests, Execute(r)
  PROVE  HonestInv'
<1> DEFINE q == req[r]
           order == Topological(q.g)
           out == Frames(q.g, order, q.recompute, q.load, q.seed)[Len(order)]
           d == [q EXCEPT !.pc = AfterStore(q.recompute), !.out = out,
                          !.load = Nothing, !.seed = Nothing]
<1>1. q.pc = "exec" /\ UNCHANGED <<cache, raced>>
  BY DEF Execute, At
<1>2. Planning(q, raced) /\ DOMAIN q = DOMAIN Idle
  BY <1>1, SoundOf DEF PlanPhase, Requested
<1>3. CacheHonest'
  BY <1>1, CacheStaysHonest DEF HonestInv
<1>4. CASE Fail(r)
  <2>1. PICK e : req' = [req EXCEPT ![r] = e] /\ Sound(e, raced')
    BY <1>4, Ends
  <2> QED
    BY <2>1, <1>1, <1>3, OneMoves
<1>5. CASE Ids(q.g) \ q.recompute \subseteq DOMAIN q.seed /\ req' = [req EXCEPT ![r] = d]
  <2>1. /\ q.g \in Graphs /\ Versioned(q.g, q.load, q.at, raced)
        /\ q.recompute \subseteq Ids(q.g) /\ AllHonest(q.g, q.at, raced, q.seed)
    BY <1>2 DEF Planning
  <2>2. DOMAIN out = Ids(q.g) /\ AllHonest(q.g, q.at, raced, out)
    BY <1>5, <2>1, FramesHonest
  <2> HIDE DEF out
  <2>3. /\ d.pc \in StorePhase /\ d.g = q.g /\ d.at = q.at /\ d.recompute = q.recompute
        /\ d.out = out
    BY <1>2 DEF Idle, AfterStore, StorePhase
  <2> HIDE DEF d, q
  <2>4. Showing(d, raced)
    BY <2>1, <2>2, <2>3 DEF Showing
  <2>5. Sound(d, raced')
    BY <1>1, <2>3, <2>4 DEF Sound
  <2> QED
    BY <1>1, <1>3, <1>5, <2>5, OneMoves
<1>6. CASE Raise(r)
  <2>1. PICK e : req' = [req EXCEPT ![r] = e] /\ Sound(e, raced')
    BY <1>6, Raises
  <2> QED
    BY <2>1, <1>1, <1>3, OneMoves
<1> QED
  BY <1>4, <1>5, <1>6 DEF Execute

LEMMA StoreSound ==
  ASSUME HonestInv, BoundInv, NEW r \in Requests, Store(r)
  PROVE  HonestInv'
<1> DEFINE q == req[r]
<1>1. PICK n \in q.recompute :
        LET entry == [key |-> Key(r, n), frame |-> q.out[n]]
            left == q.recompute \ {n}
        IN /\ cache' = IF Cached(entry.key) THEN [cache EXCEPT ![Place(entry.key)] = entry]
                       ELSE Append(cache, entry)
           /\ req' = [req EXCEPT ![r].pc = AfterStore(left), ![r].recompute = left]
  BY DEF Store
<1> DEFINE entry == [key |-> Key(r, n), frame |-> q.out[n]]
           left == q.recompute \ {n}
           d == [q EXCEPT !.pc = AfterStore(left), !.recompute = left]
<1>2. q.pc = "store" /\ raced' = raced /\ Requested /\ Sequence
  BY DEF Store, At, BoundInv
<1>3. Showing(q, raced) /\ DOMAIN q = DOMAIN Idle
  BY <1>2, SoundOf DEF StorePhase, Requested
<1>4. /\ d.pc \in StorePhase /\ d.g = q.g /\ d.at = q.at /\ d.recompute = left
      /\ d.out = q.out
  BY <1>3 DEF Idle, AfterStore, StorePhase
<1>5. req' = [req EXCEPT ![r] = d]
  BY <1>1
<1>6. Sound(d, raced')
  <2> HIDE DEF d, q
  <2>1. Showing(d, raced)
    BY <1>3, <1>4 DEF Showing
  <2> QED
    BY <1>2, <1>4, <2>1 DEF Sound
<1>7. CacheHonest'
  <2>1. HonestIn(q.out[n], Key(r, n), raced)
    BY <1>3 DEF Showing, AllHonest, Key
  <2>2. PICK e : e = entry
    OBVIOUS
  <2>3. e.key = Key(r, n) /\ HonestIn(e.frame, e.key, raced)
    BY <2>1, <2>2
  <2>4. \/ Cached(e.key) /\ cache' = [cache EXCEPT ![Place(e.key)] = e]
        \/ cache' = Append(cache, e)
    BY <1>1, <2>2
  <2> HIDE DEF entry
  <2>5. PICK S : cache \in Seq(S)
    BY <1>2 DEF Sequence
  <2>6. \A i \in DOMAIN cache : HonestIn(cache[i].frame, cache[i].key, raced)
    BY DEF HonestInv, CacheHonest, Honest, HonestIn
  <2>7. \A i \in DOMAIN cache' : cache'[i] = e \/ (i \in DOMAIN cache /\ cache'[i] = cache[i])
    <3>1. CASE Cached(e.key) /\ cache' = [cache EXCEPT ![Place(e.key)] = e]
      BY <3>1
    <3>2. CASE cache' = Append(cache, e)
      <4> DEFINE T == S \cup {e}
      <4>1. cache \in Seq(T) /\ e \in T
        BY <2>5
      <4>2. /\ cache' \in Seq(T) /\ Len(cache') = Len(cache) + 1 /\ Len(cache) \in Nat
            /\ \A i \in 1..Len(cache) : cache'[i] = cache[i]
            /\ cache'[Len(cache) + 1] = e
        BY <3>2, <4>1, AppendProperties
      <4>3. DOMAIN cache' = 1..(Len(cache) + 1) /\ DOMAIN cache = 1..Len(cache)
        BY <4>1, <4>2
      <4>4. \A i \in 1..(Len(cache) + 1) : i \in 1..Len(cache) \/ i = Len(cache) + 1
        BY <4>2
      <4> QED
        BY <4>2, <4>3, <4>4
    <3> QED
      BY <2>4, <3>1, <3>2
  <2>8. \A i \in DOMAIN cache' : HonestIn(cache'[i].frame, cache'[i].key, raced')
    BY <1>2, <2>3, <2>6, <2>7
  <2> QED
    BY <2>8 DEF CacheHonest, Honest, HonestIn
<1> QED
  BY <1>2, <1>5, <1>6, <1>7, OneMoves DEF BoundInv

\* What a thread evicts is there, whatever other threads removed.
LEMMA EvictFinds ==
  ASSUME BoundInv, NEW r \in Requests, req[r].pc = "pop"
  PROVE  cache # <<>>
<1>1. /\ Popping # {} /\ IsFiniteSet(Popping) /\ Popping \subseteq Requests
  BY CacheAssumption, FS_Subset DEF Popping
<1>2. /\ Cardinality(Popping) \in Nat /\ Cardinality(Requests) \in Nat /\ Cap \in Nat
      /\ Cardinality(Requests) <= Cap /\ Cardinality(Popping) # 0
  BY <1>1, CacheAssumption, FS_CardinalityType, FS_EmptySet
<1>3. Len(cache) \in Nat /\ Len(cache) + Cardinality(Requests) > Cap + Cardinality(Popping)
  BY <1>1 DEF BoundInv, Enough, Sequence
<1>4. Len(cache) # 0
  BY <1>2, <1>3
<1> QED
  BY <1>4

LEMMA SizeSound ==
  ASSUME HonestInv, BoundInv, NEW r \in Requests, CheckSize(r) \/ Evict(r)
  PROVE  HonestInv'
<1> DEFINE q == req[r]
<1>1. /\ q.pc \in {"evict", "pop"} /\ raced' = raced /\ Requested /\ Sequence
      /\ \E c \in {"pop", "done", "evict"} : req' = [req EXCEPT ![r].pc = c]
  BY DEF CheckSize, Evict, AfterEvict, At, BoundInv
<1>2. PICK c \in {"pop", "done", "evict"} : req' = [req EXCEPT ![r].pc = c]
  BY <1>1
<1>3. Showing(q, raced) /\ DOMAIN q = DOMAIN Idle
  BY <1>1, SoundOf DEF StorePhase, Requested
<1> DEFINE d == [q EXCEPT !.pc = c]
<1>4. /\ d.pc = c /\ d.g = q.g /\ d.at = q.at /\ d.recompute = q.recompute /\ d.out = q.out
  BY <1>3 DEF Idle
<1>5. req' = [req EXCEPT ![r] = d]
  BY <1>2
<1>6. Sound(d, raced')
  <2> HIDE DEF d, q
  <2>1. Showing(d, raced)
    BY <1>3, <1>4 DEF Showing
  <2> QED
    BY <1>1, <1>4, <2>1 DEF Sound, StorePhase
<1>7. CacheHonest'
  <2>1. CASE CheckSize(r)
    BY <1>1, <2>1, CacheStaysHonest DEF CheckSize, HonestInv
  <2>2. CASE Evict(r)
    <3>1. cache' = Tail(cache) /\ cache # <<>>
      BY <2>2, EvictFinds DEF Evict, At
    <3>2. PICK S : cache \in Seq(S)
      BY <1>1 DEF Sequence
    <3>3. /\ cache' \in Seq(S) /\ Len(cache') = Len(cache) - 1 /\ Len(cache) \in Nat
          /\ \A i \in 1..Len(cache') : cache'[i] = cache[i + 1]
      BY <3>1, <3>2, HeadTailProperties
    <3>4. \A i \in DOMAIN cache' : i + 1 \in DOMAIN cache /\ cache'[i] = cache[i + 1]
      BY <3>2, <3>3
    <3> QED
      BY <1>1, <3>4, CacheStaysHonest DEF HonestInv
  <2> QED
    BY <2>1, <2>2
<1> QED
  BY <1>1, <1>5, <1>6, <1>7, OneMoves

\* Every step of every thread and of a refresh keeps the cache honest.
LEMMA HonestStep ==
  ASSUME HonestInv, BoundInv, [Next]_vars
  PROVE  HonestInv'
<1>0. Requested
  BY DEF BoundInv
<1>1. CASE UNCHANGED <<cache, req, raced>>
  BY <1>1 DEF HonestInv, CacheHonest, Honest
<1>2. CASE UNCHANGED vars
  BY <1>1, <1>2 DEF vars
<1>3. ASSUME NEW s \in Sources, Confirm(s) PROVE HonestInv'
  <2>1. UNCHANGED <<cache, req, raced>>
    BY <1>3 DEF Confirm, ArchiveRow, WriteFile, RecordRow
  <2> QED
    BY <2>1, <1>1
<1>4. ASSUME NEW r \in Requests, Preview(r) PROVE HonestInv'
  BY <1>0, <1>4, AskSound, ReadRowSound, ReadFileSound, StatFileSound, PlanMissingSound,
     PlanReuseSound, ReuseSound, MoveToEndSound, ExecuteSound, StoreSound, SizeSound DEF Preview
<1> QED
  BY <1>2, <1>3, <1>4 DEF Next, Server

----------------------------------------------------------------------------
(* What a preview shows *)

\* A preview that keeps its plan keeps what the plan gives it.
LEMMA GivenMoves ==
  ASSUME GivenInv, Requested, NEW r \in Requests, Running(r),
         NEW d, req' = [req EXCEPT ![r] = d],
         d.pc = "done" => d.out # Nothing \/ d.lacks \/ d.raised \/ ~d.alone,
         d.pc # "done" /\ d.alone => req[r].alone /\ Supplied(d, CachedKeys')
  PROVE  GivenInv'
<1>1. req'[r] = d /\ \A p \in Requests \ {r} : req'[p] = req[p]
  BY DEF Requested
<1>2. PreviewGiven'
  <2> SUFFICES ASSUME NEW p \in Requests, req'[p].pc = "done"
               PROVE  \/ req'[p].out # Nothing
                      \/ req'[p].lacks \/ req'[p].raised
                      \/ ~req'[p].alone
    BY DEF PreviewGiven, At
  <2>1. CASE p = r
    BY <1>1, <2>1
  <2>2. CASE p # r
    BY <1>1, <2>2 DEF GivenInv, PreviewGiven, At
  <2> QED
    BY <2>1, <2>2
<1>3. ASSUME NEW p \in Requests, Running(p)', req'[p].alone
      PROVE  (\A o \in Requests \ {p} : ~Running(o)') /\ Supplied(req'[p], CachedKeys')
  <2>1. CASE p = r
    <3>1. d.pc # "done" /\ d.alone
      BY <1>1, <1>3, <2>1 DEF Running
    <3>2. \A o \in Requests \ {r} : ~Running(o)
      BY <3>1 DEF GivenInv
    <3> QED
      BY <1>1, <2>1, <3>1, <3>2 DEF Running
  <2>2. CASE p # r
    <3>1. Running(p) /\ req[p].alone
      BY <1>1, <1>3, <2>2 DEF Running
    <3> QED
      BY <2>2, <3>1 DEF GivenInv
  <2> QED
    BY <2>1, <2>2
<1> QED
  BY <1>2, <1>3 DEF GivenInv

\* A preview that is alone has what it needs.
LEMMA Alone ==
  ASSUME GivenInv, NEW r \in Requests, Running(r), req[r].alone
  PROVE  Supplied(req[r], CachedKeys)
  BY DEF GivenInv

\* The keys that are in the cache.
LEMMA KeysCached ==
  ASSUME NEW r \in Requests, NEW n
  PROVE  Cached(Key(r, n)) <=> PlanKey(req[r], n) \in CachedKeys
  BY DEF Cached, CachedKeys, Key, PlanKey

LEMMA AskGiven ==
  ASSUME GivenInv, Requested, NEW r \in Requests, Ask(r)
  PROVE  GivenInv'
<1>1. PICK g \in Graphs :
        req' = [q \in Requests |->
          IF q = r THEN [Idle EXCEPT !.pc = "row", !.g = g, !.todo = ImportSources(g),
                                     !.alone = ~\E p \in Requests : Running(p)]
          ELSE [req[q] EXCEPT !.alone = @ /\ ~Running(q)]]
  BY DEF Ask
<1>2. req'[r].pc = "row" /\ (req'[r].alone => \A p \in Requests : ~Running(p))
  BY <1>1 DEF Idle
<1>3. ASSUME NEW p \in Requests \ {r}
      PROVE  /\ req'[p].pc = req[p].pc /\ req'[p].out = req[p].out
             /\ req'[p].lacks = req[p].lacks /\ req'[p].raised = req[p].raised
             /\ req'[p].alone => req[p].alone /\ ~Running(p)
  <2> DEFINE q == req[p]
             d == [q EXCEPT !.alone = @ /\ ~Running(p)]
  <2>1. req'[p] = d
    BY <1>1
  <2>2. DOMAIN q = DOMAIN Idle
    BY DEF Requested
  <2>3. /\ d.pc = q.pc /\ d.out = q.out /\ d.lacks = q.lacks /\ d.raised = q.raised
        /\ d.alone = (q.alone /\ ~Running(p))
    BY <2>2 DEF Idle
  <2> HIDE DEF d
  <2> QED
    BY <2>1, <2>3
<1>4. PreviewGiven'
  <2> SUFFICES ASSUME NEW p \in Requests, req'[p].pc = "done"
               PROVE  \/ req'[p].out # Nothing
                      \/ req'[p].lacks \/ req'[p].raised
                      \/ ~req'[p].alone
    BY DEF PreviewGiven, At
  <2>1. p \in Requests \ {r}
    BY <1>2
  <2> QED
    BY <2>1, <1>3 DEF GivenInv, PreviewGiven, At
<1>5. ASSUME NEW p \in Requests, Running(p)', req'[p].alone
      PROVE  (\A o \in Requests \ {p} : ~Running(o)') /\ Supplied(req'[p], CachedKeys')
  <2>1. Running(p)' => Running(p) \/ p = r
    BY <1>3 DEF Running
  <2>2. p = r
    BY <1>3, <1>5, <2>1
  <2>3. \A o \in Requests \ {r} : ~Running(o)'
    BY <1>2, <1>3, <1>5, <2>2 DEF Running
  <2>4. Supplied(req'[p], CachedKeys')
    BY <1>2, <2>2 DEF Supplied
  <2> QED
    BY <2>2, <2>3, <2>4
<1> QED
  BY <1>4, <1>5 DEF GivenInv

\* Nothing is relied on before the plan, nor after the frames are computed.
LEMMA EasyGiven ==
  ASSUME GivenInv, HonestInv, Requested, NEW r \in Requests, Running(r),
         NEW d, req' = [req EXCEPT ![r] = d], d.alone = req[r].alone,
         \/ d.pc \in {"row", "file", "stat", "store", "evict", "pop"}
         \/ d.pc = "missing" /\ d.g \in Graphs /\ d.todo = d.g.order
         \/ d.pc = "done" /\ Showing(d, raced)
  PROVE  GivenInv'
<1>1. ASSUME d.pc = "missing", d.g \in Graphs, d.todo = d.g.order
      PROVE  Supplied(d, CachedKeys')
  <2>1. Ids(d.g) \ Range(d.todo) = {}
    BY <1>1, WholeOrder
  <2> QED
    BY <1>1, <2>1 DEF Supplied
<1>2. ASSUME d.pc = "done", Showing(d, raced)
      PROVE  d.out # Nothing
  <2>1. DOMAIN d.out # {} /\ DOMAIN Nothing = {}
    BY <1>2, GraphWired DEF Showing, Nothing
  <2> QED
    BY <2>1
<1>3. d.pc \in {"row", "file", "stat", "store", "evict", "pop"} => Supplied(d, CachedKeys')
  BY DEF Supplied
<1> QED
  BY <1>1, <1>2, <1>3, GivenMoves

LEMMA ReadsGiven ==
  ASSUME GivenInv, HonestInv, Requested, NEW r \in Requests,
         ReadRow(r) \/ ReadFile(r) \/ StatFile(r)
  PROVE  GivenInv'
<1> DEFINE q == req[r]
<1>1. q.pc \in ReadPhase /\ Running(r)
  BY DEF ReadRow, ReadFile, StatFile, At, ReadPhase, Running
<1>2. Reading(q, raced) /\ DOMAIN q = DOMAIN Idle /\ q.g \in Graphs
  BY <1>1, SoundOf DEF Requested, Reading
<1>3. CASE Lack(r)
  <2>1. PICK d : req' = [req EXCEPT ![r] = d] /\ d.pc = "done" /\ d.lacks
    BY <1>3, Ends
  <2> QED
    BY <1>1, <2>1, GivenMoves
<1>4. CASE req' = [req EXCEPT ![r].pc = "file"]
  <2> DEFINE d == [q EXCEPT !.pc = "file"]
  <2>1. req' = [req EXCEPT ![r] = d] /\ d.pc = "file" /\ d.alone = q.alone
    BY <1>2, <1>4 DEF Idle
  <2> HIDE DEF d
  <2> QED
    BY <1>1, <2>1, EasyGiven
<1>5. ASSUME NEW changed, DOMAIN changed = DOMAIN Idle, changed.g = q.g, changed.alone = q.alone,
             \/ Loop(r, "row", "stat", ImportSources(q.g), changed)
             \/ Loop(r, "stat", "missing", q.g.order, changed)
      PROVE  GivenInv'
  <2>1. PICK d : \/ LoopsTo(r, "row", "stat", ImportSources(q.g), changed, d)
                 \/ LoopsTo(r, "stat", "missing", q.g.order, changed, d)
    BY <1>5, Looped, Zenon
  <2>2. /\ req' = [req EXCEPT ![r] = d] /\ d.alone = q.alone /\ d.g = q.g
        /\ \/ d.pc \in {"row", "stat"}
           \/ d.pc = "missing" /\ d.todo = q.g.order
    BY <1>5, <2>1 DEF LoopsTo
  <2> QED
    BY <1>1, <1>2, <2>2, EasyGiven
<1>6. CASE ReadFile(r)
  <2> DEFINE changed == [q EXCEPT !.load = Put(@, Current(r), source[Current(r)].file)]
  <2>1. Lack(r) \/ Loop(r, "row", "stat", ImportSources(q.g), changed)
    BY <1>6 DEF ReadFile
  <2>2. DOMAIN changed = DOMAIN Idle /\ changed.g = q.g /\ changed.alone = q.alone
    BY <1>2 DEF Idle
  <2> HIDE DEF changed
  <2> QED
    BY <1>3, <1>5, <2>1, <2>2
<1>7. CASE StatFile(r)
  <2> DEFINE changed == [q EXCEPT !.at = Put(@, Current(r), Version(Current(r)))]
  <2>1. Loop(r, "stat", "missing", q.g.order, changed)
    BY <1>7 DEF StatFile
  <2>2. DOMAIN changed = DOMAIN Idle /\ changed.g = q.g /\ changed.alone = q.alone
    BY <1>2 DEF Idle
  <2> HIDE DEF changed
  <2> QED
    BY <1>5, <2>1, <2>2
<1> QED
  BY <1>3, <1>4, <1>6, <1>7 DEF ReadRow

\* A turn of a loop that does its node: what has been relied on for the nodes
\* done is so for one more.
LEMMA OneMoreDone ==
  ASSUME NEW g \in Graphs, NEW todo \in Seq(Ids(g)), todo # <<>>, NEW Done,
         \A n \in Ids(g) \ Range(todo) : n \in Done, Head(todo) \in Done
  PROVE  \A n \in Ids(g) \ Range(Tail(todo)) : n \in Done
<1>1. Range(todo) = Range(Tail(todo)) \cup {Head(todo)}
  BY HeadAndTail
<1> QED
  BY <1>1

\* Before the next loop no node is done.
LEMMA NoneDone ==
  ASSUME NEW g \in Graphs
  PROVE  Ids(g) \ Range(g.order) = {} /\ Ids(g) \ Range(<<>>) = Ids(g)
<1>1. Range(<<>>) = {}
  BY DEF Range
<1> QED
  BY <1>1, WholeOrder

LEMMA PlanMissingGiven ==
  ASSUME GivenInv, HonestInv, Requested, NEW r \in Requests, PlanMissing(r)
  PROVE  GivenInv'
<1> DEFINE q == req[r]
           n == Head(q.todo)
           more == [q EXCEPT !.recompute = @ \cup {n}]
           changed == IF Missing(r, n) THEN more ELSE q
           keys == CachedKeys
<1>1. /\ q.pc = "missing" /\ cache' = cache /\ Running(r)
      /\ Loop(r, "missing", "seed", q.g.order, changed)
  BY DEF PlanMissing, At, Current, Running
<1>2. Planning(q, raced) /\ DOMAIN q = DOMAIN Idle
  BY <1>1, SoundOf DEF PlanPhase, Requested
<1>3. /\ DOMAIN more = DOMAIN Idle /\ more.g = q.g /\ more.at = q.at /\ more.alone = q.alone
      /\ more.recompute = q.recompute \cup {n}
  BY <1>2 DEF Idle
<1>4. Missing(r, n) <=> PlanKey(q, n) \notin keys
  BY KeysCached DEF Missing
<1>5. q.alone => Supplied(q, keys)
  BY <1>1, Alone
<1>6. keys' = keys
  BY <1>1 DEF CachedKeys
<1> HIDE DEF more, keys
<1>7. /\ DOMAIN changed = DOMAIN Idle /\ changed.g = q.g /\ changed.at = q.at
      /\ changed.alone = q.alone /\ q.recompute \subseteq changed.recompute
      /\ n \in changed.recompute \/ PlanKey(q, n) \in keys
  BY <1>2, <1>3, <1>4
<1> HIDE DEF changed
<1>8. PICK d : LoopsTo(r, "missing", "seed", q.g.order, changed, d)
  BY <1>1, <1>7, Looped, Zenon
<1>9. /\ req' = [req EXCEPT ![r] = d]
      /\ IF Tail(q.todo) = <<>> THEN d.pc = "seed" /\ d.todo = q.g.order
                                ELSE d.pc = "missing" /\ d.todo = Tail(q.todo)
      /\ d.g = q.g /\ d.at = q.at /\ d.recompute = changed.recompute /\ d.alone = q.alone
  BY <1>7, <1>8 DEF LoopsTo, More
<1>10. q.g \in Graphs /\ q.todo \in Seq(Ids(q.g)) /\ q.todo # <<>>
  BY <1>1, <1>2 DEF Planning
<1>11. ASSUME q.alone PROVE Supplied(d, keys)
  <2> DEFINE Done == {m \in Ids(q.g) : m \in changed.recompute \/ PlanKey(q, m) \in keys}
  <2>1. \A m \in Ids(q.g) \ Range(q.todo) : m \in Done
    BY <1>1, <1>5, <1>7, <1>11 DEF Supplied
  <2>2. n \in Done
    BY <1>7, <1>10, HeadAndTail
  <2> HIDE DEF Done
  <2>3. \A m \in Ids(q.g) \ Range(Tail(q.todo)) : m \in Done
    BY <1>10, <2>1, <2>2, OneMoreDone
  <2>4. \A m : PlanKey(d, m) = PlanKey(q, m)
    BY <1>9 DEF PlanKey
  <2>5. \A m \in Done : m \in d.recompute \/ PlanKey(d, m) \in keys
    BY <1>9, <2>4 DEF Done
  <2>6. CASE Tail(q.todo) = <<>>
    <3>1. d.pc = "seed" /\ d.todo = q.g.order /\ d.g = q.g
      BY <1>9, <2>6
    <3>2. \A m \in Ids(q.g) : m \in Done
      BY <1>10, <2>3, <2>6, NoneDone
    <3>3. Ids(d.g) \ Range(d.todo) = {}
      BY <1>10, <3>1, NoneDone
    <3> QED
      BY <2>5, <3>1, <3>2, <3>3 DEF Supplied
  <2>7. CASE Tail(q.todo) # <<>>
    <3>1. d.pc = "missing" /\ d.todo = Tail(q.todo) /\ d.g = q.g
      BY <1>9, <2>7
    <3> QED
      BY <2>3, <2>5, <3>1 DEF Supplied
  <2> QED
    BY <2>6, <2>7
<1>12. d.pc # "done"
  BY <1>9
<1> QED
  BY <1>1, <1>6, <1>9, <1>11, <1>12, GivenMoves DEF keys

\* A turn of the second or the third loop.  taken: the nodes whose frame is there.
LEMMA TurnGiven ==
  ASSUME GivenInv, Requested, NEW r \in Requests, Running(r), NEW changed,
         DOMAIN changed = DOMAIN Idle, changed.g \in Graphs, changed.alone = req[r].alone,
         req[r].todo \in Seq(Ids(changed.g)), req[r].todo # <<>>, CachedKeys' = CachedKeys,
         \/ /\ Loop(r, "seed", "touch", changed.g.order, changed)
            /\ req[r].alone =>
                 /\ \A n \in Ids(changed.g) :
                      n \in changed.recompute \/ PlanKey(changed, n) \in CachedKeys
                 /\ \A n \in Ids(changed.g) \ Range(req[r].todo) :
                      n \in changed.recompute \/ n \in DOMAIN changed.seed
                 /\ Head(req[r].todo) \in changed.recompute \cup DOMAIN changed.seed
         \/ /\ Loop(r, "touch", "exec", <<>>, changed)
            /\ req[r].alone =>
                 \A n \in Ids(changed.g) : n \in changed.recompute \/ n \in DOMAIN changed.seed
  PROVE  GivenInv'
<1> DEFINE q == req[r]
           g == changed.g
           keys == CachedKeys
           Taken == changed.recompute \cup DOMAIN changed.seed
<1>1. CASE /\ Loop(r, "seed", "touch", g.order, changed)
           /\ q.alone =>
                /\ \A n \in Ids(g) : n \in changed.recompute \/ PlanKey(changed, n) \in keys
                /\ \A n \in Ids(g) \ Range(q.todo) : n \in Taken
                /\ Head(q.todo) \in Taken
  <2>1. PICK d : LoopsTo(r, "seed", "touch", g.order, changed, d)
    BY <1>1, Looped, Zenon
  <2>2. /\ req' = [req EXCEPT ![r] = d]
        /\ IF Tail(q.todo) = <<>> THEN d.pc = "touch" /\ d.todo = g.order
                                  ELSE d.pc = "seed" /\ d.todo = Tail(q.todo)
        /\ d.g = g /\ d.at = changed.at /\ d.recompute = changed.recompute
        /\ d.seed = changed.seed /\ d.alone = q.alone
    BY <2>1 DEF LoopsTo, More
  <2>3. ASSUME q.alone PROVE Supplied(d, keys)
    <3>1. \A n \in Ids(g) \ Range(Tail(q.todo)) : n \in Taken
      <4> HIDE DEF Taken
      <4> QED
        BY <1>1, <2>3, OneMoreDone
    <3>2. \A m : PlanKey(d, m) = PlanKey(changed, m)
      BY <2>2 DEF PlanKey
    <3>3. CASE Tail(q.todo) = <<>>
      <4>1. d.pc = "touch"
        BY <2>2, <3>3
      <4>2. \A n \in Ids(g) : n \in Taken
        BY <3>1, <3>3, NoneDone
      <4> QED
        BY <2>2, <4>1, <4>2 DEF Supplied
    <3>4. CASE Tail(q.todo) # <<>>
      <4>1. d.pc = "seed" /\ d.todo = Tail(q.todo)
        BY <2>2, <3>4
      <4> QED
        BY <1>1, <2>2, <2>3, <3>1, <3>2, <4>1 DEF Supplied
    <3> QED
      BY <3>3, <3>4
  <2>4. d.pc # "done"
    BY <2>2
  <2> QED
    BY <2>2, <2>3, <2>4, GivenMoves
<1>2. CASE /\ Loop(r, "touch", "exec", <<>>, changed)
           /\ q.alone => \A n \in Ids(g) : n \in Taken
  <2>1. PICK d : LoopsTo(r, "touch", "exec", <<>>, changed, d)
    BY <1>2, Looped, Zenon
  <2>2. /\ req' = [req EXCEPT ![r] = d] /\ d.pc \in {"touch", "exec"}
        /\ d.g = g /\ d.recompute = changed.recompute
        /\ d.seed = changed.seed /\ d.alone = q.alone
    BY <2>1 DEF LoopsTo
  <2>3. q.alone => Supplied(d, keys)
    BY <1>2, <2>2 DEF Supplied
  <2>4. d.pc # "done"
    BY <2>2
  <2> QED
    BY <2>2, <2>3, <2>4, GivenMoves
<1> QED
  BY <1>1, <1>2

LEMMA PlanReuseGiven ==
  ASSUME GivenInv, HonestInv, Requested, NEW r \in Requests, PlanReuse(r)
  PROVE  GivenInv'
<1> DEFINE q == req[r]
           n == Head(q.todo)
           keys == CachedKeys
<1>1. q.pc \in {"seed", "touch"} /\ cache' = cache /\ Running(r)
  BY DEF PlanReuse, At, Running
<1>2. Planning(q, raced) /\ DOMAIN q = DOMAIN Idle
  BY <1>1, SoundOf DEF PlanPhase, Requested
<1>3. q.g \in Graphs /\ q.todo \in Seq(Ids(q.g)) /\ q.todo # <<>> /\ n \in Ids(q.g)
  BY <1>1, <1>2, HeadAndTail DEF Planning
<1>4. keys' = keys
  BY <1>1 DEF CachedKeys
<1>5. q.alone => Supplied(q, keys)
  BY <1>1, Alone
<1>6. Cached(Key(r, n)) <=> PlanKey(q, n) \in keys
  BY KeysCached
<1>7. CASE Cached(Key(r, n))
  <2> DEFINE c == IF q.pc = "seed" THEN "reuse" ELSE "move"
             d == [q EXCEPT !.pc = c]
  <2>1. req' = [req EXCEPT ![r] = d]
    BY <1>7 DEF PlanReuse, Current
  <2>2. /\ d.pc = c /\ d.g = q.g /\ d.todo = q.todo /\ d.at = q.at
        /\ d.recompute = q.recompute /\ d.seed = q.seed /\ d.alone = q.alone
    BY <1>2 DEF Idle
  <2> HIDE DEF d, keys
  <2>3. \A m : PlanKey(d, m) = PlanKey(q, m)
    BY <2>2 DEF PlanKey
  <2>4. ASSUME q.alone PROVE Supplied(d, keys)
    <3>1. CASE q.pc = "seed"
      BY <1>5, <1>6, <1>7, <2>2, <2>3, <2>4, <3>1 DEF Supplied
    <3>2. CASE q.pc = "touch"
      BY <1>5, <1>6, <1>7, <2>2, <2>3, <2>4, <3>2 DEF Supplied
    <3> QED
      BY <1>1, <3>1, <3>2
  <2>5. d.pc # "done"
    BY <2>2
  <2> QED
    BY <1>1, <1>4, <2>1, <2>2, <2>4, <2>5, GivenMoves DEF keys
<1>8. CASE ~Cached(Key(r, n))
  <2>1. q.pc = "seed" /\ q.alone => n \in q.recompute
    BY <1>3, <1>5, <1>6, <1>8 DEF Supplied
  <2>2. \/ q.pc = "seed" /\ Loop(r, "seed", "touch", q.g.order, q)
        \/ q.pc = "touch" /\ Loop(r, "touch", "exec", <<>>, q)
    BY <1>1, <1>8 DEF PlanReuse, At, Current
  <2>3. CASE q.pc = "seed" /\ Loop(r, "seed", "touch", q.g.order, q)
    <3>1. q.alone =>
            /\ \A m \in Ids(q.g) : m \in q.recompute \/ PlanKey(q, m) \in keys
            /\ \A m \in Ids(q.g) \ Range(q.todo) : m \in q.recompute \/ m \in DOMAIN q.seed
            /\ n \in q.recompute \cup DOMAIN q.seed
      BY <1>5, <2>1, <2>3 DEF Supplied
    <3> HIDE DEF q
    <3> QED
      BY <1>1, <1>2, <1>3, <1>4, <2>3, <3>1, TurnGiven DEF q
  <2>4. CASE q.pc = "touch" /\ Loop(r, "touch", "exec", <<>>, q)
    <3>1. q.alone => \A m \in Ids(q.g) : m \in q.recompute \/ m \in DOMAIN q.seed
      BY <1>5, <2>4 DEF Supplied
    <3> QED
      BY <1>1, <1>2, <1>3, <1>4, <2>4, <3>1, TurnGiven
  <2> QED
    BY <2>2, <2>3, <2>4
<1> QED
  BY <1>7, <1>8

\* A preview that is alone does not fail: what it reuses is cached, and in the
\* end it has the frames it will not recompute.
LEMMA FailGiven ==
  ASSUME GivenInv, Requested, NEW r \in Requests, Running(r), Fail(r), ~req[r].alone
  PROVE  GivenInv'
<1>1. PICK d : /\ req' = [req EXCEPT ![r] = d] /\ d.pc = "done"
               /\ d.lacks \/ d.alone = req[r].alone
  BY Ends
<1> QED
  BY <1>1, GivenMoves

LEMMA ReuseGiven ==
  ASSUME GivenInv, HonestInv, Requested, NEW r \in Requests, Reuse(r)
  PROVE  GivenInv'
<1> DEFINE q == req[r]
           n == Head(q.todo)
           keys == CachedKeys
           seed == Put(q.seed, n, cache[Place(Key(r, n))].frame)
           changed == [q EXCEPT !.seed = seed]
<1>1. q.pc = "reuse" /\ cache' = cache /\ Running(r)
  BY DEF Reuse, At, Running
<1>2. Planning(q, raced) /\ DOMAIN q = DOMAIN Idle
  BY <1>1, SoundOf DEF PlanPhase, Requested
<1>3. q.g \in Graphs /\ q.todo \in Seq(Ids(q.g)) /\ q.todo # <<>>
  BY <1>1, <1>2 DEF Planning
<1>4. keys' = keys
  BY <1>1 DEF CachedKeys
<1>5. q.alone => Supplied(q, keys)
  BY <1>1, Alone
<1>6. Cached(Key(r, n)) <=> PlanKey(q, n) \in keys
  BY KeysCached
<1>7. CASE ~Cached(Key(r, n)) /\ Fail(r)
  <2>1. ~q.alone
    BY <1>1, <1>5, <1>6, <1>7 DEF Supplied
  <2> QED
    BY <1>1, <1>7, <2>1, FailGiven
<1>8. CASE Loop(r, "seed", "touch", q.g.order, changed)
  <2>1. /\ DOMAIN changed = DOMAIN Idle /\ changed.g = q.g /\ changed.at = q.at
        /\ changed.alone = q.alone /\ changed.recompute = q.recompute /\ changed.seed = seed
    BY <1>2 DEF Idle
  <2>2. DOMAIN seed = DOMAIN q.seed \cup {n}
    BY DEF Put
  <2> HIDE DEF changed, seed, keys
  <2>3. \A m : PlanKey(changed, m) = PlanKey(q, m)
    BY <2>1 DEF PlanKey
  <2>4. q.alone =>
          /\ \A m \in Ids(q.g) : m \in q.recompute \/ PlanKey(q, m) \in keys
          /\ \A m \in Ids(q.g) \ Range(q.todo) : m \in q.recompute \/ m \in DOMAIN q.seed
    BY <1>1, <1>5 DEF Supplied
  <2>5. q.alone =>
          /\ \A m \in Ids(changed.g) : m \in changed.recompute \/ PlanKey(changed, m) \in keys
          /\ \A m \in Ids(changed.g) \ Range(q.todo) : m \in changed.recompute \/ m \in DOMAIN changed.seed
          /\ n \in changed.recompute \cup DOMAIN changed.seed
    BY <2>1, <2>2, <2>3, <2>4
  <2> QED
    BY <1>1, <1>3, <1>4, <1>8, <2>1, <2>5, TurnGiven DEF keys
<1> QED
  BY <1>7, <1>8 DEF Reuse, Current

LEMMA MoveToEndGiven ==
  ASSUME GivenInv, HonestInv, Requested, NEW r \in Requests, MoveToEnd(r)
  PROVE  GivenInv'
<1> DEFINE q == req[r]
<1>1. q.pc = "move" /\ Running(r)
  BY DEF MoveToEnd, At, Running
<1>2. DOMAIN q = DOMAIN Idle
  BY DEF Requested
<1>3. q.alone => Supplied(q, CachedKeys)
  BY <1>1, Alone
<1>4. CASE ~Cached(Key(r, Current(r))) /\ Fail(r)
  <2>1. Current(r) = Head(q.todo) /\ (Cached(Key(r, Current(r))) <=> PlanKey(q, Current(r)) \in CachedKeys)
    BY KeysCached DEF Current
  <2>2. ~q.alone
    BY <1>1, <1>3, <1>4, <2>1 DEF Supplied
  <2> QED
    BY <1>1, <1>4, <2>2, FailGiven
<1>5. CASE Loop(r, "touch", "exec", <<>>, q)
  <2>1. PICK d : LoopsTo(r, "touch", "exec", <<>>, q, d)
    BY <1>2, <1>5, Looped, Zenon
  <2>2. /\ req' = [req EXCEPT ![r] = d] /\ d.pc \in {"touch", "exec"}
        /\ d.g = q.g /\ d.recompute = q.recompute
        /\ d.seed = q.seed /\ d.alone = q.alone
    BY <2>1 DEF LoopsTo
  <2>3. q.alone => \A n \in Ids(q.g) : n \in q.recompute \/ n \in DOMAIN q.seed
    BY <1>1, <1>3 DEF Supplied
  <2>4. q.alone => Supplied(d, CachedKeys')
    BY <2>2, <2>3 DEF Supplied
  <2>5. d.pc # "done"
    BY <2>2
  <2> QED
    BY <1>1, <2>2, <2>4, <2>5, GivenMoves
<1> QED
  BY <1>4, <1>5 DEF MoveToEnd

LEMMA ExecuteGiven ==
  ASSUME GivenInv, HonestInv, Requested, NEW r \in Requests, Execute(r)
  PROVE  GivenInv'
<1> DEFINE q == req[r]
           seeded == Ids(q.g) \ q.recompute \subseteq DOMAIN q.seed
<1>1. q.pc = "exec" /\ Running(r)
  BY DEF Execute, At, Running
<1>2. DOMAIN q = DOMAIN Idle
  BY DEF Requested
<1>3. CASE ~seeded /\ Fail(r)
  <2>1. ~q.alone
    BY <1>1, <1>3, Alone DEF Supplied
  <2> QED
    BY <1>1, <1>3, <2>1, FailGiven
<1>4. ASSUME NEW out,
             req' = [req EXCEPT ![r].pc = AfterStore(q.recompute), ![r].out = out,
                                ![r].load = Nothing, ![r].seed = Nothing]
      PROVE  GivenInv'
  <2> DEFINE d == [q EXCEPT !.pc = AfterStore(q.recompute), !.out = out,
                            !.load = Nothing, !.seed = Nothing]
  <2>1. d.pc \in {"store", "evict"} /\ d.alone = q.alone
    BY <1>2 DEF Idle, AfterStore
  <2>2. req' = [req EXCEPT ![r] = d]
    BY <1>4
  <2> HIDE DEF d
  <2> QED
    BY <1>1, <2>1, <2>2, EasyGiven
<1>5. CASE Raise(r)
  <2>1. PICK d : req' = [req EXCEPT ![r] = d] /\ d.pc = "done" /\ d.raised
    BY <1>5, Raises
  <2> QED
    BY <1>1, <2>1, GivenMoves
<1> QED
  BY <1>3, <1>4, <1>5 DEF Execute

LEMMA StoresGiven ==
  ASSUME GivenInv, HonestInv, Requested, NEW r \in Requests, Store(r) \/ CheckSize(r) \/ Evict(r)
  PROVE  GivenInv'
<1> DEFINE q == req[r]
<1>1. q.pc \in StorePhase /\ Running(r)
  BY DEF Store, CheckSize, Evict, At, StorePhase, Running
<1>2. Showing(q, raced) /\ DOMAIN q = DOMAIN Idle
  BY <1>1, SoundOf DEF Requested
<1>3. CASE Store(r)
  <2>1. PICK left : req' = [req EXCEPT ![r].pc = AfterStore(left), ![r].recompute = left]
    BY <1>3 DEF Store
  <2> DEFINE d == [q EXCEPT !.pc = AfterStore(left), !.recompute = left]
  <2>2. d.pc \in {"store", "evict"} /\ d.alone = q.alone
    BY <1>2 DEF Idle, AfterStore
  <2>3. req' = [req EXCEPT ![r] = d]
    BY <2>1
  <2> HIDE DEF d
  <2> QED
    BY <1>1, <2>2, <2>3, EasyGiven
<1>4. CASE CheckSize(r) \/ Evict(r)
  <2>1. PICK c \in {"pop", "done", "evict"} : req' = [req EXCEPT ![r].pc = c]
    BY <1>4 DEF CheckSize, Evict, AfterEvict
  <2> DEFINE d == [q EXCEPT !.pc = c]
  <2>2. /\ d.pc = c /\ d.g = q.g /\ d.at = q.at /\ d.recompute = q.recompute /\ d.out = q.out
        /\ d.alone = q.alone
    BY <1>2 DEF Idle
  <2>3. req' = [req EXCEPT ![r] = d]
    BY <2>1
  <2> HIDE DEF d, q
  <2>4. Showing(d, raced)
    BY <1>2, <2>2 DEF Showing
  <2> QED
    BY <1>1, <2>2, <2>3, <2>4, EasyGiven DEF q
<1> QED
  BY <1>3, <1>4

\* Every step keeps what previews are given.
LEMMA GivenStep ==
  ASSUME GivenInv, HonestInv, BoundInv, [Next]_vars
  PROVE  GivenInv'
<1>0. Requested
  BY DEF BoundInv
<1>1. CASE UNCHANGED <<cache, req>>
  BY <1>1 DEF GivenInv, PreviewGiven, At, Running, CachedKeys
<1>2. CASE UNCHANGED vars
  BY <1>1, <1>2 DEF vars
<1>3. ASSUME NEW s \in Sources, Confirm(s) PROVE GivenInv'
  <2>1. UNCHANGED <<cache, req>>
    BY <1>3 DEF Confirm, ArchiveRow, WriteFile, RecordRow
  <2> QED
    BY <2>1, <1>1
<1>4. ASSUME NEW r \in Requests, Preview(r) PROVE GivenInv'
  BY <1>0, <1>4, AskGiven, ReadsGiven, PlanMissingGiven, PlanReuseGiven, ReuseGiven,
     MoveToEndGiven, ExecuteGiven, StoresGiven DEF Preview
<1> QED
  BY <1>2, <1>3, <1>4 DEF Next, Server
----------------------------------------------------------------------------
(* The theorems of previews *)

\* The invariant of honesty.
LEMMA HonestHolds == Spec => []HonestInv
<1>1. Init => HonestInv
  <2> SUFFICES ASSUME Init PROVE HonestInv
    OBVIOUS
  <2>1. DOMAIN cache = {}
    BY DEF Init
  <2>2. \A r \in Requests : req[r].pc = "idle"
    BY DEF Init, Idle
  <2> QED
    BY <2>1, <2>2 DEF HonestInv, CacheHonest, Sound
<1>2. BoundInv /\ HonestInv /\ [Next]_vars => HonestInv'
  BY HonestStep
<1> QED
  BY <1>1, <1>2, BoundHolds, PTL DEF Spec

\* No cached frame ever shows another content than its key names, but for
\* versions that were read before the file they name, though threads read row,
\* file and version in separate steps while a refresh replaces them.
THEOREM CacheIsHonest == Spec => []CacheHonest
<1>1. HonestInv => CacheHonest
  BY DEF HonestInv
<1> QED
  BY <1>1, HonestHolds, PTL

\* A preview that shows frames shows one for every step of the graph, each
\* computed from the graph as asked for and from what its key names, whichever
\* threads stored, evicted or moved entries of the cache meanwhile.
THEOREM PreviewsAreHonest == Spec => []PreviewHonest
<1>1. HonestInv => PreviewHonest
  <2> SUFFICES ASSUME HonestInv, NEW r \in Requests, Shows(r), req[r].out # Nothing
               PROVE  /\ DOMAIN req[r].out = Ids(req[r].g)
                      /\ \A n \in Ids(req[r].g) : Honest(req[r].out[n], Key(r, n))
    BY DEF PreviewHonest
  <2>1. Showing(req[r], raced)
    BY SoundOf DEF Shows, StorePhase
  <2> QED
    BY <2>1 DEF Showing, AllHonest, HonestIn, Honest, Key
<1> QED
  BY <1>1, HonestHolds, PTL

\* A preview that no other overlaps finds every frame that its plan left to the
\* cache: it has all that it executes on, and only a file that cannot be read or
\* a step that raises leaves it empty.
THEOREM PreviewIsGiven == Spec => []PreviewGiven
<1>1. Init => GivenInv
  <2> SUFFICES ASSUME Init PROVE GivenInv
    OBVIOUS
  <2>1. \A r \in Requests : req[r].pc = "idle"
    BY DEF Init, Idle
  <2> QED
    BY <2>1 DEF GivenInv, PreviewGiven, At, Running
<1>2. BoundInv /\ HonestInv /\ GivenInv /\ [Next]_vars => GivenInv'
  BY GivenStep
<1>3. GivenInv => PreviewGiven
  BY DEF GivenInv
<1> QED
  BY <1>1, <1>2, <1>3, BoundHolds, HonestHolds, PTL DEF Spec
===============================================================================

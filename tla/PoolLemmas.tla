--------------------------- MODULE PoolLemmas ------------------------------
(* What the list operations of the pools do, in terms of InSeq and Distinct, *)
(* and how a count changes with the set it counts.                           *)
EXTENDS PoolSeq, Integers, SequenceTheorems, FiniteSetTheorems, TLAPS

\* Appending, as release and releaseConn do.
LEMMA AppendMembers ==
    ASSUME NEW S, NEW s \in Seq(S), NEW v \in S
    PROVE  /\ \A w : InSeq(w, Append(s, v)) <=> InSeq(w, s) \/ w = v
           /\ Distinct(s) /\ ~InSeq(v, s) => Distinct(Append(s, v))
<1>1. \A w : InSeq(w, Append(s, v)) <=> InSeq(w, s) \/ w = v
  <2> TAKE w
  <2>1. ASSUME w = v PROVE InSeq(w, Append(s, v))
    <3>1. Len(s) + 1 \in 1..Len(Append(s, v)) /\ Append(s, v)[Len(s) + 1] = w
      BY <2>1
    <3> QED BY <3>1 DEF InSeq
  <2>2. ASSUME InSeq(w, s) PROVE InSeq(w, Append(s, v))
    BY <2>2 DEF InSeq
  <2>3. ASSUME InSeq(w, Append(s, v)) PROVE InSeq(w, s) \/ w = v
    BY <2>3 DEF InSeq
  <2> QED BY <2>1, <2>2, <2>3
<1>2. ASSUME Distinct(s), ~InSeq(v, s) PROVE Distinct(Append(s, v))
  BY <1>2 DEF Distinct, InSeq
<1> QED BY <1>1, <1>2

\* Taking the first element, as Stop, clean and popFront do.
LEMMA TailMembers ==
    ASSUME NEW S, NEW s \in Seq(S), s # <<>>, Distinct(s)
    PROVE  /\ Head(s) \in S /\ InSeq(Head(s), s) /\ Tail(s) \in Seq(S)
           /\ \A w : InSeq(w, Tail(s)) <=> InSeq(w, s) /\ w # Head(s)
           /\ Distinct(Tail(s))
<1>1. Len(s) \in Nat /\ Len(s) > 0 /\ Tail(s) \in Seq(S) /\ Len(Tail(s)) = Len(s) - 1
  BY EmptySeq
<1>2. \A i \in 1..Len(Tail(s)) : Tail(s)[i] = s[i + 1]
  BY <1>1
<1>3. Head(s) = s[1]
  BY <1>1
<1>4. \A w : InSeq(w, Tail(s)) <=> InSeq(w, s) /\ w # Head(s)
  <2> TAKE w
  <2>1. ASSUME InSeq(w, Tail(s)) PROVE InSeq(w, s) /\ w # Head(s)
    <3>1. PICK i \in 1..Len(Tail(s)) : Tail(s)[i] = w
      BY <2>1 DEF InSeq
    <3> QED BY <1>1, <1>2, <1>3, <3>1 DEF InSeq, Distinct
  <2>2. ASSUME InSeq(w, s), w # Head(s) PROVE InSeq(w, Tail(s))
    <3>1. PICK i \in 1..Len(s) : s[i] = w
      BY <2>2 DEF InSeq
    <3>2. i - 1 \in 1..Len(Tail(s)) /\ Tail(s)[i - 1] = w
      BY <1>1, <1>2, <1>3, <2>2, <3>1
    <3> QED BY <3>2 DEF InSeq
  <2> QED BY <2>1, <2>2
<1>5. Distinct(Tail(s))
  BY <1>1, <1>2 DEF Distinct
<1>6. Head(s) \in S /\ InSeq(Head(s), s)
  BY <1>1, <1>3 DEF InSeq
<1> QED BY <1>1, <1>4, <1>5, <1>6

\* Splitting in two, as clean and connsCleaner do.
LEMMA SplitMembers ==
    ASSUME NEW S, NEW s \in Seq(S), NEW k \in 0..Len(s), Distinct(s)
    PROVE  LET a == SubSeq(s, 1, k)
               b == SubSeq(s, k + 1, Len(s))
           IN /\ a \in Seq(S) /\ b \in Seq(S)
              /\ Distinct(a) /\ Distinct(b)
              /\ \A w : InSeq(w, s) <=> InSeq(w, a) \/ InSeq(w, b)
              /\ \A w : ~(InSeq(w, a) /\ InSeq(w, b))
<1> DEFINE a == SubSeq(s, 1, k)
           b == SubSeq(s, k + 1, Len(s))
<1>1. a \in Seq(S) /\ Len(a) = k /\ \A i \in 1..k : a[i] = s[i]
  OBVIOUS
<1>2. b \in Seq(S) /\ Len(b) = Len(s) - k /\ \A i \in 1..(Len(s) - k) : b[i] = s[i + k]
  OBVIOUS
<1> HIDE DEF a, b
<1>3. Distinct(a)
  BY <1>1 DEF Distinct
<1>4. Distinct(b)
  BY <1>2 DEF Distinct
<1>5. \A w : ~(InSeq(w, a) /\ InSeq(w, b))
  BY <1>1, <1>2 DEF Distinct, InSeq
<1>6. ASSUME NEW w PROVE InSeq(w, s) <=> InSeq(w, a) \/ InSeq(w, b)
  <2>1. ASSUME InSeq(w, s) PROVE InSeq(w, a) \/ InSeq(w, b)
    <3>1. PICK i \in 1..Len(s) : s[i] = w
      BY <2>1 DEF InSeq
    <3>2. CASE i <= k
      BY <1>1, <3>1, <3>2 DEF InSeq
    <3>3. CASE i > k
      <4>1. i - k \in 1..Len(b) /\ b[i - k] = w
        BY <1>2, <3>1, <3>3
      <4> QED BY <4>1 DEF InSeq
    <3> QED BY <3>2, <3>3
  <2>2. ASSUME InSeq(w, a) PROVE InSeq(w, s)
    BY <1>1, <2>2 DEF InSeq
  <2>3. ASSUME InSeq(w, b) PROVE InSeq(w, s)
    <3>1. PICK i \in 1..Len(b) : b[i] = w
      BY <2>3 DEF InSeq
    <3>2. i + k \in 1..Len(s) /\ s[i + k] = w
      BY <1>2, <3>1
    <3> QED BY <3>2 DEF InSeq
  <2> QED BY <2>1, <2>2, <2>3
<1> QED BY <1>1, <1>2, <1>3, <1>4, <1>5, <1>6 DEF a, b

\* Taking the last element, as getCh and acquireConn do.
LEMMA FrontMembers ==
    ASSUME NEW S, NEW s \in Seq(S), s # <<>>, Distinct(s)
    PROVE  LET f == SubSeq(s, 1, Len(s) - 1)
               l == s[Len(s)]
           IN /\ l \in S /\ InSeq(l, s) /\ f \in Seq(S)
              /\ \A w : InSeq(w, f) <=> InSeq(w, s) /\ w # l
              /\ Distinct(f)
<1> DEFINE f == SubSeq(s, 1, Len(s) - 1)
           b == SubSeq(s, Len(s) - 1 + 1, Len(s))
           l == s[Len(s)]
<1>1. Len(s) \in Nat /\ Len(s) > 0
  BY EmptySeq
<1>2. l \in S /\ InSeq(l, s)
  BY <1>1 DEF InSeq
<1>3. Len(b) = 1 /\ b[1] = l
  BY <1>1
<1>4. \A w : InSeq(w, b) <=> w = l
  BY <1>3 DEF InSeq
<1>5. /\ f \in Seq(S) /\ Distinct(f)
      /\ \A w : InSeq(w, s) <=> InSeq(w, f) \/ InSeq(w, b)
      /\ \A w : ~(InSeq(w, f) /\ InSeq(w, b))
  <2>1. Len(s) - 1 \in 0..Len(s)
    BY <1>1
  <2> QED BY <2>1, SplitMembers
<1> HIDE DEF f, b, l
<1>6. \A w : InSeq(w, f) <=> InSeq(w, s) /\ w # l
  BY <1>4, <1>5
<1> QED BY <1>2, <1>5, <1>6 DEF f, l

\* One more is counted.
LEMMA CountOneMore ==
    ASSUME NEW S, IsFiniteSet(S), NEW x, x \notin S
    PROVE  /\ IsFiniteSet(S \cup {x}) /\ Cardinality(S) \in Nat
           /\ Cardinality(S \cup {x}) = Cardinality(S) + 1
BY FS_AddElement, FS_CardinalityType

\* One less is counted.
LEMMA CountOneLess ==
    ASSUME NEW S, IsFiniteSet(S), NEW x \in S
    PROVE  /\ IsFiniteSet(S \ {x}) /\ Cardinality(S) \in Nat \ {0}
           /\ Cardinality(S \ {x}) = Cardinality(S) - 1
<1>1. Cardinality(S) \in Nat /\ Cardinality(S) # 0
  BY FS_CardinalityType, FS_EmptySet
<1> QED BY <1>1, FS_RemoveElement

\* How many of the actors D are at the points P,
NumberAt(D, pc, P) == Cardinality({d \in D : pc[d] \in P})

\* that only c, of all of them, moves, to p,
OnlyMoves(D, pc, new, c, p) == \A d \in D : new[d] = IF d = c THEN p ELSE pc[d]

\* and what becomes of their number then.
LEMMA CountMoved ==
    ASSUME NEW D, IsFiniteSet(D), NEW P, NEW f, NEW g, NEW c, NEW p,
           OnlyMoves(D, f, g, c, p)
    PROVE  /\ NumberAt(D, f, P) \in Nat
           /\ NumberAt(D, g, P) = NumberAt(D, f, P)
                  + (IF c \in D /\ p \in P THEN 1 ELSE 0)
                  - (IF c \in D /\ f[c] \in P THEN 1 ELSE 0)
<1> USE DEF NumberAt, OnlyMoves
<1> DEFINE F == {d \in D : f[d] \in P}
           G == {d \in D : g[d] \in P}
<1>1. IsFiniteSet(F) /\ IsFiniteSet(G) /\ Cardinality(F) \in Nat /\ Cardinality(G) \in Nat
  BY FS_Subset, FS_CardinalityType
<1>2. CASE c \in D
  <2>1. G = IF p \in P THEN F \cup {c} ELSE F \ {c}
    BY <1>2
  <2>2. c \in F <=> f[c] \in P
    BY <1>2
  <2> HIDE DEF F, G
  <2>3. CASE c \in F
    <3>1. Cardinality(F \ {c}) = Cardinality(F) - 1 /\ F \cup {c} = F
      BY <1>1, <2>3, CountOneLess
    <3>2. Cardinality(G) = IF p \in P THEN Cardinality(F) ELSE Cardinality(F) - 1
      BY <2>1, <3>1
    <3> QED BY <1>1, <1>2, <2>2, <2>3, <3>2 DEF F, G
  <2>4. CASE c \notin F
    <3>1. Cardinality(F \cup {c}) = Cardinality(F) + 1 /\ F \ {c} = F
      BY <1>1, <2>4, CountOneMore
    <3>2. Cardinality(G) = IF p \in P THEN Cardinality(F) + 1 ELSE Cardinality(F)
      BY <2>1, <3>1
    <3> QED BY <1>1, <1>2, <2>2, <2>4, <3>2 DEF F, G
  <2> QED BY <2>3, <2>4
<1>3. CASE c \notin D
  <2>1. G = F
    BY <1>3
  <2> HIDE DEF F, G
  <2>2. Cardinality(G) = Cardinality(F) + 0 - 0
    BY <1>1, <2>1
  <2> QED BY <1>1, <1>3, <2>2 DEF F, G
<1> QED BY <1>2, <1>3

=============================================================================

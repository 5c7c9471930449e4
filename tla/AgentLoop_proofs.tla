-------------------------- MODULE AgentLoop_proofs --------------------------
(***************************************************************************)
(* The conversation of one AgentSession (AgentLoop): for every set of      *)
(* calls and batches, every configuration and any number of asks,          *)
(* compactions and resets between them.                                    *)
(***************************************************************************)
EXTENDS AgentLoop, FiniteSetTheorems, SequenceTheorems, WellFoundedInduction, TLAPS

-----------------------------------------------------------------------------
(* Ranks *)

\* A set of positions that is not empty has a least one.
LEMMA LeastPosition ==
  ASSUME NEW S \in SUBSET Nat, S # {}
  PROVE  \E i \in S : \A j \in S : i <= j
<1>1. PICK i \in S : \A j \in S : ~(<<j, i>> \in OpToRel(<, Nat))
  BY NatLessThanWellFounded, WFMin
<1>2. \A j \in S : ~(j < i)
  BY <1>1 DEF OpToRel
<1>3. QED
  BY <1>2

\* It is what Min finds.
LEMMA LeastIsMin ==
  ASSUME NEW S \in SUBSET Nat, S # {}
  PROVE  Min(S) \in S /\ \A j \in S : Min(S) <= j
<1>1. \E i \in S : \A j \in S : i <= j
  BY LeastPosition
<1>2. Min(S) = CHOOSE i \in S : \A j \in S : i <= j
  BY DEF Min
<1>3. QED
  BY <1>1, <1>2

\* In a finite set R with a strict linear order, before[i] what comes before i, the
\* number of elements before an element counts them through.
LEMMA Ranks ==
  ASSUME NEW R, IsFiniteSet(R), NEW before \in [R -> SUBSET R],
         \A i \in R : i \notin before[i],
         \A i, j \in R : i # j => i \in before[j] \/ j \in before[i],
         \A i, j \in R : i \in before[j] => before[i] \subseteq before[j]
  PROVE  /\ Cardinality(R) \in Nat
         /\ \A i \in R : Cardinality(before[i]) \in 0..(Cardinality(R) - 1)
         /\ \A i, j \in R : i \in before[j] => Cardinality(before[i]) < Cardinality(before[j])
         /\ \A n \in 1..Cardinality(R) : \E i \in R : Cardinality(before[i]) = n - 1
<1> DEFINE N == Cardinality(R)
           rank == [i \in R |-> Cardinality(before[i]) + 1]
<1>1. N \in Nat
  BY FS_CardinalityType
<1>2. ASSUME NEW i \in R
      PROVE  /\ IsFiniteSet(before[i]) /\ Cardinality(before[i]) \in 0..(N - 1)
  <2>1. IsFiniteSet(before[i]) /\ Cardinality(before[i]) <= N
    BY FS_Subset
  <2>2. Cardinality(before[i]) # N
    BY FS_Subset
  <2>3. Cardinality(before[i]) \in Nat
    BY <2>1, FS_CardinalityType
  <2> QED BY <1>1, <2>1, <2>2, <2>3
<1>3. ASSUME NEW i \in R, NEW j \in R, i \in before[j]
      PROVE  Cardinality(before[i]) < Cardinality(before[j])
  <2>1. before[i] \subseteq before[j] /\ before[i] # before[j]
    BY <1>3
  <2>2. Cardinality(before[i]) <= Cardinality(before[j])
        /\ Cardinality(before[i]) # Cardinality(before[j])
    BY <1>2, <2>1, FS_Subset
  <2> QED BY <1>2, <2>2
<1>4. rank \in Injection(R, 1..N)
  <2>1. rank \in [R -> 1..N]
    BY <1>1, <1>2
  <2>2. ASSUME NEW i \in R, NEW j \in R, i # j PROVE rank[i] # rank[j]
    BY <1>2, <1>3, <2>2
  <2> QED BY <2>1, <2>2 DEF Injection, IsInjective
<1>5. IsFiniteSet(1..N) /\ Cardinality(1..N) = N
  BY <1>1, FS_Interval
<1>6. rank \in Surjection(R, 1..N)
  BY <1>4, <1>5, FS_Injection
<1>7. ASSUME NEW n \in 1..N PROVE \E i \in R : Cardinality(before[i]) = n - 1
  <2>1. PICK i \in R : rank[i] = n
    BY <1>6 DEF Surjection
  <2> QED BY <1>1, <1>2, <2>1
<1> QED BY <1>1, <1>2, <1>3, <1>7

-----------------------------------------------------------------------------
(* What Sub keeps *)

Below(K, i) == {j \in K : j < i}
Rank(K, i) == Cardinality(Below(K, i)) + 1

LEMMA RanksOf ==
  ASSUME NEW n \in Nat, NEW K \in SUBSET (1..n)
  PROVE  /\ IsFiniteSet(K) /\ Cardinality(K) \in Nat
         /\ \A i \in K : Rank(K, i) \in 1..Cardinality(K)
         /\ \A i, j \in K : i < j => Rank(K, i) < Rank(K, j)
         /\ \A q \in 1..Cardinality(K) : \E i \in K : Rank(K, i) = q
<1> DEFINE before == [i \in K |-> Below(K, i)]
<1>1. IsFiniteSet(K)
  <2>1. IsFiniteSet(1..n)
    BY FS_Interval
  <2> QED BY <2>1, FS_Subset
<1>2. before \in [K -> SUBSET K]
  BY DEF Below
<1>3. /\ \A i \in K : i \notin before[i]
      /\ \A i, j \in K : i # j => i \in before[j] \/ j \in before[i]
      /\ \A i, j \in K : i \in before[j] => before[i] \subseteq before[j]
      /\ \A i, j \in K : i < j => i \in before[j]
  <2>1. \A i, j \in K : before[j] = Below(K, j) /\ (i \in Below(K, j) <=> i < j)
    BY DEF Below
  <2>2. \A i, j, k \in K : /\ ~(i < i) /\ (i # j => i < j \/ j < i)
                          /\ (k < i /\ i < j => k < j)
    OBVIOUS
  <2>3. \A i, j \in K : i < j => Below(K, i) \subseteq Below(K, j)
    BY <2>2 DEF Below
  <2> HIDE DEF before
  <2>4. \A i \in K : i \notin before[i]
    BY <2>1, <2>2
  <2>5. ASSUME NEW i \in K, NEW j \in K, i # j PROVE i \in before[j] \/ j \in before[i]
    <3>1. i \in Nat /\ j \in Nat
      OBVIOUS
    <3>2. CASE i < j
      BY <2>1, <3>2
    <3>3. CASE j < i
      BY <2>1, <3>3
    <3> QED BY <2>5, <3>1, <3>2, <3>3
  <2>6. \A i, j \in K : i \in before[j] => before[i] \subseteq before[j]
    BY <2>1, <2>3
  <2>7. \A i, j \in K : i < j => i \in before[j]
    BY <2>1
  <2> QED BY <2>4, <2>5, <2>6, <2>7
<1> HIDE DEF before
<1>4. /\ Cardinality(K) \in Nat
      /\ \A i \in K : Cardinality(before[i]) \in 0..(Cardinality(K) - 1)
      /\ \A i, j \in K : i \in before[j] => Cardinality(before[i]) < Cardinality(before[j])
      /\ \A q \in 1..Cardinality(K) : \E i \in K : Cardinality(before[i]) = q - 1
  BY <1>1, <1>2, <1>3, Ranks
<1>5. \A i \in K : Rank(K, i) = Cardinality(before[i]) + 1
  BY DEF Rank, before
<1> QED BY <1>1, <1>3, <1>4, <1>5

\* Sub puts the message at i where the rank of i says.
LEMMA SubIs ==
  ASSUME NEW S, NEW h \in Seq(S), NEW K \in SUBSET DOMAIN h
  PROVE  /\ Sub(h, K) \in Seq(S) /\ Len(Sub(h, K)) = Cardinality(K)
         /\ IsFiniteSet(K) /\ Cardinality(K) \in Nat
         /\ \A i \in K : Rank(K, i) \in DOMAIN Sub(h, K) /\ Sub(h, K)[Rank(K, i)] = h[i]
         /\ \A q \in DOMAIN Sub(h, K) : \E i \in K : Rank(K, i) = q
<1> DEFINE N == Cardinality(K)
           nth(q) == CHOOSE i \in K : Cardinality(Below(K, i)) = q - 1
<1>1. DOMAIN h = 1..Len(h) /\ Len(h) \in Nat
  OBVIOUS
<1>2. /\ IsFiniteSet(K) /\ N \in Nat
      /\ \A i \in K : Rank(K, i) \in 1..N
      /\ \A i, j \in K : i < j => Rank(K, i) < Rank(K, j)
      /\ \A q \in 1..N : \E i \in K : Rank(K, i) = q
  BY <1>1, RanksOf
<1>3. Sub(h, K) = [q \in 1..N |-> h[nth(q)]]
  BY DEF Sub, Below
<1>4. \A i \in K : Cardinality(Below(K, i)) \in Nat
  <2>1. ASSUME NEW i \in K PROVE Cardinality(Below(K, i)) \in Nat
    BY <1>2, FS_Subset, FS_CardinalityType DEF Below
  <2> QED BY <2>1
<1>5. ASSUME NEW i \in K PROVE nth(Rank(K, i)) = i
  <2>1. Cardinality(Below(K, i)) = Rank(K, i) - 1
    BY <1>4 DEF Rank
  <2>2. \A j \in K : Cardinality(Below(K, j)) = Rank(K, i) - 1 => j = i
    <3>1. ASSUME NEW j \in K, Cardinality(Below(K, j)) = Rank(K, i) - 1, j # i PROVE FALSE
      <4>1. Rank(K, j) = Rank(K, i)
        BY <1>2, <1>4, <3>1 DEF Rank
      <4>2. (i < j \/ j < i) /\ Rank(K, i) \in Int /\ Rank(K, j) \in Int
        BY <1>1, <1>2, <3>1
      <4> QED BY <1>2, <4>1, <4>2
    <3> QED BY <3>1
  <2> QED BY <2>1, <2>2
<1> HIDE DEF nth
<1>6. ASSUME NEW q \in 1..N PROVE h[nth(q)] \in S
  BY <1>1, <1>2, <1>5
<1>7. Sub(h, K) \in Seq(S) /\ Len(Sub(h, K)) = N /\ DOMAIN Sub(h, K) = 1..N
  BY <1>2, <1>3, <1>6
<1> QED BY <1>2, <1>3, <1>5, <1>7

\* Neighbours stay neighbours.
LEMMA RanksInARow ==
  ASSUME NEW n \in Nat, NEW K \in SUBSET (1..n), NEW i \in K, NEW k \in Nat, i..(i + k) \subseteq K
  PROVE  Rank(K, i + k) = Rank(K, i) + k
<1>1. i \in Nat /\ i + k \in K
  OBVIOUS
<1>2. IsFiniteSet(K)
  <2>1. IsFiniteSet(1..n)
    BY FS_Interval
  <2> QED BY <2>1, FS_Subset
<1>3. IsFiniteSet(Below(K, i)) /\ Cardinality(Below(K, i)) \in Nat
  BY <1>2, FS_Subset, FS_CardinalityType DEF Below
<1> DEFINE row == i..(i + k - 1)
<1>4. IsFiniteSet(row) /\ Cardinality(row) = k
  <2>1. i + k - 1 \in Int
    BY <1>1
  <2>2. /\ IsFiniteSet(row)
        /\ Cardinality(row) = IF i > i + k - 1 THEN 0 ELSE i + k - 1 - i + 1
    BY <1>1, <2>1, FS_Interval
  <2> QED BY <1>1, <2>2
<1>5. Below(K, i + k) = Below(K, i) \cup row /\ Below(K, i) \cap row = {}
  <2>1. \A j \in row : j \in K /\ j < i + k /\ ~(j < i)
    BY <1>1
  <2>2. \A j \in K : j < i + k => j < i \/ j \in row
    BY <1>1
  <2>3. \A j \in K : j < i => j < i + k
    BY <1>1
  <2> HIDE DEF row
  <2> QED BY <2>1, <2>2, <2>3 DEF Below
<1> HIDE DEF row
<1>6. Cardinality(Below(K, i + k)) = Cardinality(Below(K, i)) + k
  <2>1. Cardinality({}) = 0
    BY FS_EmptySet
  <2> DEFINE low == Below(K, i)
  <2> HIDE DEF low
  <2>2. Cardinality(low \cup row) = Cardinality(low) + Cardinality(row) - Cardinality(low \cap row)
    BY <1>3, <1>4, FS_Union DEF low
  <2>3. Below(K, i + k) = low \cup row /\ low \cap row = {}
    BY <1>5 DEF low
  <2>4. Cardinality(low) \in Nat
    BY <1>3 DEF low
  <2>5. Cardinality(Below(K, i + k)) = Cardinality(low) + k
    <3>1. Cardinality(Below(K, i + k)) = Cardinality(low \cup row)
      BY <2>3, Zenon
    <3>2. Cardinality(low \cap row) = 0
      BY <2>1, <2>3, Zenon
    <3> QED BY <1>4, <2>2, <2>4, <3>1, <3>2
  <2> QED BY <2>5 DEF low
<1> QED BY <1>3, <1>6 DEF Rank
-----------------------------------------------------------------------------
(* Conversations that are cut and continued *)

\* The positions of K hold every exchange of h that is not in B whole or not at all.
Whole(h, K, B) ==
  \A i, c \in DOMAIN h :
    IsResult(h[i]) /\ h[i].batch \notin B /\ Follows(h, c, i) => (c \in K <=> i \in K)

\* What is left of a conversation is one whose exchanges are whole, if each was kept
\* whole or dropped whole.
LEMMA WholeAnswers ==
  ASSUME NEW h \in Seq(Message), NEW K \in SUBSET DOMAIN h, NEW B,
         Answers(h, B), Whole(h, K, B)
  PROVE  Answers(Sub(h, K), B)
<1> DEFINE s == Sub(h, K)
<1>1. DOMAIN h = 1..Len(h) /\ Len(h) \in Nat /\ \A i \in K : i \in Nat /\ h[i] \in Message
  OBVIOUS
<1>2. /\ s \in Seq(Message) /\ Len(s) = Cardinality(K) /\ Cardinality(K) \in Nat
      /\ \A i \in K : Rank(K, i) \in DOMAIN s /\ s[Rank(K, i)] = h[i]
      /\ \A q \in DOMAIN s : \E i \in K : Rank(K, i) = q
  BY SubIs
<1>3. \A i, j \in K : i < j => Rank(K, i) < Rank(K, j)
  BY <1>1, RanksOf
<1> HIDE DEF s
<1>4. DOMAIN s = 1..Len(s) /\ \A i \in K : Rank(K, i) \in Nat
  BY <1>2
<1>5. ASSUME NEW i \in K, h[i].batch \notin B, IsCaller(h[i]), NEW k \in 1..h[i].calls
      PROVE  /\ i + k \in K /\ Rank(K, i + k) = Rank(K, i) + k
             /\ IsResult(h[i + k]) /\ h[i + k].batch = h[i].batch
  <2>1. \A l \in 1..h[i].calls :
          i + l \in DOMAIN h /\ IsResult(h[i + l]) /\ h[i + l].batch = h[i].batch
    BY <1>5 DEF Answers
  <2>2. h[i].calls \in Nat /\ i \in Nat
    BY <1>1 DEF Message
  <2>3. ASSUME NEW l \in 1..h[i].calls PROVE i + l \in K
    <3>1. Follows(h, i, i + l)
      <4>1. ASSUME NEW j \in DOMAIN h, i < j, j <= i + l PROVE IsResult(h[j])
        <5>1. j - i \in 1..h[i].calls /\ i + (j - i) = j
          BY <1>1, <2>2, <2>3, <4>1
        <5> QED BY <2>1, <5>1
      <4>2. i < i + l
        BY <2>2
      <4> QED BY <1>5, <4>1, <4>2 DEF Follows
    <3> QED BY <1>5, <2>1, <3>1 DEF Whole
  <2>4. i..(i + k) \subseteq K
    <3>1. ASSUME NEW j \in i..(i + k), j # i PROVE j \in K
      <4>1. j - i \in 1..h[i].calls /\ i + (j - i) = j
        BY <2>2, <3>1
      <4> QED BY <2>3, <4>1
    <3> QED BY <3>1
  <2>5. k \in Nat
    BY <2>2
  <2>6. Rank(K, i + k) = Rank(K, i) + k
    <3>1. K \in SUBSET (1..Len(h)) /\ Len(h) \in Nat /\ i \in K
      BY <1>1, <1>5
    <3> HIDE DEF Rank
    <3> QED BY <2>4, <2>5, <3>1, RanksInARow
  <2> QED BY <2>1, <2>3, <2>6
<1>6. ASSUME NEW i \in K, h[i].batch \notin B, IsResult(h[i])
      PROVE  \E c \in DOMAIN s : Follows(s, c, Rank(K, i)) /\ s[c].batch = h[i].batch
  <2>1. PICK c \in DOMAIN h : Follows(h, c, i) /\ h[c].batch = h[i].batch
    BY <1>6 DEF Answers
  <2>2. c \in K /\ c < i /\ IsCaller(h[c])
    BY <1>6, <2>1 DEF Whole, Follows
  <2>3. Rank(K, c) < Rank(K, i) /\ s[Rank(K, c)] = h[c] /\ Rank(K, c) \in DOMAIN s
    BY <1>2, <1>3, <2>2
  <2>4. ASSUME NEW q \in DOMAIN s, Rank(K, c) < q, q <= Rank(K, i) PROVE IsResult(s[q])
    <3>1. PICK j \in K : Rank(K, j) = q
      BY <1>2
    <3>2. c < j
      <4>1. ASSUME ~(c < j) PROVE FALSE
        <5>1. j < c \/ j = c
          BY <1>1, <2>2, <4>1
        <5>2. ~(Rank(K, j) < Rank(K, c)) /\ Rank(K, j) # Rank(K, c)
          BY <1>4, <2>2, <2>4, <3>1
        <5> QED BY <1>3, <2>2, <5>1, <5>2
      <4> QED BY <4>1
    <3>3. j <= i
      <4>1. ASSUME ~(j <= i) PROVE FALSE
        <5>1. i < j
          BY <1>1, <4>1
        <5>2. ~(Rank(K, i) < Rank(K, j))
          BY <1>4, <2>4, <3>1
        <5> QED BY <1>3, <5>1, <5>2
      <4> QED BY <4>1
    <3>4. IsResult(h[j])
      BY <2>1, <3>2, <3>3 DEF Follows
    <3> QED BY <1>2, <3>1, <3>4
  <2>5. Follows(s, Rank(K, c), Rank(K, i))
    BY <2>2, <2>3, <2>4 DEF Follows
  <2> QED BY <2>1, <2>3, <2>5
<1>7. ASSUME NEW q \in DOMAIN s, s[q].batch \notin B
      PROVE  /\ IsCaller(s[q]) =>
                  \A k \in 1..s[q].calls :
                    q + k \in DOMAIN s /\ IsResult(s[q + k]) /\ s[q + k].batch = s[q].batch
             /\ IsResult(s[q]) =>
                  \E c \in DOMAIN s : Follows(s, c, q) /\ s[c].batch = s[q].batch
  <2>1. PICK i \in K : Rank(K, i) = q
    BY <1>2
  <2>2. s[q] = h[i]
    BY <1>2, <2>1
  <2>3. ASSUME IsCaller(s[q]), NEW k \in 1..s[q].calls
        PROVE  q + k \in DOMAIN s /\ IsResult(s[q + k]) /\ s[q + k].batch = s[q].batch
    <3>1. /\ i + k \in K /\ Rank(K, i + k) = q + k
          /\ IsResult(h[i + k]) /\ h[i + k].batch = h[i].batch
      BY <1>5, <1>7, <2>1, <2>2, <2>3
    <3> QED BY <1>2, <2>2, <3>1
  <2>4. ASSUME IsResult(s[q])
        PROVE  \E c \in DOMAIN s : Follows(s, c, q) /\ s[c].batch = s[q].batch
    BY <1>6, <1>7, <2>1, <2>2, <2>4
  <2> QED BY <2>3, <2>4
<1>8. Answers(s, B)
  BY <1>7 DEF Answers
<1> QED BY <1>8 DEF s

\* What comes behind a conversation does not touch its exchanges.
LEMMA LongerAnswers ==
  ASSUME NEW h \in Seq(Message), NEW g \in Seq(Message), NEW B, Answers(h, B),
         Len(h) <= Len(g), \A i \in 1..Len(h) : g[i] = h[i],
         \A i \in (Len(h) + 1)..Len(g) : g[i].batch \in B \/ ~(IsCaller(g[i]) \/ IsResult(g[i]))
  PROVE  Answers(g, B)
<1>1. /\ DOMAIN h = 1..Len(h) /\ Len(h) \in Nat
      /\ DOMAIN g = 1..Len(g) /\ Len(g) \in Nat
      /\ \A i \in 1..Len(h) : i \in 1..Len(g)
      /\ \A i \in 1..Len(g) : i \in 1..Len(h) \/ i \in (Len(h) + 1)..Len(g)
  OBVIOUS
<1>2. ASSUME NEW i \in 1..Len(g), g[i].batch \notin B, IsCaller(g[i]) \/ IsResult(g[i])
      PROVE  i \in 1..Len(h) /\ g[i] = h[i]
  BY <1>1, <1>2
<1>3. ASSUME NEW i \in 1..Len(h), NEW c \in 1..Len(h), Follows(h, c, i) PROVE Follows(g, c, i)
  <2>1. c < i /\ IsCaller(h[c]) /\ \A k \in 1..Len(h) : c < k /\ k <= i => IsResult(h[k])
    BY <1>1, <1>3 DEF Follows
  <2>2. ASSUME NEW k \in 1..Len(g), c < k, k <= i PROVE IsResult(g[k])
    <3>1. k \in 1..Len(h)
      BY <1>1, <2>2
    <3> QED BY <2>1, <2>2, <3>1
  <2> QED BY <1>1, <2>1, <2>2 DEF Follows
<1>4. ASSUME NEW i \in 1..Len(h), h[i].batch \notin B
      PROVE  /\ IsCaller(h[i]) =>
                  \A k \in 1..h[i].calls :
                    i + k \in 1..Len(h) /\ IsResult(h[i + k]) /\ h[i + k].batch = h[i].batch
             /\ IsResult(h[i]) =>
                  \E c \in 1..Len(h) : Follows(h, c, i) /\ h[c].batch = h[i].batch
  BY <1>1, <1>4 DEF Answers
<1>5. ASSUME NEW i \in 1..Len(g), g[i].batch \notin B
      PROVE  /\ IsCaller(g[i]) =>
                  \A k \in 1..g[i].calls :
                    i + k \in 1..Len(g) /\ IsResult(g[i + k]) /\ g[i + k].batch = g[i].batch
             /\ IsResult(g[i]) =>
                  \E c \in 1..Len(g) : Follows(g, c, i) /\ g[c].batch = g[i].batch
  <2>1. ASSUME IsCaller(g[i]), NEW k \in 1..g[i].calls
        PROVE  i + k \in 1..Len(g) /\ IsResult(g[i + k]) /\ g[i + k].batch = g[i].batch
    <3>1. i \in 1..Len(h) /\ g[i] = h[i]
      BY <1>2, <1>5, <2>1
    <3>2. i + k \in 1..Len(h) /\ IsResult(h[i + k]) /\ h[i + k].batch = h[i].batch
      BY <1>4, <1>5, <2>1, <3>1
    <3> QED BY <1>1, <3>1, <3>2
  <2>2. ASSUME IsResult(g[i])
        PROVE  \E c \in 1..Len(g) : Follows(g, c, i) /\ g[c].batch = g[i].batch
    <3>1. i \in 1..Len(h) /\ g[i] = h[i]
      BY <1>2, <1>5, <2>2
    <3>2. PICK c \in 1..Len(h) : Follows(h, c, i) /\ h[c].batch = h[i].batch
      BY <1>4, <1>5, <2>2, <3>1
    <3> QED BY <1>1, <1>3, <3>1, <3>2
  <2> QED BY <2>1, <2>2
<1> QED BY <1>1, <1>5 DEF Answers
-----------------------------------------------------------------------------
(* What the loops of enforceContextBudget do to exchanges *)

\* Later positions, and fewer positions, have no more positions after them.
LEMMA FromShrinks ==
  ASSUME NEW n \in Nat, NEW K \in SUBSET (1..n), NEW L \in SUBSET K,
         NEW i \in 1..n, NEW j \in 1..n, i <= j
  PROVE  /\ Cardinality(From(K, i)) \in Nat
         /\ Cardinality(From(L, j)) \in Nat
         /\ Cardinality(From(L, j)) <= Cardinality(From(K, i))
<1>1. IsFiniteSet(1..n)
  BY FS_Interval
<1>2. IsFiniteSet(From(K, i))
  BY <1>1, FS_Subset DEF From
<1>3. From(L, j) \in SUBSET From(K, i)
  <2>1. ASSUME NEW x \in From(L, j) PROVE x \in From(K, i)
    <3>1. x \in L /\ x >= j /\ x \in K /\ x \in 1..n
      BY DEF From
    <3>2. x >= i
      BY <3>1
    <3>3. QED
      BY <3>1, <3>2 DEF From
  <2>2. QED
    BY <2>1
<1>4. QED
  BY <1>2, <1>3, FS_Subset, FS_CardinalityType

\* The oldest message left is one of the droppable ones while the loops go on.
LEMMA OldestIsDroppable ==
  ASSUME NEW h \in Seq(Message), NEW K \in SUBSET DOMAIN h, NEW m \in Nat,
         Cardinality(K \ Sys(h)) > m, NEW d \in Oldest(h, K)
  PROVE  d \in Droppable(h, K, m)
<1>1. DOMAIN h = 1..Len(h) /\ Len(h) \in Nat
  OBVIOUS
<1>2. IsFiniteSet(From(K, d))
  <2>1. IsFiniteSet(1..Len(h))
    BY <1>1, FS_Interval
  <2>2. From(K, d) \in SUBSET (1..Len(h))
    BY <1>1 DEF From
  <2>3. QED
    BY <2>1, <2>2, FS_Subset
<1>3. d \in K \ Sys(h) /\ K \ Sys(h) \in SUBSET From(K, d)
  BY <1>1 DEF Oldest, From
<1>4. /\ Cardinality(K \ Sys(h)) \in Nat
      /\ Cardinality(From(K, d)) \in Nat
      /\ Cardinality(K \ Sys(h)) <= Cardinality(From(K, d))
  BY <1>2, <1>3, FS_Subset, FS_CardinalityType
<1>5. QED
  BY <1>3, <1>4 DEF Droppable


\* A group dropped takes each exchange whole or leaves it whole, whether the group begins
\* with a call or, for want of one, with the results of an exchange cut short.
LEMMA GroupsAreWhole ==
  ASSUME NEW h \in Seq(Message), NEW K \in SUBSET DOMAIN h, NEW B, Whole(h, K, B),
         NEW m \in Nat, NEW i \in GroupStarts(h, K, m)
  PROVE  Whole(h, K \ Group(h, K, i), B)
<1> DEFINE G == Group(h, K, i)
           open == Droppable(h, K, m) \ Protected(h)
<1>1. SUFFICES ASSUME NEW t \in DOMAIN h, NEW c \in DOMAIN h, IsResult(h[t]),
                      h[t].batch \notin B, Follows(h, c, t), c \in K, t \in K
               PROVE  c \in G <=> t \in G
  BY DEF Whole
<1>2. DOMAIN h = 1..Len(h) /\ Len(h) \in Nat
  OBVIOUS
<1>3. c < t /\ IsCaller(h[c]) /\ \A k \in DOMAIN h : c < k /\ k <= t => IsResult(h[k])
  BY <1>1 DEF Follows
<1>4. \A j \in DOMAIN h : ~(IsCaller(h[j]) /\ IsResult(h[j]))
  BY DEF IsCaller, IsResult
<1>5. /\ i \in open
      /\ IsCaller(h[i]) \/ (IsResult(h[i]) /\ \A j \in open : ~IsCaller(h[j]))
  BY DEF GroupStarts
<1>6. i \in K /\ Cardinality(From(K, i)) > m
  BY <1>5 DEF Droppable
<1> HIDE DEF open
<1>7. ASSUME t \in G PROVE c = i
  <2>1. i <= t /\ \A k \in K : i < k /\ k <= t => IsResult(h[k])
    BY <1>2, <1>6, <1>7 DEF Group, From
  <2>2. ~(i < c)
    BY <1>1, <1>2, <1>3, <1>4, <2>1
  <2>3. ~(c < i)
    <3>1. SUFFICES ASSUME c < i PROVE FALSE
      OBVIOUS
    <3>2. IsResult(h[i])
      BY <1>2, <1>3, <1>6, <2>1, <3>1
    <3>3. c \notin open
      BY <1>3, <1>4, <1>5, <1>6, <3>2
    <3>4. c \notin Sys(h) /\ c \notin Protected(h)
      BY <1>2, <1>3 DEF Sys, Protected, IsCaller, IsAnswer
    <3>5. Cardinality(From(K, c)) > m
      BY <1>2, <1>6, <3>1, FromShrinks
    <3> QED BY <1>1, <3>3, <3>4, <3>5 DEF Droppable, open
  <2> QED BY <1>2, <1>6, <2>2, <2>3
<1>8. ASSUME t \in G PROVE c \in G
  BY <1>2, <1>6, <1>7, <1>8 DEF Group, From
<1>9. ASSUME c \in G PROVE t \in G
  <2>1. c = i
    BY <1>2, <1>3, <1>4, <1>6, <1>9 DEF Group, From
  <2> QED BY <1>1, <1>2, <1>3, <2>1 DEF Group, From
<1> QED BY <1>8, <1>9

\* Where no group begins, no tool call and no result can be dropped.
NoneDroppable(h, K, m) ==
  \A i \in Droppable(h, K, m) : ~IsCaller(h[i]) /\ ~IsResult(h[i])

LEMMA NoGroups ==
  ASSUME NEW h \in Seq(Message), NEW K \in SUBSET DOMAIN h, NEW m \in Nat,
         GroupStarts(h, K, m) = {}
  PROVE  NoneDroppable(h, K, m)
<1> DEFINE open == Droppable(h, K, m) \ Protected(h)
           callers == {j \in open : IsCaller(h[j])}
           starts == IF callers # {} THEN callers ELSE {j \in open : IsResult(h[j])}
<1>1. starts \in SUBSET Nat
  BY DEF Droppable
<1>2. starts = {}
  <2>1. SUFFICES ASSUME starts # {} PROVE FALSE
    OBVIOUS
  <2>2. \E j \in starts : \A k \in starts : j <= k
    BY <1>1, <2>1, LeastPosition
  <2> QED BY <2>2 DEF GroupStarts
<1>3. \A i \in Protected(h) : ~IsCaller(h[i]) /\ ~IsResult(h[i])
  BY DEF Protected, IsAnswer, IsCaller, IsResult
<1> QED BY <1>2, <1>3 DEF NoneDroppable

\* f is a loop on S that goes from K to next[K] as long as K is in C. There is one.
IsLoop(f, S, C, next) ==
  f = [K \in S |-> f[K]] /\ \A K \in S : f[K] = IF K \in C THEN f[next[K]] ELSE K

LEMMA LoopExists ==
  ASSUME NEW S, NEW C \in SUBSET S, NEW next \in [S -> S]
  PROVE  \E f : IsLoop(f, S, C, next)
<1> DEFINE Closed(Z)  == \A K \in Z : K \in C => next[K] \in Z
           Ends(K) == {L \in S \ C : \A Z \in SUBSET S : K \in Z /\ Closed(Z) => L \in Z}
           g == [K \in S |-> CHOOSE L : L \in Ends(K)]
<1>1. ASSUME NEW K \in C PROVE Ends(K) = Ends(next[K])
  <2>1. ASSUME NEW L \in Ends(K) PROVE L \in Ends(next[K])
    <3>1. SUFFICES ASSUME NEW Z \in SUBSET S, next[K] \in Z, Closed(Z) PROVE L \in Z
      OBVIOUS
    <3>2. Z \cup {K} \in SUBSET S /\ Closed(Z \cup {K})
      BY <3>1
    <3>3. L \in Z \cup {K} /\ L # K
      BY <3>2
    <3> QED BY <3>3
  <2>2. ASSUME NEW L \in Ends(next[K]) PROVE L \in Ends(K)
    <3>1. SUFFICES ASSUME NEW Z \in SUBSET S, K \in Z, Closed(Z) PROVE L \in Z
      OBVIOUS
    <3>2. next[K] \in Z
      BY <3>1
    <3> QED BY <3>1, <3>2
  <2> QED BY <2>1, <2>2
<1>2. ASSUME NEW K \in S \ C PROVE Ends(K) = {K}
  <2>1. {K} \in SUBSET S /\ Closed({K})
    BY <1>2
  <2>2. \A L \in Ends(K) : L = K
    BY <2>1
  <2>3. K \in Ends(K)
    BY <1>2
  <2> QED BY <2>2, <2>3
<1> HIDE DEF Ends
<1>3. ASSUME NEW K \in S PROVE g[K] = IF K \in C THEN g[next[K]] ELSE K
  <2>1. CASE K \in C
    <3>1. g[K] = (CHOOSE L : L \in Ends(K)) /\ g[next[K]] = (CHOOSE L : L \in Ends(next[K]))
      OBVIOUS
    <3> QED BY <1>1, <2>1, <3>1
  <2>2. CASE K \notin C
    <3>1. g[K] = CHOOSE L : L \in {K}
      BY <1>2, <2>2
    <3> QED BY <2>2, <3>1
  <2> QED BY <2>1, <2>2
<1>4. g = [K \in S |-> g[K]]
  OBVIOUS
<1> HIDE DEF g
<1> QED BY <1>3, <1>4 DEF IsLoop


\* A loop that takes positions away ends, and where it ends holds what every iteration
\* keeps.
Shrinks(C, next) == \A K \in C : next[K] \subseteq K /\ next[K] # K
Keeps(I, C, next) == \A K \in I \cap C : next[K] \in I

LEMMA LoopEnds ==
  ASSUME NEW D, IsFiniteSet(D), NEW C \in SUBSET SUBSET D,
         NEW next \in [SUBSET D -> SUBSET D], NEW f, IsLoop(f, SUBSET D, C, next),
         Shrinks(C, next), NEW I \in SUBSET SUBSET D, Keeps(I, C, next), NEW A \in I
  PROVE  f[A] \in I \ C
<1> USE DEF Shrinks, Keeps
<1> DEFINE Bad == {K \in I : f[K] \notin I \ C}
           sizes == {Cardinality(K) : K \in Bad}
<1>1. \A K \in SUBSET D : IsFiniteSet(K) /\ Cardinality(K) \in Nat
  BY FS_Subset, FS_CardinalityType
<1>2. \A K \in SUBSET D : f[K] = IF K \in C THEN f[next[K]] ELSE K
  BY DEF IsLoop
<1>3. SUFFICES ASSUME A \in Bad PROVE FALSE
  OBVIOUS
<1>4. sizes \in SUBSET Nat /\ sizes # {}
  BY <1>1, <1>3
<1>5. PICK n \in sizes : \A k \in sizes : n <= k
  BY <1>4, LeastPosition
<1>6. PICK K \in Bad : Cardinality(K) = n
  BY <1>5
<1>7. K \in C
  BY <1>2, <1>6
<1>8. next[K] \in I /\ f[next[K]] = f[K]
  BY <1>2, <1>6, <1>7
<1>9. Cardinality(next[K]) < Cardinality(K)
  <2>1. next[K] \in SUBSET K /\ next[K] # K /\ IsFiniteSet(K)
    BY <1>1, <1>7
  <2>2. Cardinality(next[K]) <= Cardinality(K) /\ Cardinality(next[K]) # Cardinality(K)
    BY <2>1, FS_Subset
  <2> QED BY <1>1, <1>7, <2>2
<1>10. next[K] \in Bad
  BY <1>6, <1>8
<1> QED BY <1>1, <1>4, <1>5, <1>6, <1>8, <1>9, <1>10
\* The conditions of the two loops, and what the first one leaves after one iteration.
GroupToDrop(h, K, m, t) == Over(h, K, m, t) /\ GroupStarts(h, K, m) # {}
OneToDrop(h, K, m, t) == Over(h, K, m, t) /\ Oldest(h, K) # {}
WithoutFirst(h, K, m) == K \ Group(h, K, Min(GroupStarts(h, K, m)))

LEMMA GroupsLoop ==
  ASSUME NEW h, NEW m, NEW t
  PROVE  IsLoop(WithoutGroups(h, m, t), SUBSET DOMAIN h,
                {K \in SUBSET DOMAIN h : GroupToDrop(h, K, m, t)},
                [K \in SUBSET DOMAIN h |-> WithoutFirst(h, K, m)])
<1> DEFINE S    == SUBSET DOMAIN h
           C    == {L \in S : GroupToDrop(h, L, m, t)}
           next == [L \in S |-> WithoutFirst(h, L, m)]
           Loops(f) == f = [L \in S |-> IF GroupToDrop(h, L, m, t)
                                        THEN f[WithoutFirst(h, L, m)] ELSE L]
<1>1. C \in SUBSET S /\ next \in [S -> S]
  BY DEF WithoutFirst
<1>2. \E f : Loops(f)
  <2> HIDE DEF C, next, S
  <2>1. PICK f : IsLoop(f, S, C, next)
    BY <1>1, LoopExists
  <2> USE DEF C, next, S
  <2>2. Loops(f)
    BY <2>1 DEF IsLoop
  <2> QED BY <2>2
<1>3. WithoutGroups(h, m, t) = CHOOSE f : Loops(f)
  BY DEF WithoutGroups, GroupToDrop, WithoutFirst
<1>4. Loops(WithoutGroups(h, m, t))
  <2> HIDE DEF Loops
  <2> QED BY <1>2, <1>3
<1>5. IsLoop(WithoutGroups(h, m, t), S, C, next)
  BY <1>4 DEF IsLoop
<1> QED BY <1>5

LEMMA OldestLoop ==
  ASSUME NEW h, NEW m, NEW t
  PROVE  IsLoop(WithoutOldest(h, m, t), SUBSET DOMAIN h,
                {K \in SUBSET DOMAIN h : OneToDrop(h, K, m, t)},
                [K \in SUBSET DOMAIN h |-> K \ Oldest(h, K)])
<1> DEFINE S    == SUBSET DOMAIN h
           C    == {L \in S : OneToDrop(h, L, m, t)}
           next == [L \in S |-> L \ Oldest(h, L)]
           Loops(f) == f = [L \in S |-> IF OneToDrop(h, L, m, t)
                                        THEN f[L \ Oldest(h, L)] ELSE L]
<1>1. C \in SUBSET S /\ next \in [S -> S]
  OBVIOUS
<1>2. \E f : Loops(f)
  <2> HIDE DEF C, next, S
  <2>1. PICK f : IsLoop(f, S, C, next)
    BY <1>1, LoopExists
  <2> USE DEF C, next, S
  <2>2. Loops(f)
    BY <2>1 DEF IsLoop
  <2> QED BY <2>2
<1>3. WithoutOldest(h, m, t) = CHOOSE f : Loops(f)
  BY DEF WithoutOldest, OneToDrop
<1>4. Loops(WithoutOldest(h, m, t))
  <2> HIDE DEF Loops
  <2> QED BY <1>2, <1>3
<1>5. IsLoop(WithoutOldest(h, m, t), S, C, next)
  BY <1>4 DEF IsLoop
<1> QED BY <1>5

\* The loop over groups leaves every exchange whole, and ends within the budget or where
\* no call and no result can be dropped.
LEMMA GroupsLeave ==
  ASSUME NEW h \in Seq(Message), NEW B, NEW m \in Nat, NEW t
  PROVE  LET K == WithoutGroups(h, m, t)[DOMAIN h] IN
           /\ K \in SUBSET DOMAIN h /\ Whole(h, K, B)
           /\ Over(h, K, m, t) => NoneDroppable(h, K, m)
<1> DEFINE D    == DOMAIN h
           C    == {K \in SUBSET D : GroupToDrop(h, K, m, t)}
           next == [K \in SUBSET D |-> WithoutFirst(h, K, m)]
           I    == {K \in SUBSET D : Whole(h, K, B)}
           f    == WithoutGroups(h, m, t)
<1>1. IsFiniteSet(D)
  <2>1. D = 1..Len(h) /\ Len(h) \in Nat
    OBVIOUS
  <2> QED BY <2>1, FS_Interval
<1>2. IsLoop(f, SUBSET D, C, next)
  BY GroupsLoop
<1>3. ASSUME NEW K \in C
      PROVE  /\ next[K] \subseteq K /\ next[K] # K
             /\ Whole(h, K, B) => Whole(h, next[K], B)
  <2> DEFINE G == GroupStarts(h, K, m)
  <2>1. G # {} /\ G \in SUBSET Nat /\ G \subseteq K
    BY <1>3 DEF GroupToDrop, GroupStarts, Droppable
  <2> HIDE DEF G
  <2>2. Min(G) \in G
    BY <2>1, LeastIsMin
  <2>3. Min(G) \in Group(h, K, Min(G))
    <3>1. K \in SUBSET Nat
      BY <1>3
    <3>2. ASSUME NEW i \in K PROVE i \in Group(h, K, i)
      BY <3>1 DEF Group, From
    <3> QED BY <2>1, <2>2, <3>2
  <2>4. next[K] = K \ Group(h, K, Min(G))
    BY <1>3 DEF WithoutFirst, G
  <2>5. Whole(h, K, B) => Whole(h, K \ Group(h, K, Min(G)), B)
    BY <1>3, <2>2, GroupsAreWhole DEF G
  <2> QED BY <2>1, <2>2, <2>3, <2>4, <2>5
<1>4. D \in I
  BY DEF Whole
<1>5. C \in SUBSET SUBSET D /\ I \in SUBSET SUBSET D /\ next \in [SUBSET D -> SUBSET D]
  BY DEF WithoutFirst
<1>6. Shrinks(C, next)
  BY <1>3 DEF Shrinks
<1>7. Keeps(I, C, next)
  BY <1>3, <1>5 DEF Keeps
<1>8. f[D] \in I \ C
  <2> HIDE DEF D, C, next, I, f
  <2> QED BY <1>1, <1>2, <1>4, <1>5, <1>6, <1>7, LoopEnds
<1>9. Over(h, f[D], m, t) => NoneDroppable(h, f[D], m)
  BY <1>8, NoGroups DEF GroupToDrop
<1> QED BY <1>8, <1>9

\* So does the whole function.
LEMMA EnforcedIsWhole ==
  ASSUME NEW h \in Seq(Message), NEW B, NEW m \in Nat, NEW t, NEW force
  PROVE  Enforced(h, m, t, force) \in SUBSET DOMAIN h /\ Whole(h, Enforced(h, m, t, force), B)
<1> DEFINE D    == DOMAIN h
           C    == {K \in SUBSET D : OneToDrop(h, K, m, t)}
           next == [K \in SUBSET D |-> K \ Oldest(h, K)]
           I    == {K \in SUBSET D : /\ Whole(h, K, B)
                                     /\ Over(h, K, m, t) => NoneDroppable(h, K, m)}
           f    == WithoutOldest(h, m, t)
           A    == WithoutGroups(h, m, t)[DOMAIN h]
<1>1. D = 1..Len(h) /\ Len(h) \in Nat /\ IsFiniteSet(D)
  <2>1. D = 1..Len(h) /\ Len(h) \in Nat
    OBVIOUS
  <2> QED BY <2>1, FS_Interval
<1>2. IsLoop(f, SUBSET D, C, next)
  BY OldestLoop
<1>3. A \in I
  BY GroupsLeave
<1>4. ASSUME NEW K \in C PROVE next[K] \subseteq K /\ next[K] # K /\ next[K] \in SUBSET D
  BY <1>4 DEF OneToDrop, Oldest
<1>5. ASSUME NEW K \in I \cap C PROVE next[K] \in I
  <2>1. /\ K \in SUBSET D /\ Whole(h, K, B) /\ NoneDroppable(h, K, m)
        /\ Cardinality(K \ Sys(h)) > m /\ next[K] = K \ Oldest(h, K)
    BY <1>5 DEF OneToDrop, Over
  <2>2. \A d \in Oldest(h, K) : ~IsCaller(h[d]) /\ ~IsResult(h[d])
    BY <2>1, OldestIsDroppable DEF NoneDroppable
  <2>3. Whole(h, K \ Oldest(h, K), B)
    BY <2>1, <2>2 DEF Whole, Follows
  <2>4. NoneDroppable(h, K \ Oldest(h, K), m)
    <3> DEFINE L == K \ Oldest(h, K)
    <3>1. SUFFICES ASSUME NEW i \in Droppable(h, L, m) PROVE i \in Droppable(h, K, m)
      BY <2>1 DEF NoneDroppable
    <3>2. i \in L /\ i \in K \ Sys(h) /\ Cardinality(From(L, i)) > m
      BY DEF Droppable
    <3>3. L \in SUBSET K /\ K \in SUBSET (1..Len(h)) /\ i \in 1..Len(h)
      BY <1>1, <2>1, <3>2
    <3> HIDE DEF L
    <3>4. Cardinality(From(K, i)) > m
      BY <1>1, <3>2, <3>3, FromShrinks
    <3> QED BY <3>2, <3>4 DEF Droppable
  <2> QED BY <1>4, <1>5, <2>1, <2>3, <2>4
<1>6. C \in SUBSET SUBSET D /\ I \in SUBSET SUBSET D /\ next \in [SUBSET D -> SUBSET D]
  OBVIOUS
<1>7. Shrinks(C, next) /\ Keeps(I, C, next)
  BY <1>4, <1>5 DEF Shrinks, Keeps
<1>8. f[A] \in I \ C
  <2>1. IsFiniteSet(D)
    BY <1>1
  <2> HIDE DEF D, C, next, I, f, A
  <2> QED BY <2>1, <1>2, <1>3, <1>6, <1>7, LoopEnds
<1>9. D \in SUBSET D /\ Whole(h, D, B)
  BY DEF Whole
<1>10. Enforced(h, m, t, force) \in {D, f[A]}
  BY DEF Enforced
<1> QED BY <1>8, <1>9, <1>10
-----------------------------------------------------------------------------
(* Batches of calls *)

LEMMA DedupedIs ==
  ASSUME NEW b \in Seq(Calls)
  PROVE  Deduped(b) \in Seq(Calls)
<1> DEFINE R == Richest(b)
           before == [i \in R |-> Before(b, i)]
           nth(n) == CHOOSE i \in R : Cardinality(Before(b, i)) = n - 1
<1>1. DOMAIN b = 1..Len(b) /\ Len(b) \in Nat
  OBVIOUS
<1>2. R \in SUBSET DOMAIN b /\ IsFiniteSet(R)
  <2>1. IsFiniteSet(1..Len(b))
    BY <1>1, FS_Interval
  <2>2. R \in SUBSET (1..Len(b))
    BY <1>1 DEF Richest
  <2> QED BY <1>1, <2>1, <2>2, FS_Subset
<1>3. ASSUME NEW i \in R PROVE FirstOf(b, i) \in Nat /\ i \in Nat
  <2> DEFINE Same == {j \in DOMAIN b : Name[b[j]] = Name[b[i]]}
  <2>1. Same \in SUBSET Nat /\ i \in Same
    BY <1>1, <1>2
  <2>2. FirstOf(b, i) = Min(Same)
    BY DEF FirstOf
  <2> HIDE DEF Same
  <2>3. Min(Same) \in Same
    BY <2>1, LeastIsMin
  <2> QED BY <1>1, <1>2, <2>1, <2>2, <2>3
<1>4. /\ before \in [R -> SUBSET R]
      /\ \A i \in R : before[i] = Before(b, i)
      /\ \A i, j \in R :
           j \in Before(b, i) <=>
             \/ FirstOf(b, j) < FirstOf(b, i)
             \/ FirstOf(b, j) = FirstOf(b, i) /\ j < i
  BY DEF Before
<1> HIDE DEF R, before
<1>5. /\ \A i \in R : i \notin before[i]
      /\ \A i, j \in R : i # j => i \in before[j] \/ j \in before[i]
      /\ \A i, j \in R : i \in before[j] => before[i] \subseteq before[j]
  <2>1. \A i \in R : i \notin before[i]
    BY <1>3, <1>4
  <2>2. ASSUME NEW i \in R, NEW j \in R, i # j PROVE i \in before[j] \/ j \in before[i]
    <3>1. \/ FirstOf(b, i) < FirstOf(b, j)
          \/ FirstOf(b, i) = FirstOf(b, j) /\ i < j
          \/ FirstOf(b, j) < FirstOf(b, i)
          \/ FirstOf(b, j) = FirstOf(b, i) /\ j < i
      BY <1>3, <2>2
    <3>2. i \in Before(b, j) \/ j \in Before(b, i)
      BY <1>4, <3>1
    <3> QED BY <1>4, <3>2
  <2>3. ASSUME NEW i \in R, NEW j \in R, i \in before[j], NEW k \in before[i]
        PROVE  k \in before[j]
    <3>1. k \in R
      BY <1>4, <2>3
    <3> QED BY <1>3, <1>4, <2>3, <3>1
  <2> QED BY <2>1, <2>2, <2>3
<1>6. /\ Cardinality(R) \in Nat
      /\ \A n \in 1..Cardinality(R) : \E i \in R : Cardinality(before[i]) = n - 1
  BY <1>2, <1>4, <1>5, Ranks
<1>7. \A n \in 1..Cardinality(R) : nth(n) \in R
  BY <1>4, <1>6
<1>8. Deduped(b) = [n \in 1..Cardinality(R) |-> b[nth(n)]]
  BY DEF Deduped, R
<1> HIDE DEF nth
<1>9. \A n \in 1..Cardinality(R) : b[nth(n)] \in Calls
  BY <1>1, <1>2, <1>7
<1> QED BY <1>6, <1>8, <1>9

LEMMA SizeOfDomain ==
  ASSUME NEW b \in Seq(Calls), NEW K \in SUBSET DOMAIN b
  PROVE  /\ IsFiniteSet(DOMAIN b) /\ Cardinality(DOMAIN b) = Len(b)
         /\ IsFiniteSet(K) /\ Cardinality(K) \in Nat /\ Cardinality(K) <= Len(b)
<1>1. DOMAIN b = 1..Len(b) /\ Len(b) \in Nat
  OBVIOUS
<1>2. IsFiniteSet(1..Len(b)) /\ Cardinality(1..Len(b)) = Len(b)
  <2>1. /\ IsFiniteSet(1..Len(b))
        /\ Cardinality(1..Len(b)) = IF 1 > Len(b) THEN 0 ELSE Len(b) - 1 + 1
    BY <1>1, FS_Interval
  <2> QED BY <1>1, <2>1
<1>3. IsFiniteSet(K) /\ Cardinality(K) <= Cardinality(1..Len(b))
  BY <1>1, <1>2, FS_Subset
<1> QED BY <1>1, <1>2, <1>3, FS_CardinalityType

LEMMA CappedIs ==
  ASSUME NEW b \in Seq(Calls)
  PROVE  Capped(b) \in Seq(Calls) /\ Len(Capped(b)) <= Len(b)
<1> DEFINE K == {i \in DOMAIN b : i \in ReadsAt(b) =>
                                    Cardinality({j \in ReadsAt(b) : j <= i}) <= ReadsPerTurn}
<1>1. K \in SUBSET DOMAIN b
  OBVIOUS
<1>2. Capped(b) = Sub(b, K)
  BY DEF Capped
<1> HIDE DEF K
<1>3. Sub(b, K) \in Seq(Calls) /\ Len(Sub(b, K)) = Cardinality(K)
  BY <1>1, SubIs
<1>4. Cardinality(K) <= Len(b)
  BY <1>1, SizeOfDomain
<1> QED BY <1>2, <1>3, <1>4

LEMMA OrderIs ==
  ASSUME NEW b \in Seq(Calls)
  PROVE  Order(b) \in Seq(Calls) /\ Len(Order(b)) = Len(b)
<1> DEFINE K == ReadsAt(b)
           L == DOMAIN b \ K
<1>1. K \in SUBSET DOMAIN b /\ L \in SUBSET DOMAIN b /\ K \cup L = DOMAIN b /\ K \cap L = {}
  BY DEF ReadsAt
<1>2. Order(b) = IF Parallel THEN Sub(b, K) \o Sub(b, L) ELSE b
  BY DEF Order
<1> HIDE DEF K, L
<1>3. /\ Sub(b, K) \in Seq(Calls) /\ Len(Sub(b, K)) = Cardinality(K)
      /\ Sub(b, L) \in Seq(Calls) /\ Len(Sub(b, L)) = Cardinality(L)
  BY <1>1, SubIs
<1>4. /\ IsFiniteSet(K) /\ Cardinality(K) \in Nat /\ IsFiniteSet(L) /\ Cardinality(L) \in Nat
      /\ Cardinality(DOMAIN b) = Len(b)
  BY <1>1, SizeOfDomain
<1>5. Cardinality(K \cup L) = Cardinality(K) + Cardinality(L) - Cardinality(K \cap L)
  BY <1>4, FS_Union
<1>6. Cardinality(K \cap L) = 0
  BY <1>1, FS_EmptySet, Zenon
<1>7. Cardinality(K) + Cardinality(L) = Len(b)
  <2>1. Cardinality(K \cup L) = Len(b)
    BY <1>1, <1>4, Zenon
  <2> QED BY <1>4, <1>5, <1>6, <2>1
<1> QED BY <1>2, <1>3, <1>4, <1>7
-----------------------------------------------------------------------------
(* The types of the state *)

AskType ==
  [pc : {"idle", "prepare", "turn", "archive", "request", "tools"},
   turns : Nat, empty : Nat, narrated : Nat, reprompted : BOOLEAN, repaired : BOOLEAN,
   nudged : BOOLEAN, malformed : Nat, aborted : BOOLEAN, todo : Seq(Calls), results : Nat,
   invalid : BOOLEAN, repeated : SUBSET Calls, next : Seq(Message)]

SeenType ==
  [count : [Calls -> Nat], at : [Calls -> Int], last : SUBSET Calls, row : [Calls -> Nat],
   cached : [Calls -> Int], blocked : [Calls -> Nat], hinted : SUBSET Calls,
   version : Nat, reads : Nat]

CompType == [pc : {"free", "archive"}, next : Seq(Message)]

LoopTypes ==
  /\ messages \in Seq(Message)
  /\ ask \in AskType /\ seen \in SeenType /\ comp \in CompType
  /\ batches \in Nat /\ broken \in SUBSET Nat /\ asks \in Nat /\ outside \in Nat

LEMMA MessageTypes ==
  /\ \A role \in Roles : Note(role) \in Message
  /\ Text \in Message
  /\ \A b, n \in Nat : CallMsg(b, n) \in Message /\ ResultMsgs(b, n) \in Seq(Message)
BY HistoryAssumption DEF Note, Text, CallMsg, ResultMsgs, Msg, Message, Roles

LEMMA IdleTypes == Idle \in AskType /\ Idle.pc = "idle" /\ Idle.next = <<>>
BY DEF Idle, AskType

LEMMA UnseenTypes == Unseen \in SeenType
BY DEF Unseen, SeenType

LEMMA FreeTypes == Free \in CompType /\ Free.pc = "free" /\ Free.next = <<>>
BY DEF Free, CompType

LEMMA NumberTypes ==
  /\ {MaxIters, NoProgressCap, RepromptAt, RetryOnMalformed, InjectAt, ReadLoopAt,
      ExecLoopAt, EditLoopAt, ReadsPerTurn, ReadWarn, ReadBudget, MinTail, MaxAsks,
      MaxOutside} \subseteq Nat
  /\ Kind \in [Calls -> {"read", "exec", "edit"}]
  /\ Batches \subseteq Seq(Calls) /\ Parallel \in BOOLEAN /\ Vault \in BOOLEAN
BY AgentAssumption

\* What the budget leaves, and what compactHistory installs.
LEMMA ShortenedIs ==
  ASSUME NEW h \in Seq(Message), NEW m \in Nat, NEW t, NEW force
  PROVE  Sub(h, Enforced(h, m, t, force)) \in Seq(Message)
BY EnforcedIsWhole, SubIs

LEMMA CompactedIs ==
  ASSUME messages \in Seq(Message), NEW mode
  PROVE  Compacted(mode) \in Seq(Message)
<1>1. CASE mode = "hard"
  <2> DEFINE from == Max({1, Len(messages) - 1})
  <2>1. Len(messages) \in Nat
    OBVIOUS
  <2>2. from \in Nat /\ from >= 1
    <3>1. from = CHOOSE x \in {1, Len(messages) - 1} : \A y \in {1, Len(messages) - 1} : x >= y
      BY DEF Max
    <3>2. \E x \in {1, Len(messages) - 1} : \A y \in {1, Len(messages) - 1} : x >= y
      BY <2>1
    <3>3. from \in {1, Len(messages) - 1} /\ \A y \in {1, Len(messages) - 1} : from >= y
      BY <3>1, <3>2
    <3> HIDE DEF from
    <3> QED BY <2>1, <3>3
  <2> HIDE DEF from
  <2>3. SubSeq(messages, from, Len(messages)) \in Seq(Message)
    BY <2>1, <2>2, SubSeqProperties
  <2>4. Sys(messages) \in SUBSET DOMAIN messages
    BY DEF Sys
  <2>5. Sub(messages, Sys(messages)) \in Seq(Message)
    BY <2>4, SubIs
  <2>6. Compacted(mode) = Sub(messages, Sys(messages)) \o SubSeq(messages, from, Len(messages))
    BY <1>1 DEF Compacted, from
  <2> QED BY <2>3, <2>5, <2>6
<1>2. CASE mode # "hard"
  <2>1. PICK m \in Nat : \E f : Compacted(mode) = Sub(messages, Enforced(messages, m, Limit(f), f))
    <3>1. MinTail \in Nat /\ 2 \in Nat
      BY NumberTypes
    <3> QED BY <1>2, <3>1 DEF Compacted
  <2> QED BY <2>1, ShortenedIs
<1> QED BY <1>1, <1>2
LEMMA CountedIs ==
  ASSUME seen \in SeenType, NEW b \in Seq(Calls)
  PROVE  Counted(b) \in SeenType /\ Elems(b) \in SUBSET Calls
<1>1. Elems(b) \in SUBSET Calls
  BY DEF Elems
<1> DEFINE count == [c \in Calls |-> IF c \in Elems(b) THEN seen.count[c] + 1 ELSE seen.count[c]]
           at    == [c \in Calls |-> IF c \in Elems(b) THEN seen.version ELSE seen.at[c]]
           row   == [c \in Calls |-> IF c \notin Elems(b) THEN seen.row[c]
                                     ELSE IF c \in seen.last THEN seen.row[c] + 1 ELSE 1]
<1>2. Counted(b) = [seen EXCEPT !.count = count, !.at = at, !.row = row, !.last = Elems(b)]
  BY DEF Counted
<1>3. count \in [Calls -> Nat] /\ at \in [Calls -> Int] /\ row \in [Calls -> Nat]
  <2>1. /\ seen.count \in [Calls -> Nat] /\ seen.at \in [Calls -> Int]
        /\ seen.row \in [Calls -> Nat] /\ seen.version \in Nat
    BY DEF SeenType
  <2> QED BY <2>1
<1> HIDE DEF count, at, row
<1>4. [seen EXCEPT !.count = count, !.at = at, !.row = row, !.last = Elems(b)] \in SeenType
  BY <1>1, <1>3 DEF SeenType
<1> QED BY <1>1, <1>2, <1>4

LEMMA ToolCallsTypes ==
  ASSUME LoopTypes, NEW sent \in Batches, ToolCalls(sent)
  PROVE  /\ LoopTypes'
         /\ batches' = batches + 1 /\ broken' \in {broken, broken \cup {batches'}}
         /\ comp' = comp /\ ask'.next \in {ask.next, <<>>} /\ ask.pc = "request"
         /\ ask' = Idle => broken' = broken \cup {batches'}
         /\ \E n \in Nat :
              LET said == Append(messages, CallMsg(batches', n)) IN
              /\ messages' \in {said, Append(said, Note("user"))}
              /\ messages' # said => broken' = broken \cup {batches'}
              /\ ask' # Idle => ask'.pc = "tools" /\ ask'.results + Len(ask'.todo) = n
<1> DEFINE b     == Deduped(sent)
           s     == Counted(b)
           kept  == Capped(b)
           said  == Append(messages, CallMsg(batches', Len(b)))
           loops == Looping(b, s) # {}
<1>1. /\ messages \in Seq(Message) /\ ask \in AskType /\ seen \in SeenType /\ comp \in CompType
      /\ batches \in Nat /\ broken \in SUBSET Nat /\ asks \in Nat /\ outside \in Nat
  BY DEF LoopTypes
<1>2. /\ b \in Seq(Calls) /\ kept \in Seq(Calls) /\ Len(kept) <= Len(b)
      /\ Order(kept) \in Seq(Calls) /\ Len(Order(kept)) = Len(kept)
  BY NumberTypes, DedupedIs, CappedIs, OrderIs
<1>3. s \in SeenType /\ Elems(b) \in SUBSET Calls
  BY <1>1, <1>2, CountedIs
<1>4. Repeated(b, s) \in SUBSET Calls
  BY <1>3 DEF Repeated
<1>5. Cardinality(ReadsAt(kept)) \in Nat
  BY <1>2, SizeOfDomain DEF ReadsAt
<1>6. /\ batches' = batches + 1 /\ UNCHANGED <<comp, asks, outside>>
      /\ messages' \in (IF Injecting(b, s) # {} THEN WithVault(said) ELSE {said})
      /\ broken' = IF loops \/ messages' # said THEN broken \cup {batches'} ELSE broken
      /\ seen' = [s EXCEPT !.reads = @ + Cardinality(ReadsAt(kept))]
      /\ IF loops THEN ask' = Idle
         ELSE ask' = [ask EXCEPT !.pc = "tools", !.empty = 0, !.narrated = 0,
                        !.todo = Order(kept), !.results = Len(b) - Len(kept),
                        !.invalid = FALSE, !.repeated = Repeated(b, s)]
  BY DEF ToolCalls, Fail
<1> HIDE DEF b, s, kept, said, loops
<1>7. messages' \in {said, Append(said, Note("user"))}
  BY <1>6 DEF WithVault
<1>8. Len(b) \in Nat /\ Len(kept) \in Nat /\ Len(b) - Len(kept) \in Nat
  BY <1>2
<1>9. said \in Seq(Message) /\ Note("user") \in Message /\ messages' \in Seq(Message)
  <2>1. CallMsg(batches', Len(b)) \in Message /\ Note("user") \in Message
    <3>1. batches' \in Nat /\ Len(b) \in Nat /\ "user" \in Roles
      BY <1>1, <1>6, <1>8 DEF Roles
    <3> QED BY <3>1, MessageTypes
  <2>2. said \in Seq(Message)
    BY <1>1, <2>1 DEF said
  <2>3. Append(said, Note("user")) \in Seq(Message)
    BY <2>1, <2>2
  <2> QED BY <1>7, <2>1, <2>2, <2>3
<1>10. seen' \in SeenType
  BY <1>3, <1>5, <1>6 DEF SeenType
<1>11. /\ ask' \in AskType /\ ask'.next \in {ask.next, <<>>}
       /\ ~loops => ask'.pc = "tools" /\ ask'.results = Len(b) - Len(kept) /\ ask'.todo = Order(kept)
  <2>1. CASE loops
    BY <1>6, <2>1, IdleTypes
  <2>2. CASE ~loops
    <3>1. ask' = [ask EXCEPT !.pc = "tools", !.empty = 0, !.narrated = 0,
                    !.todo = Order(kept), !.results = Len(b) - Len(kept),
                    !.invalid = FALSE, !.repeated = Repeated(b, s)]
      BY <1>6, <2>2
    <3> QED BY <1>1, <1>2, <1>4, <1>8, <3>1 DEF AskType
  <2> QED BY <2>1, <2>2
<1>12. broken' \in {broken, broken \cup {batches'}} /\ batches' \in Nat /\ broken' \in SUBSET Nat
  BY <1>1, <1>6
<1>13. LoopTypes'
  BY <1>1, <1>6, <1>9, <1>10, <1>11, <1>12 DEF LoopTypes
<1>14. ask' = Idle => loops
  <2>1. Idle.pc = "idle"
    BY IdleTypes
  <2> QED BY <1>11, <2>1
<1>15. ask' # Idle => ask'.pc = "tools" /\ ask'.results + Len(ask'.todo) = Len(b)
  BY <1>2, <1>6, <1>8, <1>11
<1>16. messages' # said => broken' = broken \cup {batches'}
  BY <1>6
<1>17. ask' = Idle => broken' = broken \cup {batches'}
  BY <1>6, <1>14
<1>18. ask.pc = "request"
  BY DEF ToolCalls, Responds, In
<1> QED BY <1>6, <1>7, <1>8, <1>11, <1>12, <1>13, <1>15, <1>16, <1>17, <1>18 DEF said
LEMMA WithVaultTypes ==
  ASSUME NEW h \in Seq(Message), NEW next \in WithVault(h)
  PROVE  next \in Seq(Message) /\ (next = h \/ next = h \o <<Note("user")>>)
<1>1. Note("user") \in Message
  BY MessageTypes DEF Roles
<1>2. next \in {h, Append(h, Note("user"))}
  BY DEF WithVault
<1>3. Append(h, Note("user")) = h \o <<Note("user")>> /\ Append(h, Note("user")) \in Seq(Message)
  BY <1>1
<1> QED BY <1>2, <1>3

LEMMA RunCallTypes ==
  ASSUME LoopTypes, NEW c \in Calls, RunCall(c)
  PROVE  /\ LoopTypes'
         /\ In({"tools"}) /\ UNCHANGED <<messages, comp, batches>>
         /\ broken' \in {broken, broken \cup {batches}}
         /\ \/ ask'.pc = "idle" /\ ask'.next = <<>> /\ broken' = broken \cup {batches}
            \/ /\ ask'.pc = "tools" /\ ask'.next = ask.next
               /\ \/ broken' = broken \cup {batches}
                  \/ ask'.results + Len(ask'.todo) = ask.results + Len(ask.todo)
<1>1. /\ messages \in Seq(Message) /\ ask \in AskType /\ seen \in SeenType /\ comp \in CompType
      /\ batches \in Nat /\ broken \in SUBSET Nat /\ asks \in Nat /\ outside \in Nat
  BY DEF LoopTypes
<1>2. /\ ask.todo \in Seq(Calls) /\ ask.results \in Nat /\ ask.malformed \in Nat
      /\ ask.invalid \in BOOLEAN
  BY <1>1 DEF AskType
<1>3. /\ UNCHANGED <<messages, comp, batches, asks, outside>> /\ Running(c)
      /\ seen' \in SeenType
      /\ \/ Answered
         \/ \E invalid \in BOOLEAN, malformed \in Nat : AnsweredError(c, invalid, malformed)
         \/ Break
  <2>0. /\ seen.cached \in [Calls -> Int] /\ seen.blocked \in [Calls -> Nat]
        /\ seen.version \in Nat
    BY <1>1 DEF SeenType
  <2>1. CASE Declined(c) \/ Cached(c)
    BY <1>1, <2>1 DEF Declined, Cached
  <2>2. CASE Exec(c)
    <3>1. PICK ok \in BOOLEAN :
            seen' = [seen EXCEPT !.blocked = [d \in Calls |-> 0],
                                 !.cached[c] = IF ok THEN seen.version ELSE @]
      BY <2>2 DEF Exec
    <3> DEFINE none == [d \in Calls |-> 0]
               cached == [seen.cached EXCEPT ![c] = IF ok THEN seen.version ELSE @]
    <3>2. none \in [Calls -> Nat] /\ cached \in [Calls -> Int]
      BY <2>0
    <3>3. seen' = [seen EXCEPT !.blocked = none, !.cached = cached]
      BY <3>1
    <3> HIDE DEF none, cached
    <3>4. seen' \in SeenType
      BY <1>1, <3>2, <3>3 DEF SeenType
    <3> QED BY <2>2, <3>4 DEF Exec
  <2>3. CASE Edit(c)
    <3>0. \A v \in Nat : [seen EXCEPT !.version = v] \in SeenType
      BY <1>1 DEF SeenType
    <3>1. [seen EXCEPT !.version = @ + 1] \in SeenType
      BY <2>0, <3>0
    <3> QED BY <2>3, <3>1 DEF Edit
  <2>4. CASE Failed(c)
    BY <1>1, <1>2, <2>4 DEF Failed
  <2>5. CASE Malformed(c)
    <3>1. ask.malformed + 1 \in Nat /\ TRUE \in BOOLEAN
      BY <1>2
    <3>2. Break \/ AnsweredError(c, TRUE, ask.malformed + 1)
      BY <2>5 DEF Malformed
    <3> QED BY <1>1, <2>5, <3>1, <3>2 DEF Malformed
  <2>6. CASE Blocked(c)
    <3> DEFINE blocked == [seen.blocked EXCEPT ![c] = @ + 1]
    <3>4. blocked \in [Calls -> Nat]
      BY <2>0
    <3>5. [seen EXCEPT !.blocked[c] = @ + 1] = [seen EXCEPT !.blocked = blocked]
      OBVIOUS
    <3> HIDE DEF blocked
    <3>1. [seen EXCEPT !.blocked[c] = @ + 1] \in SeenType
      BY <1>1, <3>4, <3>5 DEF SeenType
    <3>2. FALSE \in BOOLEAN
      OBVIOUS
    <3>3. Break \/ AnsweredError(c, FALSE, ask.malformed)
      BY <2>6 DEF Blocked
    <3> QED BY <1>2, <2>6, <3>1, <3>2, <3>3 DEF Blocked
  <2> QED BY <2>1, <2>2, <2>3, <2>4, <2>5, <2>6 DEF RunCall
<1>4. In({"tools"}) /\ ask.pc = "tools" /\ ask.todo # <<>>
  BY <1>3 DEF Running, In
<1>5. /\ Tail(ask.todo) \in Seq(Calls) /\ Len(Tail(ask.todo)) = Len(ask.todo) - 1
      /\ Len(ask.todo) \in Nat /\ Len(ask.todo) > 0
  BY <1>2, <1>4
<1>6. CASE Answered
  <2>1. ask' = [ask EXCEPT !.todo = Tail(@), !.results = @ + 1] /\ broken' = broken
    BY <1>6 DEF Answered
  <2>2. /\ ask' \in AskType /\ ask'.todo = Tail(ask.todo) /\ ask'.results = ask.results + 1
        /\ ask'.pc = "tools" /\ ask'.next = ask.next
    <3> DEFINE left == Tail(ask.todo)
               n == ask.results + 1
    <3>1. left \in Seq(Calls) /\ n \in Nat /\ ask' = [ask EXCEPT !.todo = left, !.results = n]
      BY <1>2, <1>5, <2>1
    <3> HIDE DEF left, n
    <3>2. /\ ask' \in AskType /\ ask'.todo = left /\ ask'.results = n
          /\ ask'.pc = "tools" /\ ask'.next = ask.next
      BY <1>1, <1>4, <3>1 DEF AskType
    <3> QED BY <3>2 DEF left, n
  <2> QED BY <1>1, <1>2, <1>3, <1>4, <1>5, <2>1, <2>2 DEF LoopTypes
<1>7. ASSUME NEW invalid \in BOOLEAN, NEW malformed \in Nat, AnsweredError(c, invalid, malformed)
      PROVE  /\ ask' \in AskType /\ ask'.pc = "tools" /\ ask'.next = ask.next
             /\ broken' \in {broken, broken \cup {batches}}
             /\ \/ broken' = broken \cup {batches}
                \/ ask'.results + Len(ask'.todo) = ask.results + Len(ask.todo)
  <2> DEFINE left == IF Kind[c] = "edit" THEN <<>> ELSE Tail(ask.todo)
  <2>1. left \in Seq(Calls)
    BY <1>5
  <2>2. /\ ask' = [ask EXCEPT !.todo = left, !.results = @ + 1,
                     !.invalid = @ \/ invalid, !.malformed = malformed]
        /\ broken' = IF Kind[c] = "edit" /\ Len(ask.todo) > 1 THEN broken \cup {batches} ELSE broken
    BY <1>7 DEF AnsweredError
  <2>3. Len(ask.todo) > 1 \/ Len(left) = Len(ask.todo) - 1
    BY <1>5
  <2>4. Kind[c] # "edit" => Len(left) = Len(ask.todo) - 1
    BY <1>5
  <2> HIDE DEF left
  <2>5. (ask.invalid \/ invalid) \in BOOLEAN
    BY <1>2, <1>7
  <2>6. /\ ask' \in AskType /\ ask'.todo = left /\ ask'.results = ask.results + 1
        /\ ask'.pc = "tools" /\ ask'.next = ask.next
    <3> DEFINE n == ask.results + 1
               i == ask.invalid \/ invalid
    <3>1. /\ n \in Nat /\ i \in BOOLEAN
          /\ ask' = [ask EXCEPT !.todo = left, !.results = n, !.invalid = i, !.malformed = malformed]
      BY <1>2, <2>2, <2>5
    <3> HIDE DEF n, i
    <3>2. /\ ask' \in AskType /\ ask'.todo = left /\ ask'.results = n
          /\ ask'.pc = "tools" /\ ask'.next = ask.next
      BY <1>1, <1>4, <1>7, <2>1, <3>1 DEF AskType
    <3> QED BY <3>2 DEF n
  <2> QED BY <1>2, <1>5, <2>2, <2>3, <2>4, <2>6
<1>8. CASE \E invalid \in BOOLEAN, malformed \in Nat : AnsweredError(c, invalid, malformed)
  <2>1. /\ ask' \in AskType /\ ask'.pc = "tools" /\ ask'.next = ask.next
        /\ broken' \in {broken, broken \cup {batches}}
        /\ \/ broken' = broken \cup {batches}
           \/ ask'.results + Len(ask'.todo) = ask.results + Len(ask.todo)
    BY <1>7, <1>8
  <2>2. broken' \in SUBSET Nat
    BY <1>1, <2>1
  <2> QED BY <1>1, <1>3, <1>4, <2>1, <2>2 DEF LoopTypes
<1>9. CASE Break
  <2>1. ask' = Idle /\ broken' = broken \cup {batches}
    BY <1>9 DEF Break, Fail
  <2>2. ask' \in AskType /\ ask'.pc = "idle" /\ ask'.next = <<>> /\ broken' \in SUBSET Nat
    BY <1>1, <2>1, IdleTypes
  <2> QED BY <1>1, <1>3, <1>4, <2>1, <2>2 DEF LoopTypes
<1> QED BY <1>3, <1>6, <1>8, <1>9
\* The steps of an ask that add to the conversation, or nothing.
Says == Ask \/ Prepare \/ OutOfTurns \/ RequestFails \/ EmptyResponse \/ Narration \/ FinalAnswer
        \/ Cancel

\* A message that belongs to no exchange.
Plain(m) == m \in Message /\ m.batch = 0 /\ ~IsCaller(m) /\ ~IsResult(m)
Tails == {tail \in Seq(Message) : \A i \in DOMAIN tail : Plain(tail[i])}

LEMMA PlainMessages ==
  /\ \A role \in {"system", "user"} : Plain(Note(role))
  /\ Plain(Text)
BY MessageTypes DEF Plain, Note, Text, Msg, Roles, IsCaller, IsResult

LEMMA TailsAre ==
  /\ <<>> \in Tails /\ <<Text>> \in Tails /\ <<Text, Note("user")>> \in Tails
  /\ \A role \in {"system", "user"} : <<Note(role)>> \in Tails
  /\ <<Note("system"), Note("user")>> \in Tails
  /\ \A t, u \in Tails : t \o u \in Tails
<1> DEFINE n == Note("user")
           y == Note("system")
           x == Text
<1>1. n \in Message /\ x \in Message /\ y \in Message /\ Plain(n) /\ Plain(x) /\ Plain(y)
  BY PlainMessages DEF Plain
<1> HIDE DEF n, x, y
<1>2. <<>> \in Tails
  BY DEF Tails
<1>3. <<n>> \in Tails /\ <<x>> \in Tails /\ <<y>> \in Tails
  BY <1>1 DEF Tails
<1>4. ASSUME NEW p, NEW q, p \in Message, q \in Message, Plain(p), Plain(q) PROVE <<p, q>> \in Tails
  <2>1. <<p, q>> \in Seq(Message) /\ DOMAIN <<p, q>> = {1, 2}
        /\ <<p, q>>[1] = p /\ <<p, q>>[2] = q
    BY <1>4
  <2> QED BY <1>4, <2>1 DEF Tails
<1>5. ASSUME NEW t \in Tails, NEW u \in Tails PROVE t \o u \in Tails
  <2>1. /\ t \in Seq(Message) /\ u \in Seq(Message)
        /\ \A i \in 1..Len(t) : Plain(t[i])
        /\ \A i \in 1..Len(u) : Plain(u[i])
    BY DEF Tails
  <2>2. /\ t \o u \in Seq(Message) /\ DOMAIN (t \o u) = 1..(Len(t) + Len(u))
        /\ Len(t) \in Nat /\ Len(u) \in Nat
        /\ \A i \in 1..(Len(t) + Len(u)) :
             (t \o u)[i] = IF i <= Len(t) THEN t[i] ELSE u[i - Len(t)]
    BY <2>1
  <2>3. ASSUME NEW i \in 1..(Len(t) + Len(u)) PROVE Plain((t \o u)[i])
    <3>1. CASE i <= Len(t)
      BY <2>1, <2>2, <3>1
    <3>2. CASE ~(i <= Len(t))
      <4>1. i - Len(t) \in 1..Len(u)
        BY <2>2, <3>2
      <4> QED BY <2>1, <2>2, <3>2, <4>1
    <3> QED BY <3>1, <3>2
  <2> QED BY <2>2, <2>3 DEF Tails
<1>6. <<x, n>> \in Tails /\ <<y, n>> \in Tails
  BY <1>1, <1>4
<1> QED BY <1>2, <1>3, <1>5, <1>6 DEF n, x, y

LEMMA SaysTypes ==
  ASSUME LoopTypes, Says
  PROVE  /\ LoopTypes'
         /\ UNCHANGED <<comp, batches, broken>>
         /\ ask.pc # "tools" /\ ask'.pc \notin {"tools", "archive"} /\ ask'.next \in {ask.next, <<>>}
         /\ comp.pc = "free" \/ "compact" \in Concurrent \/ ask.pc # "idle"
         /\ \E tail \in Tails : messages' = messages \o tail
<1>1. /\ messages \in Seq(Message) /\ ask \in AskType /\ seen \in SeenType /\ comp \in CompType
      /\ batches \in Nat /\ broken \in SUBSET Nat /\ asks \in Nat /\ outside \in Nat
  BY DEF LoopTypes
<1>2. /\ ask.empty \in Nat /\ ask.narrated \in Nat /\ ask.reprompted \in BOOLEAN
      /\ DOMAIN ask = {"pc", "turns", "empty", "narrated", "reprompted", "repaired", "nudged",
                       "malformed", "aborted", "todo", "results", "invalid", "repeated", "next"}
  BY <1>1 DEF AskType
<1>3. /\ Plain(Note("user")) /\ Plain(Text)
      /\ Note("user") \in Message /\ Text \in Message
  BY PlainMessages DEF Plain
<1>4. <<>> \in Tails /\ <<Note("user")>> \in Tails /\ <<Text>> \in Tails
      /\ <<Text, Note("user")>> \in Tails
  BY TailsAre
<1>5. /\ messages \o <<>> = messages
      /\ Append(messages, Note("user")) = messages \o <<Note("user")>>
      /\ Append(messages, Text) = messages \o <<Text>>
  BY <1>1, <1>3
<1>6. /\ Idle \in AskType /\ Idle.pc = "idle" /\ Idle.next = <<>>
  BY IdleTypes
<1>7. SUFFICES /\ ask' \in AskType /\ seen' \in SeenType /\ asks' \in Nat
               /\ UNCHANGED <<comp, batches, broken, outside>>
               /\ ask.pc # "tools" /\ ask'.pc \notin {"tools", "archive"}
               /\ ask'.next \in {ask.next, <<>>}
               /\ comp.pc = "free" \/ "compact" \in Concurrent \/ ask.pc # "idle"
               /\ \E tail \in Tails : messages' = messages \o tail
  <2>1. \A tail \in Tails : tail \in Seq(Message) /\ messages \o tail \in Seq(Message)
    BY <1>1 DEF Tails
  <2> QED BY <1>1, <2>1 DEF LoopTypes
<1>8. CASE Ask
  <2>1. [Idle EXCEPT !.pc = "prepare"] \in AskType /\ [Idle EXCEPT !.pc = "prepare"].pc = "prepare"
        /\ [Idle EXCEPT !.pc = "prepare"].next = <<>>
    BY <1>6 DEF AskType
  <2>2. Unseen \in SeenType
    BY UnseenTypes
  <2>3. asks' \in Nat
    BY <1>1, <1>8 DEF Ask
  <2>4. messages' = messages \o <<Note("user")>>
    BY <1>5, <1>8 DEF Ask
  <2> QED BY <1>4, <1>8, <2>1, <2>2, <2>3, <2>4 DEF Ask, In
<1>9. CASE Prepare
  <2>1. [ask EXCEPT !.pc = "turn"] \in AskType /\ [ask EXCEPT !.pc = "turn"].pc = "turn"
        /\ [ask EXCEPT !.pc = "turn"].next = ask.next
    BY <1>1 DEF AskType
  <2>2. messages' \in {messages \o <<>>, messages \o <<Text>>}
    BY <1>5, <1>9 DEF Prepare
  <2> QED BY <1>1, <1>4, <1>6, <1>9, <2>1, <2>2 DEF Prepare, In
<1>10. CASE OutOfTurns \/ RequestFails
  <2>1. messages' = messages \o <<>>
    BY <1>5, <1>10 DEF OutOfTurns, RequestFails
  <2> QED BY <1>1, <1>4, <1>6, <1>10, <2>1 DEF OutOfTurns, RequestFails, Fail, In
<1>11. CASE EmptyResponse
  <2> DEFINE n == ask.empty + 1
             more == [ask EXCEPT !.pc = "turn", !.empty = n, !.aborted = FALSE]
  <2>1. n \in Nat
    BY <1>2
  <2>2. \/ ask' = Idle /\ messages' = messages
        \/ ask' = more /\ messages' = messages \o <<Note("user")>>
    BY <1>5, <1>11 DEF EmptyResponse, Fail
  <2> HIDE DEF n
  <2>3. more \in AskType /\ more.pc = "turn" /\ more.next = ask.next
    BY <1>1, <2>1 DEF AskType
  <2> HIDE DEF more
  <2>4. /\ ask' \in AskType /\ ask'.pc \in {"idle", "turn"} /\ ask'.next \in {ask.next, <<>>}
        /\ messages' \in {messages \o <<>>, messages \o <<Note("user")>>}
    BY <1>5, <1>6, <2>2, <2>3
  <2> QED BY <1>1, <1>4, <1>11, <2>4 DEF EmptyResponse, Responds, In
<1>12. CASE Narration
  <2> DEFINE n == IF ask.narrated + 1 >= RepromptAt THEN 0 ELSE ask.narrated + 1
             p == ask.reprompted \/ ask.narrated + 1 >= RepromptAt
             more == [ask EXCEPT !.pc = "turn", !.empty = 0, !.aborted = FALSE,
                                 !.narrated = n, !.reprompted = p]
  <2>1. n \in Nat /\ p \in BOOLEAN
    BY <1>2
  <2>2. \/ ask' = Idle /\ messages' = messages \o <<Text>>
        \/ ask' = more /\ messages' = messages \o <<Text, Note("user")>>
    BY <1>5, <1>12 DEF Narration, Fail
  <2> HIDE DEF n, p
  <2>3. more \in AskType /\ more.pc = "turn" /\ more.next = ask.next
    BY <1>1, <2>1 DEF AskType
  <2> HIDE DEF more
  <2>4. /\ ask' \in AskType /\ ask'.pc \in {"idle", "turn"} /\ ask'.next \in {ask.next, <<>>}
        /\ messages' \in {messages \o <<Text>>, messages \o <<Text, Note("user")>>}
    BY <1>6, <2>2, <2>3
  <2> QED BY <1>1, <1>4, <1>12, <2>4 DEF Narration, Responds, In
<1>13. CASE FinalAnswer
  <2>1. messages' = messages \o <<Text>>
    BY <1>5, <1>13 DEF FinalAnswer
  <2> QED BY <1>1, <1>4, <1>6, <1>13, <2>1 DEF FinalAnswer, Responds, In
<1>14. CASE Cancel
  <2>1. /\ ask.pc = "request" /\ ask' = [ask EXCEPT !.aborted = TRUE]
        /\ UNCHANGED <<messages, seen, comp, batches, broken, asks, outside>>
    BY <1>14 DEF Cancel, In
  <2>2. ask' \in AskType /\ ask'.pc = "request" /\ ask'.next = ask.next
    BY <1>1, <2>1 DEF AskType
  <2>3. messages' = messages \o <<>>
    BY <1>5, <2>1
  <2> QED BY <1>1, <1>4, <2>1, <2>2, <2>3
<1> QED BY <1>8, <1>9, <1>10, <1>11, <1>12, <1>13, <1>14 DEF Says
LEMMA WithVaultIs ==
  ASSUME NEW h \in Seq(Message), NEW next \in WithVault(Append(h, Note("system")))
  PROVE  \E tail \in Tails : next = h \o tail
<1> DEFINE n == Note("user")
           y == Note("system")
<1>1. n \in Message /\ y \in Message /\ <<y>> \in Tails /\ <<y, n>> \in Tails
  BY PlainMessages, TailsAre DEF Plain
<1>2. next \in {Append(h, y), Append(Append(h, y), n)}
  BY DEF WithVault
<1> HIDE DEF n, y
<1>3. Append(h, y) = h \o <<y>> /\ Append(Append(h, y), n) = h \o <<y, n>>
  BY <1>1
<1> QED BY <1>1, <1>2, <1>3

LEMMA TurnTypes ==
  ASSUME LoopTypes, Turn
  PROVE  /\ LoopTypes' /\ UNCHANGED <<comp, batches, broken>> /\ ask.pc = "turn"
         /\ LET next == Sub(messages, Enforced(messages, MinTail, Limit(FALSE), FALSE)) IN
            \/ ask'.pc = "request" /\ ask'.next = ask.next /\ messages' = messages
            \/ /\ ask'.pc = "request" /\ ask'.next = ask.next
               /\ messages' = next \o <<Note("system")>>
            \/ ask'.pc = "archive" /\ ask'.next = next /\ messages' = messages
<1> DEFINE left == Enforced(messages, MinTail, Limit(FALSE), FALSE)
           next == Sub(messages, left)
           n == ask.turns + 1
           y == Note("system")
<1>1. /\ messages \in Seq(Message) /\ ask \in AskType /\ seen \in SeenType /\ comp \in CompType
      /\ batches \in Nat /\ broken \in SUBSET Nat /\ asks \in Nat /\ outside \in Nat
  BY DEF LoopTypes
<1>2. next \in Seq(Message) /\ y \in Message
  <2>1. MinTail \in Nat /\ y \in Message
    BY NumberTypes, PlainMessages DEF Plain
  <2> QED BY <1>1, <2>1, ShortenedIs
<1>3. n \in Nat
  <2>1. ask.turns \in Nat
    BY <1>1 DEF AskType
  <2> QED BY <2>1
<1>4. /\ UNCHANGED <<seen, comp, batches, broken, asks, outside>> /\ ask.pc = "turn"
      /\ \/ ask' = [ask EXCEPT !.pc = "request", !.turns = n] /\ messages' = messages
         \/ ask' = [ask EXCEPT !.pc = "archive", !.turns = n, !.next = next] /\ messages' = messages
         \/ ask' = [ask EXCEPT !.pc = "request", !.turns = n] /\ messages' = Append(next, y)
  BY DEF Turn, In
<1> HIDE DEF next, n, y
<1>5. Append(next, y) = next \o <<y>> /\ next \o <<y>> \in Seq(Message)
  BY <1>2
<1>6. /\ ask' \in AskType
      /\ \/ ask'.pc = "request" /\ ask'.next = ask.next /\ messages' = messages
         \/ ask'.pc = "archive" /\ ask'.next = next /\ messages' = messages
         \/ ask'.pc = "request" /\ ask'.next = ask.next /\ messages' = next \o <<y>>
  <2>1. CASE ask' = [ask EXCEPT !.pc = "request", !.turns = n]
    <3>1. ask' \in AskType /\ ask'.pc = "request" /\ ask'.next = ask.next
      BY <1>1, <1>3, <2>1 DEF AskType
    <3>2. messages' = messages \/ messages' = next \o <<y>>
      <4>1. ask'.pc # "archive"
        BY <3>1
      <4>2. [ask EXCEPT !.pc = "archive", !.turns = n, !.next = next].pc = "archive"
        BY <1>1 DEF AskType
      <4> QED BY <1>4, <1>5, <4>1, <4>2
    <3> QED BY <3>1, <3>2
  <2>2. CASE ask' = [ask EXCEPT !.pc = "archive", !.turns = n, !.next = next]
    <3>1. ask' \in AskType /\ ask'.pc = "archive" /\ ask'.next = next
      BY <1>1, <1>2, <1>3, <2>2 DEF AskType
    <3>2. [ask EXCEPT !.pc = "request", !.turns = n].pc = "request"
      BY <1>1 DEF AskType
    <3>3. messages' = messages
      BY <1>4, <3>1, <3>2
    <3> QED BY <3>1, <3>3
  <2> QED BY <1>4, <2>1, <2>2
<1>7. messages' \in Seq(Message)
  BY <1>1, <1>5, <1>6
<1>8. LoopTypes'
  BY <1>1, <1>4, <1>6, <1>7 DEF LoopTypes
<1> QED BY <1>4, <1>6, <1>8 DEF next, y

LEMMA ArchivedTypes ==
  ASSUME LoopTypes, Archived
  PROVE  /\ LoopTypes' /\ UNCHANGED <<comp, batches, broken>>
         /\ ask.pc = "archive" /\ ask'.pc = "request" /\ ask'.next = <<>>
         /\ \E tail \in Tails : messages' = ask.next \o tail
<1>1. /\ messages \in Seq(Message) /\ ask \in AskType /\ seen \in SeenType /\ comp \in CompType
      /\ batches \in Nat /\ broken \in SUBSET Nat /\ asks \in Nat /\ outside \in Nat
  BY DEF LoopTypes
<1>2. ask.next \in Seq(Message)
  BY <1>1 DEF AskType
<1>3. /\ ask.pc = "archive" /\ ask' = [ask EXCEPT !.pc = "request", !.next = <<>>]
      /\ messages' \in WithVault(Append(ask.next, Note("system")))
      /\ UNCHANGED <<seen, comp, batches, broken, asks, outside>>
  BY DEF Archived, In
<1>4. ask' \in AskType /\ ask'.pc = "request" /\ ask'.next = <<>>
  <2>1. <<>> \in Seq(Message)
    OBVIOUS
  <2> QED BY <1>1, <1>3, <2>1 DEF AskType
<1>5. PICK tail \in Tails : messages' = ask.next \o tail
  BY <1>2, <1>3, WithVaultIs
<1>6. messages' \in Seq(Message)
  BY <1>2, <1>5 DEF Tails
<1> QED BY <1>1, <1>3, <1>4, <1>5, <1>6 DEF LoopTypes

LEMMA FiveParts ==
  \A m, p, q, r, s \in Seq(Message) : m \o p \o q \o r \o s = m \o (p \o q \o r \o s)
<1> SUFFICES ASSUME NEW m \in Seq(Message), NEW p \in Seq(Message), NEW q \in Seq(Message),
                    NEW r \in Seq(Message), NEW s \in Seq(Message)
             PROVE  m \o p \o q \o r \o s = m \o (p \o q \o r \o s)
  OBVIOUS
<1> DEFINE y == p \o q
           z == y \o r
<1>1. y \in Seq(Message)
  BY ConcatProperties
<1>2. z \in Seq(Message)
  BY <1>1, ConcatProperties
<1>3. m \o p \o q = m \o y
  BY ConcatAssociative
<1> HIDE DEF y
<1>4. m \o y \o r = m \o (y \o r)
  BY <1>1, ConcatAssociative
<1>5. m \o z \o s = m \o (z \o s)
  <2> HIDE DEF z
  <2> QED BY <1>2, ConcatAssociative
<1> QED BY <1>3, <1>4, <1>5, Zenon DEF y, z

LEMMA ToolsDoneTypes ==
  ASSUME LoopTypes, ToolsDone
  PROVE  /\ LoopTypes' /\ UNCHANGED <<comp, batches, broken>>
         /\ ask.pc = "tools" /\ ask.todo = <<>> /\ ask'.pc = "turn" /\ ask'.next = ask.next
         /\ \E tail \in Tails :
              messages' = (messages \o ResultMsgs(batches, ask.results)) \o tail
<1>1. /\ messages \in Seq(Message) /\ ask \in AskType /\ seen \in SeenType /\ comp \in CompType
      /\ batches \in Nat /\ broken \in SUBSET Nat /\ asks \in Nat /\ outside \in Nat
  BY DEF LoopTypes
<1>2. /\ ask.results \in Nat /\ ask.repaired \in BOOLEAN /\ ask.nudged \in BOOLEAN
      /\ ask.repeated \in SUBSET Calls /\ seen.hinted \in SUBSET Calls
  BY <1>1 DEF AskType, SeenType
<1> DEFINE Said(b) == IF b THEN <<Note("user")>> ELSE <<>>
           new == ask.repeated \ seen.hinted
           repair == ask.invalid /\ ~ask.repaired
           warn == seen.reads > ReadWarn /\ seen.reads <= ReadBudget
           R == ResultMsgs(batches, ask.results)
<1>3. PICK green \in {FALSE, ~ask.nudged /\ seen.version > 0} :
        /\ messages' = messages \o R \o Said(new # {}) \o Said(green) \o Said(warn) \o Said(repair)
        /\ seen' = [seen EXCEPT !.hinted = @ \cup new]
        /\ ask' = [ask EXCEPT !.pc = "turn", !.results = 0, !.repeated = {},
                     !.invalid = FALSE, !.repaired = @ \/ repair, !.nudged = @ \/ green]
  BY DEF ToolsDone
<1>4. /\ ask.pc = "tools" /\ ask.todo = <<>>
      /\ UNCHANGED <<comp, batches, broken, asks, outside>>
  BY DEF ToolsDone, In
<1> DEFINE h1 == seen.hinted \cup new
           r1 == ask.repaired \/ repair
           n1 == ask.nudged \/ green
<1>5. h1 \in SUBSET Calls /\ r1 \in BOOLEAN /\ n1 \in BOOLEAN
  BY <1>2
<1>6. /\ seen' = [seen EXCEPT !.hinted = h1]
      /\ ask' = [ask EXCEPT !.pc = "turn", !.results = 0, !.repeated = {},
                   !.invalid = FALSE, !.repaired = r1, !.nudged = n1]
  BY <1>3
<1> DEFINE s1 == Said(new # {})
           s2 == Said(green)
           s3 == Said(warn)
           s4 == Said(repair)
<1>7. s1 \in Tails /\ s2 \in Tails /\ s3 \in Tails /\ s4 \in Tails
  BY TailsAre
<1>8. messages' = messages \o R \o s1 \o s2 \o s3 \o s4
  BY <1>3
<1>9. R \in Seq(Message)
  BY <1>1, <1>2, MessageTypes
<1> HIDE DEF h1, r1, n1, s1, s2, s3, s4, R
<1>10. seen' \in SeenType
  BY <1>1, <1>5, <1>6 DEF SeenType
<1>11. ask' \in AskType /\ ask'.pc = "turn" /\ ask'.next = ask.next
  BY <1>1, <1>5, <1>6 DEF AskType
<1>12. /\ s1 \in Seq(Message) /\ s2 \in Seq(Message) /\ s3 \in Seq(Message) /\ s4 \in Seq(Message)
  BY <1>7 DEF Tails
<1>13. s1 \o s2 \o s3 \o s4 \in Tails
  BY <1>7, TailsAre
<1>14. messages' = (messages \o R) \o (s1 \o s2 \o s3 \o s4)
  <2> DEFINE m1 == messages \o R
  <2>1. m1 \in Seq(Message) /\ messages' = m1 \o s1 \o s2 \o s3 \o s4
    BY <1>1, <1>8, <1>9
  <2> HIDE DEF m1
  <2>2. m1 \o s1 \o s2 \o s3 \o s4 = m1 \o (s1 \o s2 \o s3 \o s4)
    <3>1. m1 \in Seq(Message)
      BY <2>1
    <3>2. s1 \in Seq(Message)
      BY <1>12
    <3>3. s2 \in Seq(Message)
      BY <1>12
    <3>4. s3 \in Seq(Message)
      BY <1>12
    <3>5. s4 \in Seq(Message)
      BY <1>12
    <3>6. \A p, q, r, s \in Seq(Message) : m1 \o p \o q \o r \o s = m1 \o (p \o q \o r \o s)
      BY <3>1, FiveParts
    <3>7. \A r, s \in Seq(Message) : m1 \o s1 \o s2 \o r \o s = m1 \o (s1 \o s2 \o r \o s)
      BY <3>2, <3>3, <3>6
    <3> QED BY <3>4, <3>5, <3>7
  <2> QED BY <2>1, <2>2, Zenon DEF m1
<1>15. messages' \in Seq(Message)
  BY <1>1, <1>9, <1>13, <1>14 DEF Tails
<1>16. LoopTypes'
  BY <1>1, <1>4, <1>10, <1>11, <1>15 DEF LoopTypes
<1> QED BY <1>4, <1>11, <1>13, <1>14, <1>16 DEF R

LEMMA LateAbortTypes ==
  ASSUME LoopTypes, LateAbort
  PROVE  /\ LoopTypes' /\ UNCHANGED <<messages, comp, batches>>
         /\ ask.pc = "tools" /\ ask'.pc = "idle" /\ ask'.next = <<>>
         /\ broken' = broken \cup {batches}
BY IdleTypes DEF LoopTypes, LateAbort, Break, Fail, In

LEMMA CompactionTypes ==
  ASSUME LoopTypes, Compaction
  PROVE  /\ LoopTypes' /\ UNCHANGED <<ask, batches, broken>>
         /\ comp.pc = "archive" /\ comp' = Free
         /\ \E tail \in Tails : messages' = comp.next \o tail
<1>1. /\ messages \in Seq(Message) /\ ask \in AskType /\ seen \in SeenType /\ comp \in CompType
      /\ batches \in Nat /\ broken \in SUBSET Nat /\ asks \in Nat /\ outside \in Nat
  BY DEF LoopTypes
<1>2. comp.next \in Seq(Message)
  BY <1>1 DEF CompType
<1>3. PICK tail \in Tails : messages' = comp.next \o tail
  BY <1>2, WithVaultIs DEF Compaction
<1>4. messages' \in Seq(Message)
  BY <1>2, <1>3 DEF Tails
<1> QED BY <1>1, <1>3, <1>4, FreeTypes DEF LoopTypes, Compaction

LEMMA ResetTypes ==
  ASSUME LoopTypes, Reset
  PROVE  /\ LoopTypes' /\ UNCHANGED <<ask, comp, batches, broken>>
         /\ ask.pc = "idle" \/ "reset" \in Concurrent
         /\ messages' = <<Note("system")>>
<1>1. <<Note("system")>> \in Seq(Message)
  BY TailsAre DEF Tails
<1>2. outside \in Nat /\ outside' = outside + 1
  BY DEF LoopTypes, Reset, Outside
<1>3. outside' \in Nat
  BY <1>2
<1> QED BY <1>1, <1>3 DEF LoopTypes, Reset, Outside, In

LEMMA CompactTypes ==
  ASSUME LoopTypes, NEW mode, CompactHistory(mode)
  PROVE  /\ LoopTypes' /\ UNCHANGED <<ask, batches, broken>>
         /\ comp.pc = "free" /\ (ask.pc = "idle" \/ "compact" \in Concurrent)
         /\ \/ /\ comp' = [pc |-> "archive", next |-> Compacted(mode)]
               /\ messages' = messages
            \/ comp' = comp /\ \E tail \in Tails : messages' = Compacted(mode) \o tail
<1> DEFINE next == Compacted(mode)
           y == Note("system")
<1>1. /\ messages \in Seq(Message) /\ ask \in AskType /\ seen \in SeenType /\ comp \in CompType
      /\ batches \in Nat /\ broken \in SUBSET Nat /\ asks \in Nat /\ outside \in Nat
  BY DEF LoopTypes
<1>2. next \in Seq(Message)
  BY <1>1, CompactedIs
<1>3. y \in Message /\ <<y>> \in Tails /\ <<>> \in Tails
  BY PlainMessages, TailsAre DEF Plain
<1>4. /\ comp.pc = "free" /\ Outside("compact") /\ UNCHANGED <<ask, seen, batches, broken, asks>>
      /\ \/ messages' = next /\ comp' = comp
         \/ comp' = [pc |-> "archive", next |-> next] /\ messages' = messages
         \/ messages' = Append(next, y) /\ comp' = comp
  BY DEF CompactHistory
<1>5. /\ ask.pc = "idle" \/ "compact" \in Concurrent
      /\ outside' \in Nat
  BY <1>1, <1>4 DEF Outside, In
<1> HIDE DEF next, y
<1>6. next = next \o <<>> /\ Append(next, y) = next \o <<y>>
  BY <1>2, <1>3
<1>7. \/ comp' = [pc |-> "archive", next |-> next] /\ messages' = messages
      \/ comp' = comp /\ \E tail \in Tails : messages' = next \o tail
  BY <1>3, <1>4, <1>6
<1>8. messages' \in Seq(Message) /\ comp' \in CompType
  <2>1. [pc |-> "archive", next |-> next] \in CompType
    BY <1>2 DEF CompType
  <2>2. \A tail \in Tails : next \o tail \in Seq(Message)
    BY <1>2 DEF Tails
  <2> QED BY <1>1, <1>7, <2>1, <2>2
<1>9. LoopTypes'
  BY <1>1, <1>4, <1>5, <1>8 DEF LoopTypes
<1> QED BY <1>4, <1>5, <1>7, <1>9 DEF next
-----------------------------------------------------------------------------
(* Types are kept *)

LEMMA TypesInit == Init => LoopTypes
<1>1. <<Note("system")>> \in Seq(Message)
  BY TailsAre DEF Tails
<1> QED BY <1>1, IdleTypes, UnseenTypes, FreeTypes DEF Init, LoopTypes

LEMMA TypesNext == LoopTypes /\ [Next]_vars => LoopTypes'
<1> SUFFICES ASSUME LoopTypes, [Next]_vars PROVE LoopTypes'
  OBVIOUS
<1>1. CASE Says
  BY <1>1, SaysTypes
<1>2. CASE Turn
  BY <1>2, TurnTypes
<1>3. CASE Archived
  BY <1>3, ArchivedTypes
<1>4. CASE \E sent \in Batches : ToolCalls(sent)
  BY <1>4, ToolCallsTypes
<1>5. CASE \E c \in Calls : RunCall(c)
  BY <1>5, RunCallTypes
<1>6. CASE ToolsDone
  BY <1>6, ToolsDoneTypes
<1>7. CASE LateAbort
  BY <1>7, LateAbortTypes
<1>8. CASE Compaction
  BY <1>8, CompactionTypes
<1>9. CASE Reset
  BY <1>9, ResetTypes
<1>10. CASE \E mode \in Modes : CompactHistory(mode)
  BY <1>10, CompactTypes
<1>11. CASE UNCHANGED vars
  BY <1>11 DEF vars, LoopTypes
<1> QED BY <1>1, <1>2, <1>3, <1>4, <1>5, <1>6, <1>7, <1>8, <1>9, <1>10, <1>11 DEF Next, AskStep, Says

\* The state of a session has its types, whatever runs beside the ask: the conversation
\* stays a list of messages through every splice and snapshot (agent.ts, history.ts).
THEOREM AgentTypes == Spec => []LoopTypes
<1>1. Init => LoopTypes
  BY TypesInit
<1>2. LoopTypes /\ [Next]_vars => LoopTypes'
  BY TypesNext
<1> QED BY <1>1, <1>2, PTL DEF Spec

-----------------------------------------------------------------------------
(* The inductive invariant behind ExchangesWhole *)

\* No message of h belongs to an exchange later than the n-th.
Known(h, n) == \A i \in DOMAIN h : h[i].batch <= n

\* A conversation that keeps the contract, up to the exchanges seen so far.
Kept(h) == Answers(h, broken) /\ Known(h, batches)

\* The conversations that were compacted but wait for the vault keep it, and the one of
\* compactHistory waits only while no ask runs.
Snapshots == Kept(ask.next) /\ Kept(comp.next) /\ (comp.pc = "archive" => ask.pc = "idle")

\* While tool calls run, the conversation ends in the message that asked for them, and
\* their number is that of the results collected and the calls to run.
InProgress ==
  ask.pc = "tools" /\ batches \notin broken =>
    /\ Len(messages) > 0
    /\ messages[Len(messages)] = CallMsg(batches, ask.results + Len(ask.todo))
    /\ \A i \in 1..(Len(messages) - 1) : messages[i].batch # batches

AgentInv == LoopTypes /\ Known(messages, batches) /\ ExchangesWhole /\ Snapshots /\ InProgress

LEMMA AnswersMore ==
  ASSUME NEW h, NEW B, NEW C, Answers(h, B), B \subseteq C
  PROVE  Answers(h, C)
BY DEF Answers

LEMMA KnownMore ==
  ASSUME NEW h \in Seq(Message), NEW n \in Nat, Known(h, n)
  PROVE  Known(h, n + 1)
<1>1. ASSUME NEW i \in DOMAIN h PROVE h[i].batch \in Nat
  <2>1. h[i] \in Message
    OBVIOUS
  <2> QED BY <2>1 DEF Message
<1>2. ASSUME NEW i \in DOMAIN h PROVE h[i].batch <= n + 1
  <2>1. h[i].batch <= n
    BY DEF Known
  <2> QED BY <1>1, <2>1
<1> QED BY <1>2 DEF Known

LEMMA EmptyIsKept == Kept(<<>>)
BY DEF Kept, Answers, Known

LEMMA TailIsKept ==
  ASSUME NEW g \in Seq(Message), NEW tail \in Tails, NEW B, NEW n \in Nat,
         Answers(g, B), Known(g, n)
  PROVE  g \o tail \in Seq(Message) /\ Answers(g \o tail, B) /\ Known(g \o tail, n)
<1>1. tail \in Seq(Message) /\ \A i \in 1..Len(tail) : Plain(tail[i])
  BY DEF Tails
<1> DEFINE s == g \o tail
<1>2. /\ s \in Seq(Message) /\ Len(s) = Len(g) + Len(tail) /\ Len(g) \in Nat /\ Len(tail) \in Nat
      /\ \A i \in 1..Len(g) : s[i] = g[i]
      /\ \A i \in (Len(g) + 1)..Len(s) : s[i] = tail[i - Len(g)] /\ i - Len(g) \in 1..Len(tail)
  BY <1>1
<1> HIDE DEF s
<1>3. \A i \in (Len(g) + 1)..Len(s) :
        s[i].batch = 0 /\ ~(IsCaller(s[i]) \/ IsResult(s[i]))
  BY <1>1, <1>2 DEF Plain
<1>4. Answers(s, B)
  <2>1. Len(g) <= Len(s)
    BY <1>2
  <2>2. \A i \in (Len(g) + 1)..Len(s) : s[i].batch \in B \/ ~(IsCaller(s[i]) \/ IsResult(s[i]))
    BY <1>3
  <2> QED BY <1>2, <2>1, <2>2, LongerAnswers
<1>5. Known(s, n)
  <2>1. DOMAIN s = 1..Len(s) /\ DOMAIN g = 1..Len(g)
    BY <1>2
  <2>2. \A i \in 1..Len(s) : i \in 1..Len(g) \/ i \in (Len(g) + 1)..Len(s)
    BY <1>2
  <2> QED BY <1>2, <1>3, <2>1, <2>2 DEF Known
<1> QED BY <1>2, <1>4, <1>5 DEF s

\* The budget keeps the contract of a conversation.
LEMMA ShortenedIsKept ==
  ASSUME NEW h \in Seq(Message), NEW B, NEW n, NEW m \in Nat, NEW t, NEW force,
         Answers(h, B), Known(h, n)
  PROVE  LET next == Sub(h, Enforced(h, m, t, force)) IN Answers(next, B) /\ Known(next, n)
<1> DEFINE K == Enforced(h, m, t, force)
<1>1. K \in SUBSET DOMAIN h /\ Whole(h, K, B)
  BY EnforcedIsWhole
<1> HIDE DEF K
<1>2. Answers(Sub(h, K), B)
  BY <1>1, WholeAnswers
<1>3. Known(Sub(h, K), n)
  <2>1. /\ \A i \in K : Sub(h, K)[Rank(K, i)] = h[i]
        /\ \A q \in DOMAIN Sub(h, K) : \E i \in K : Rank(K, i) = q
    BY <1>1, SubIs
  <2>2. \A i \in K : h[i].batch <= n
    BY <1>1 DEF Known
  <2> QED BY <2>1, <2>2 DEF Known
<1> QED BY <1>2, <1>3 DEF K

LEMMA CompactedIsKept ==
  ASSUME messages \in Seq(Message), NEW mode \in {"auto", "force"}, NEW B, NEW n,
         Answers(messages, B), Known(messages, n)
  PROVE  Answers(Compacted(mode), B) /\ Known(Compacted(mode), n)
<1>1. PICK m \in Nat : \E f : Compacted(mode) = Sub(messages, Enforced(messages, m, Limit(f), f))
  <2>1. MinTail \in Nat /\ 2 \in Nat /\ mode # "hard"
    BY NumberTypes
  <2> QED BY <2>1 DEF Compacted
<1> QED BY <1>1, ShortenedIsKept
-----------------------------------------------------------------------------
(* The steps that make no exchange: they continue a conversation that keeps the contract *)

LEMMA GoesOn ==
  ASSUME AgentInv, LoopTypes', UNCHANGED <<batches, broken>>, ask'.pc # "tools",
         NEW g \in Seq(Message), Kept(g), NEW tail \in Tails, messages' = g \o tail,
         Kept(ask'.next), Kept(comp'.next), comp'.pc = "archive" => ask'.pc = "idle"
  PROVE  AgentInv'
<1>1. batches \in Nat
  BY DEF AgentInv, LoopTypes
<1>2. Answers(messages', broken) /\ Known(messages', batches)
  BY <1>1, TailIsKept DEF Kept
<1>3. ExchangesWhole'
  <2>1. broken \cup {} = broken
    OBVIOUS
  <2> QED BY <1>2, <2>1 DEF ExchangesWhole, Open
<1>4. Snapshots'
  BY DEF Snapshots, Kept
<1> QED BY <1>2, <1>3, <1>4 DEF AgentInv, InProgress

\* The conversation keeps the contract when no tool calls run.
LEMMA KeptBetween ==
  ASSUME AgentInv, ask.pc # "tools"
  PROVE  Kept(messages)
<1>1. broken \cup {} = broken
  OBVIOUS
<1> QED BY <1>1 DEF AgentInv, ExchangesWhole, Open, Kept

\* What may run beside an ask, in the configurations the contract is stated for.
Alone == Modes \subseteq {"auto", "force"} /\ Concurrent = {}

LEMMA SaysKeep ==
  ASSUME Alone, AgentInv, Says
  PROVE  AgentInv'
<1>1. LoopTypes /\ Snapshots /\ messages \in Seq(Message)
  BY DEF AgentInv, LoopTypes
<1>2. /\ LoopTypes' /\ UNCHANGED <<comp, batches, broken>>
      /\ ask.pc # "tools" /\ ask'.pc \notin {"tools", "archive"} /\ ask'.next \in {ask.next, <<>>}
      /\ comp.pc = "free" \/ "compact" \in Concurrent \/ ask.pc # "idle"
  BY <1>1, SaysTypes
<1>3. PICK tail \in Tails : messages' = messages \o tail
  BY <1>1, SaysTypes
<1>4. Kept(messages)
  BY <1>2, KeptBetween
<1>5. Kept(ask'.next) /\ Kept(comp'.next)
  BY <1>1, <1>2, EmptyIsKept DEF Snapshots
<1>6. comp'.pc # "archive"
  <2>1. comp.pc \in {"free", "archive"}
    BY <1>1 DEF LoopTypes, CompType
  <2> QED BY <1>1, <1>2, <2>1 DEF Snapshots, Alone
<1> QED BY <1>1, <1>2, <1>3, <1>4, <1>5, <1>6, GoesOn

LEMMA TurnKeeps ==
  ASSUME AgentInv, Turn
  PROVE  AgentInv'
<1> DEFINE next == Sub(messages, Enforced(messages, MinTail, Limit(FALSE), FALSE))
<1>1. LoopTypes /\ Snapshots /\ messages \in Seq(Message) /\ MinTail \in Nat
  BY NumberTypes DEF AgentInv, LoopTypes
<1>2. /\ LoopTypes' /\ UNCHANGED <<comp, batches, broken>> /\ ask.pc = "turn"
      /\ \/ ask'.pc = "request" /\ ask'.next = ask.next /\ messages' = messages
         \/ /\ ask'.pc = "request" /\ ask'.next = ask.next
            /\ messages' = next \o <<Note("system")>>
         \/ ask'.pc = "archive" /\ ask'.next = next /\ messages' = messages
  BY <1>1, TurnTypes
<1>3. Kept(messages)
  BY <1>2, KeptBetween
<1>4. next \in Seq(Message)
  BY <1>1, ShortenedIs
<1>5. Kept(next)
  BY <1>1, <1>3, ShortenedIsKept DEF Kept
<1> HIDE DEF next
<1>6. \E g \in {messages, next} : \E tail \in Tails : messages' = g \o tail
  <2>1. <<>> \in Tails /\ <<Note("system")>> \in Tails /\ messages \o <<>> = messages
    BY <1>1, TailsAre
  <2> QED BY <1>2, <2>1
<1>7. Kept(ask'.next) /\ Kept(comp'.next) /\ comp'.pc # "archive"
  BY <1>1, <1>2, <1>5 DEF Snapshots
<1>8. ask'.pc # "tools"
  BY <1>2
<1> QED BY <1>1, <1>2, <1>3, <1>4, <1>5, <1>6, <1>7, <1>8, GoesOn

LEMMA ArchivedKeeps ==
  ASSUME AgentInv, Archived
  PROVE  AgentInv'
<1>1. LoopTypes /\ Snapshots /\ ask.next \in Seq(Message)
  BY DEF AgentInv, LoopTypes, AskType
<1>2. /\ LoopTypes' /\ UNCHANGED <<comp, batches, broken>>
      /\ ask.pc = "archive" /\ ask'.pc = "request" /\ ask'.next = <<>>
  BY <1>1, ArchivedTypes
<1>3. PICK tail \in Tails : messages' = ask.next \o tail
  BY <1>1, ArchivedTypes
<1>4. Kept(ask.next) /\ Kept(ask'.next) /\ Kept(comp'.next) /\ comp'.pc # "archive"
  BY <1>1, <1>2, EmptyIsKept DEF Snapshots
<1>5. ask'.pc # "tools"
  BY <1>2
<1> QED BY <1>1, <1>2, <1>3, <1>4, <1>5, GoesOn

LEMMA CompactionKeeps ==
  ASSUME AgentInv, Compaction
  PROVE  AgentInv'
<1>1. LoopTypes /\ Snapshots /\ comp.next \in Seq(Message)
  BY DEF AgentInv, LoopTypes, CompType
<1>2. /\ LoopTypes' /\ UNCHANGED <<ask, batches, broken>>
      /\ comp.pc = "archive" /\ comp' = Free
  BY <1>1, CompactionTypes
<1>3. PICK tail \in Tails : messages' = comp.next \o tail
  BY <1>1, CompactionTypes
<1>4. /\ Kept(comp.next) /\ Kept(ask'.next) /\ Kept(comp'.next) /\ comp'.pc # "archive"
      /\ ask'.pc # "tools"
  BY <1>1, <1>2, EmptyIsKept, FreeTypes DEF Snapshots
<1> QED BY <1>1, <1>2, <1>3, <1>4, GoesOn

LEMMA ResetKeeps ==
  ASSUME Alone, AgentInv, Reset
  PROVE  AgentInv'
<1>1. LoopTypes /\ Snapshots
  BY DEF AgentInv
<1>2. /\ LoopTypes' /\ UNCHANGED <<ask, comp, batches, broken>> /\ ask.pc = "idle"
      /\ messages' = <<Note("system")>>
  BY <1>1, ResetTypes DEF Alone
<1>3. /\ <<Note("system")>> \in Tails /\ <<>> \in Seq(Message)
      /\ <<>> \o <<Note("system")>> = <<Note("system")>>
  BY TailsAre
<1>4. Kept(<<>>) /\ Kept(ask'.next) /\ Kept(comp'.next) /\ ask'.pc # "tools"
  BY <1>1, <1>2, EmptyIsKept DEF Snapshots
<1> QED BY <1>1, <1>2, <1>3, <1>4, GoesOn

LEMMA CompactKeeps ==
  ASSUME Alone, AgentInv, NEW mode \in Modes, CompactHistory(mode)
  PROVE  AgentInv'
<1> DEFINE next == Compacted(mode)
<1>1. LoopTypes /\ Snapshots /\ messages \in Seq(Message)
  BY DEF AgentInv, LoopTypes
<1>2. /\ LoopTypes' /\ UNCHANGED <<ask, batches, broken>> /\ ask.pc = "idle"
      /\ \/ comp' = [pc |-> "archive", next |-> next] /\ messages' = messages
         \/ comp' = comp /\ \E tail \in Tails : messages' = next \o tail
  BY <1>1, CompactTypes DEF Alone
<1>3. Kept(messages)
  BY <1>2, KeptBetween
<1>4. next \in Seq(Message)
  BY <1>1, CompactedIs
<1>5. Kept(next)
  <2>1. mode \in {"auto", "force"}
    BY DEF Alone
  <2> QED BY <1>1, <1>3, <2>1, CompactedIsKept DEF Kept
<1> HIDE DEF next
<1>6. \E g \in {messages, next} : \E tail \in Tails : messages' = g \o tail
  <2>1. <<>> \in Tails /\ messages \o <<>> = messages
    BY <1>1, TailsAre
  <2> QED BY <1>2, <2>1
<1>7. Kept(ask'.next) /\ Kept(comp'.next) /\ ask'.pc = "idle"
  BY <1>1, <1>2, <1>5 DEF Snapshots
<1>8. ask'.pc # "tools"
  BY <1>7
<1> QED BY <1>1, <1>2, <1>3, <1>4, <1>5, <1>6, <1>7, <1>8, GoesOn
-----------------------------------------------------------------------------
(* The steps of an exchange *)

\* The conversation keeps the contract but for the exchange that is made.
LEMMA KeptButLast ==
  ASSUME AgentInv, NEW B, broken \cup {batches} \subseteq B
  PROVE  Answers(messages, B)
<1>1. broken \cup Open \subseteq B
  BY DEF Open
<1> QED BY <1>1, AnswersMore DEF AgentInv, ExchangesWhole

\* What the exchanges known to be cut short gain, the snapshots keep.
LEMMA SnapshotsMore ==
  ASSUME LoopTypes, Snapshots, broken \subseteq broken', batches' \in {batches, batches + 1},
         comp' = comp, ask'.next \in {ask.next, <<>>}, comp.pc = "archive" => ask'.pc = "idle"
  PROVE  Snapshots'
<1>1. /\ batches \in Nat
      /\ \A h \in {ask.next, comp.next, <<>>} : h \in Seq(Message) /\ Kept(h)
  BY EmptyIsKept DEF LoopTypes, AskType, CompType, Snapshots
<1>2. ASSUME NEW h \in {ask.next, comp.next, <<>>}
      PROVE  Answers(h, broken') /\ Known(h, batches')
  <2>1. h \in Seq(Message) /\ Answers(h, broken) /\ Known(h, batches)
    BY <1>1 DEF Kept
  <2>2. Answers(h, broken')
    BY <2>1, AnswersMore
  <2>3. Known(h, batches + 1)
    BY <1>1, <2>1, KnownMore
  <2> QED BY <2>1, <2>2, <2>3
<1> QED BY <1>2 DEF Snapshots, Kept

LEMMA ToolCallsKeep ==
  ASSUME AgentInv, NEW sent \in Batches, ToolCalls(sent)
  PROVE  AgentInv'
<1> DEFINE B == broken' \cup Open'
<1>1. /\ LoopTypes /\ Snapshots /\ messages \in Seq(Message) /\ batches \in Nat
      /\ Known(messages, batches)
  BY DEF AgentInv, LoopTypes
<1>2. /\ LoopTypes'
      /\ batches' = batches + 1 /\ broken' \in {broken, broken \cup {batches'}}
      /\ comp' = comp /\ ask'.next \in {ask.next, <<>>} /\ ask.pc = "request"
      /\ ask' = Idle => broken' = broken \cup {batches'}
  BY <1>1, ToolCallsTypes
<1>3. PICK n \in Nat :
        /\ messages' \in {Append(messages, CallMsg(batches', n)),
                          Append(Append(messages, CallMsg(batches', n)), Note("user"))}
        /\ messages' # Append(messages, CallMsg(batches', n)) => broken' = broken \cup {batches'}
        /\ ask' # Idle => ask'.pc = "tools" /\ ask'.results + Len(ask'.todo) = n
  BY <1>1, ToolCallsTypes, Zenon
<1> DEFINE call == CallMsg(batches', n)
           said == Append(messages, call)
<1>4. /\ call \in Message /\ call.batch = batches + 1
      /\ Note("user") \in Message /\ Plain(Note("user"))
  BY <1>1, <1>2, MessageTypes, PlainMessages DEF CallMsg, Msg, Plain
<1> HIDE DEF call
<1>5. /\ said \in Seq(Message) /\ Len(said) = Len(messages) + 1 /\ Len(messages) \in Nat
      /\ \A i \in 1..Len(messages) : said[i] = messages[i]
      /\ said[Len(messages) + 1] = call
  BY <1>1, <1>4
<1>6. Kept(messages)
  BY <1>2, KeptBetween
<1>7. broken \subseteq B /\ batches' \in B
  <2>1. broken \subseteq broken'
    BY <1>2
  <2>2. ask'.pc = "tools" \/ batches' \in broken'
    BY <1>2, <1>3
  <2> QED BY <2>1, <2>2 DEF Open
<1> HIDE DEF B
<1>8. Answers(said, B) /\ Known(said, batches')
  <2>1. Answers(messages, B)
    BY <1>6, <1>7, AnswersMore DEF Kept
  <2>2. \A i \in (Len(messages) + 1)..Len(said) : said[i].batch \in B
    BY <1>2, <1>4, <1>5, <1>7
  <2>3. Answers(said, B)
    <3>1. \A i \in (Len(messages) + 1)..Len(said) :
            said[i].batch \in B \/ ~(IsCaller(said[i]) \/ IsResult(said[i]))
      BY <2>2
    <3>2. Len(messages) <= Len(said)
      BY <1>5
    <3> HIDE DEF said
    <3> QED BY <1>1, <1>5, <2>1, <3>1, <3>2, LongerAnswers
  <2>4. Known(messages, batches')
    BY <1>1, <1>2, KnownMore
  <2>5. \A i \in 1..Len(said) : i \in 1..Len(messages) \/ i = Len(messages) + 1
    BY <1>5
  <2>6. DOMAIN said = 1..Len(said) /\ DOMAIN messages = 1..Len(messages)
    BY <1>1, <1>5
  <2>7. Known(said, batches')
    <3> HIDE DEF said
    <3> QED BY <1>1, <1>2, <1>4, <1>5, <2>4, <2>5, <2>6 DEF Known
  <2> QED BY <2>3, <2>7
<1>9. \E tail \in Tails : messages' = said \o tail
  <2> DEFINE note == Note("user")
  <2>1. <<>> \in Tails /\ <<note>> \in Tails /\ note \in Message
    BY <1>4, TailsAre
  <2>2. messages' \in {said, Append(said, note)}
    BY <1>3 DEF call
  <2> HIDE DEF said, note
  <2>3. said \o <<>> = said /\ Append(said, note) = said \o <<note>>
    BY <1>5, <2>1
  <2> QED BY <2>1, <2>2, <2>3
<1>10. Answers(messages', B) /\ Known(messages', batches')
  <2>1. batches' \in Nat
    BY <1>1, <1>2
  <2> HIDE DEF said
  <2> QED BY <1>5, <1>8, <1>9, <2>1, TailIsKept
<1>11. InProgress'
  <2> SUFFICES ASSUME ask'.pc = "tools", batches' \notin broken'
               PROVE  /\ Len(messages') > 0
                      /\ messages'[Len(messages')] = CallMsg(batches', ask'.results + Len(ask'.todo))
                      /\ \A i \in 1..(Len(messages') - 1) : messages'[i].batch # batches'
    BY DEF InProgress
  <2>1. messages' = said /\ ask'.results + Len(ask'.todo) = n
    <3>1. ask' # Idle
      BY IdleTypes
    <3>2. messages' = Append(messages, CallMsg(batches', n))
      BY <1>3
    <3> QED BY <1>3, <3>1, <3>2 DEF call
  <2>2. \A i \in 1..Len(messages) : messages[i].batch <= batches /\ messages[i].batch \in Nat
    <3>1. ASSUME NEW i \in 1..Len(messages) PROVE messages[i].batch <= batches
      BY <1>1 DEF Known
    <3>2. ASSUME NEW i \in 1..Len(messages) PROVE messages[i].batch \in Nat
      <4>1. messages[i] \in Message
        BY <1>1
      <4> QED BY <4>1 DEF Message
    <3> QED BY <3>1, <3>2
  <2>3. \A i \in 1..Len(messages) : said[i].batch # batches'
    BY <1>1, <1>2, <1>5, <2>2
  <2> HIDE DEF said
  <2>4. /\ Len(said) > 0 /\ said[Len(said)] = call
        /\ \A i \in 1..(Len(said) - 1) : said[i].batch # batches'
    BY <1>5, <2>3
  <2> QED BY <2>1, <2>4 DEF call
<1>12. Snapshots'
  <2>1. comp.pc # "archive"
    BY <1>1, <1>2 DEF Snapshots
  <2>2. broken \subseteq broken'
    BY <1>2
  <2> QED BY <1>1, <1>2, <2>1, <2>2, SnapshotsMore
<1>13. ExchangesWhole'
  BY <1>10 DEF ExchangesWhole, B
<1> QED BY <1>2, <1>10, <1>11, <1>12, <1>13 DEF AgentInv

LEMMA RunCallKeeps ==
  ASSUME AgentInv, NEW c \in Calls, RunCall(c)
  PROVE  AgentInv'
<1>1. LoopTypes /\ Snapshots /\ InProgress /\ Known(messages, batches)
  BY DEF AgentInv
<1>2. /\ LoopTypes'
      /\ In({"tools"}) /\ UNCHANGED <<messages, comp, batches>>
      /\ broken' \in {broken, broken \cup {batches}}
      /\ \/ ask'.pc = "idle" /\ ask'.next = <<>> /\ broken' = broken \cup {batches}
         \/ /\ ask'.pc = "tools" /\ ask'.next = ask.next
            /\ \/ broken' = broken \cup {batches}
               \/ ask'.results + Len(ask'.todo) = ask.results + Len(ask.todo)
  BY <1>1, RunCallTypes
<1>3. ask.pc = "tools" /\ broken \subseteq broken'
  BY <1>2 DEF In
<1>4. ExchangesWhole'
  <2>1. broken \cup {batches} \subseteq broken' \cup Open'
    BY <1>2, <1>3 DEF Open
  <2> QED BY <1>2, <2>1, KeptButLast DEF ExchangesWhole
<1>5. Snapshots'
  <2>1. comp.pc # "archive"
    BY <1>1, <1>3 DEF Snapshots
  <2>2. ask'.next \in {ask.next, <<>>}
    BY <1>2
  <2> QED BY <1>1, <1>2, <1>3, <2>1, <2>2, SnapshotsMore
<1>6. InProgress'
  BY <1>1, <1>2, <1>3 DEF InProgress
<1> QED BY <1>1, <1>2, <1>4, <1>5, <1>6 DEF AgentInv

LEMMA LateAbortKeeps ==
  ASSUME AgentInv, LateAbort
  PROVE  AgentInv'
<1>1. LoopTypes /\ Snapshots /\ Known(messages, batches)
  BY DEF AgentInv
<1>2. /\ LoopTypes' /\ UNCHANGED <<messages, comp, batches>>
      /\ ask.pc = "tools" /\ ask'.pc = "idle" /\ ask'.next = <<>>
      /\ broken' = broken \cup {batches}
  BY <1>1, LateAbortTypes
<1>3. ExchangesWhole'
  <2>1. broken \cup {batches} \subseteq broken' \cup Open'
    BY <1>2
  <2> QED BY <1>2, <2>1, KeptButLast DEF ExchangesWhole
<1>4. Snapshots'
  <2>1. broken \subseteq broken' /\ ask'.next \in {ask.next, <<>>}
    BY <1>2
  <2> QED BY <1>1, <1>2, <2>1, SnapshotsMore
<1> QED BY <1>1, <1>2, <1>3, <1>4 DEF AgentInv, InProgress
\* The results join the conversation right behind the message that asked for them.
LEMMA ResultsAnswer ==
  ASSUME NEW h \in Seq(Message), NEW B, NEW b \in Nat, NEW n \in Nat,
         Answers(h, B \cup {b}),
         b \notin B => /\ Len(h) > 0 /\ h[Len(h)] = CallMsg(b, n)
                       /\ \A i \in 1..(Len(h) - 1) : h[i].batch # b
  PROVE  Answers(h \o ResultMsgs(b, n), B)
<1> DEFINE R == ResultMsgs(b, n)
           g == h \o R
           L == Len(h)
<1>1. /\ R \in Seq(Message) /\ Len(R) = n
      /\ \A k \in 1..n : R[k].batch = b /\ IsResult(R[k])
  BY MessageTypes DEF ResultMsgs, Msg, IsResult
<1> HIDE DEF R
<1>2. /\ g \in Seq(Message) /\ Len(g) = L + n /\ L \in Nat
      /\ DOMAIN g = 1..(L + n) /\ DOMAIN h = 1..L
      /\ \A i \in 1..L : g[i] = h[i]
      /\ \A k \in 1..n : g[L + k] = R[k]
  BY <1>1
<1> HIDE DEF g
<1>3. ASSUME NEW k \in 1..n
      PROVE  g[L + k].batch = b /\ IsResult(g[L + k]) /\ L + k \in 1..(L + n)
  <2>1. g[L + k] = R[k] /\ R[k].batch = b /\ IsResult(R[k])
    BY <1>1, <1>2
  <2>2. L + k \in 1..(L + n)
    BY <1>2
  <2> QED BY <2>1, <2>2
<1>4. \A i \in (L + 1)..(L + n) : i - L \in 1..n /\ i = L + (i - L)
  BY <1>2
<1>5. ASSUME NEW i \in (L + 1)..Len(g) PROVE g[i].batch = b /\ IsResult(g[i])
  <2>1. i - L \in 1..n /\ i = L + (i - L)
    BY <1>2, <1>4
  <2>2. g[L + (i - L)].batch = b /\ IsResult(g[L + (i - L)])
    BY <1>3, <2>1
  <2> QED BY <2>1, <2>2
<1>6. Answers(g, B \cup {b})
  <2>1. Len(h) <= Len(g)
    BY <1>2
  <2>2. \A i \in (Len(h) + 1)..Len(g) :
          g[i].batch \in B \cup {b} \/ ~(IsCaller(g[i]) \/ IsResult(g[i]))
    BY <1>5
  <2> QED BY <1>2, <2>1, <2>2, LongerAnswers
<1>7. CASE b \in B
  <2>1. B \cup {b} = B
    BY <1>7
  <2> QED BY <1>6, <2>1 DEF g, R
<1>8. CASE b \notin B
  <2>1. L > 0 /\ g[L] = CallMsg(b, n) /\ \A i \in 1..(L - 1) : g[i].batch # b
    BY <1>2, <1>8
  <2>2. ~IsResult(g[L]) /\ g[L].calls = n /\ g[L].batch = b /\ (n > 0 => IsCaller(g[L]))
    BY <2>1 DEF CallMsg, Msg, IsResult, IsCaller
  <2>3. ASSUME NEW i \in DOMAIN g, g[i].batch \notin B
        PROVE  /\ IsCaller(g[i]) =>
                    \A k \in 1..g[i].calls :
                      i + k \in DOMAIN g /\ IsResult(g[i + k]) /\ g[i + k].batch = g[i].batch
               /\ IsResult(g[i]) =>
                    \E c \in DOMAIN g : Follows(g, c, i) /\ g[c].batch = g[i].batch
    <3>1. CASE g[i].batch # b
      <4>1. g[i].batch \notin B \cup {b}
        BY <2>3, <3>1
      <4> QED BY <1>6, <4>1 DEF Answers
    <3>2. CASE g[i].batch = b
      <4>1. i \in 1..(L - 1) \/ i = L \/ i \in (L + 1)..(L + n)
        BY <1>2
      <4>2. CASE i = L
        BY <1>2, <1>3, <2>2, <4>2
      <4>3. CASE i \in (L + 1)..(L + n)
        <5>1. IsResult(g[i]) /\ ~IsCaller(g[i])
          BY <1>2, <1>5, <4>3 DEF IsResult, IsCaller
        <5>2. L \in DOMAIN g /\ L < i /\ n > 0
          BY <1>2, <2>1, <4>3
        <5>3. ASSUME NEW k \in DOMAIN g, L < k PROVE IsResult(g[k])
          <6>1. k \in (L + 1)..Len(g)
            BY <1>2, <5>3
          <6> QED BY <1>5, <6>1
        <5>4. Follows(g, L, i)
          BY <2>2, <5>2, <5>3 DEF Follows
        <5> QED BY <2>2, <3>2, <5>1, <5>2, <5>4
      <4> QED BY <2>1, <3>2, <4>1, <4>2, <4>3
    <3> QED BY <3>1, <3>2
  <2>4. Answers(g, B)
    BY <2>3 DEF Answers
  <2> QED BY <2>4 DEF g, R
<1> QED BY <1>7, <1>8

LEMMA ToolsDoneKeeps ==
  ASSUME AgentInv, ToolsDone
  PROVE  AgentInv'
<1> DEFINE R == ResultMsgs(batches, ask.results)
           g == messages \o R
<1>1. /\ LoopTypes /\ Snapshots /\ InProgress /\ Known(messages, batches)
      /\ messages \in Seq(Message) /\ batches \in Nat /\ ask.results \in Nat
  BY DEF AgentInv, LoopTypes, AskType
<1>2. /\ LoopTypes' /\ UNCHANGED <<comp, batches, broken>>
      /\ ask.pc = "tools" /\ ask.todo = <<>> /\ ask'.pc = "turn" /\ ask'.next = ask.next
  BY <1>1, ToolsDoneTypes
<1>3. PICK tail \in Tails : messages' = g \o tail
  BY <1>1, ToolsDoneTypes
<1>4. Answers(messages, broken \cup {batches})
  BY KeptButLast
<1>5. batches \notin broken =>
        /\ Len(messages) > 0 /\ messages[Len(messages)] = CallMsg(batches, ask.results)
        /\ \A i \in 1..(Len(messages) - 1) : messages[i].batch # batches
  <2>1. ask.results + Len(ask.todo) = ask.results
    BY <1>1, <1>2
  <2> QED BY <1>1, <1>2, <2>1 DEF InProgress
<1>6. Answers(g, broken)
  BY <1>1, <1>4, <1>5, ResultsAnswer
<1>7. g \in Seq(Message) /\ Known(g, batches)
  <2>1. R \in Seq(Message) /\ \A k \in DOMAIN R : R[k].batch = batches
    BY <1>1, MessageTypes DEF ResultMsgs, Msg
  <2> HIDE DEF R
  <2>2. g \in Seq(Message) /\ \A i \in DOMAIN g :
          \/ i \in DOMAIN messages /\ g[i] = messages[i]
          \/ i - Len(messages) \in DOMAIN R /\ g[i] = R[i - Len(messages)]
    BY <1>1, <2>1
  <2>3. batches <= batches
    BY <1>1
  <2> HIDE DEF g
  <2> QED BY <1>1, <2>1, <2>2, <2>3 DEF Known
<1> HIDE DEF g
<1>8. Kept(g) /\ Kept(ask'.next) /\ Kept(comp'.next) /\ comp'.pc # "archive" /\ ask'.pc # "tools"
  BY <1>1, <1>2, <1>6, <1>7 DEF Kept, Snapshots
<1> QED BY <1>2, <1>3, <1>7, <1>8, GoesOn

-----------------------------------------------------------------------------
(* The theorems *)

LEMMA StutterKeeps ==
  ASSUME AgentInv, UNCHANGED vars
  PROVE  AgentInv'
<1>1. LoopTypes'
  BY DEF AgentInv, LoopTypes, vars
<1>2. ExchangesWhole' /\ Known(messages', batches')
  BY DEF AgentInv, ExchangesWhole, Open, vars
<1>3. Snapshots' /\ InProgress'
  BY DEF AgentInv, Snapshots, Kept, InProgress, vars
<1> QED BY <1>1, <1>2, <1>3 DEF AgentInv

\* At every await of the loop the conversation, and each snapshot that waits to be
\* installed, keeps the contract up to the exchange in progress, whose results are counted.
THEOREM AgentInvariant ==
  ASSUME Alone
  PROVE  Spec => []AgentInv
<1>1. Init => AgentInv
  <2> SUFFICES ASSUME Init PROVE AgentInv
    OBVIOUS
  <2> DEFINE first == <<Note("system")>>
  <2>1. LoopTypes
    BY TypesInit
  <2>2. /\ messages = first /\ ask.pc = "idle" /\ comp.pc = "free" /\ batches = 0
        /\ ask.next = <<>> /\ comp.next = <<>>
    BY IdleTypes, FreeTypes DEF Init
  <2>3. <<>> \in Seq(Message) /\ first \in Tails /\ <<>> \o first = first
    BY TailsAre
  <2>4. Kept(<<>>) /\ batches \in Nat
    BY <2>2, EmptyIsKept
  <2> HIDE DEF first
  <2>5. Kept(messages)
    BY <2>2, <2>3, <2>4, TailIsKept DEF Kept
  <2>6. ExchangesWhole
    <3>1. broken \cup {} = broken
      OBVIOUS
    <3> QED BY <2>2, <2>5, <3>1 DEF ExchangesWhole, Open, Kept
  <2>7. Snapshots /\ InProgress
    BY <2>2, <2>4 DEF Snapshots, InProgress
  <2> QED BY <2>1, <2>5, <2>6, <2>7 DEF AgentInv, Kept
<1>2. AgentInv /\ [Next]_vars => AgentInv'
  <2> SUFFICES ASSUME AgentInv, [Next]_vars PROVE AgentInv'
    OBVIOUS
  <2>1. CASE Says
    BY <2>1, SaysKeep
  <2>2. CASE Turn
    BY <2>2, TurnKeeps
  <2>3. CASE Archived
    BY <2>3, ArchivedKeeps
  <2>4. CASE \E sent \in Batches : ToolCalls(sent)
    BY <2>4, ToolCallsKeep
  <2>5. CASE \E c \in Calls : RunCall(c)
    BY <2>5, RunCallKeeps
  <2>6. CASE ToolsDone
    BY <2>6, ToolsDoneKeeps
  <2>7. CASE LateAbort
    BY <2>7, LateAbortKeeps
  <2>8. CASE Compaction
    BY <2>8, CompactionKeeps
  <2>9. CASE Reset
    BY <2>9, ResetKeeps
  <2>10. CASE \E mode \in Modes : CompactHistory(mode)
    BY <2>10, CompactKeeps
  <2>11. CASE UNCHANGED vars
    BY <2>11, StutterKeeps
  <2> QED BY <2>1, <2>2, <2>3, <2>4, <2>5, <2>6, <2>7, <2>8, <2>9, <2>10, <2>11
         DEF Next, AskStep, Says
<1> QED BY <1>1, <1>2, PTL DEF Spec

\* The contract of the API (agent.ts sends the conversation with every request): no tool
\* call without its results, no result without its call, however often the budget drops
\* messages, compactHistory splices, or tools fail and are aborted.
THEOREM ExchangesAreWhole ==
  ASSUME Alone
  PROVE  Spec => []ExchangesWhole
<1>1. Spec => []AgentInv
  BY AgentInvariant
<1>2. AgentInv => ExchangesWhole
  BY DEF AgentInv
<1> QED BY <1>1, <1>2, PTL
=============================================================================

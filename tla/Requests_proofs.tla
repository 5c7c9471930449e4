--------------------------- MODULE Requests_proofs --------------------------
(***************************************************************************)
(* What a request to the model carries (ContextBudget) and how it gets to  *)
(* the server and back (ModelClient): for every set of well-formed         *)
(* conversations, whatever the context window and the tails; and for every *)
(* conversation, event stream, number of attempts and behaviour of the     *)
(* server.                                                                 *)
(***************************************************************************)
EXTENDS ContextBudget, ModelClient, FiniteSetTheorems, WellFoundedInduction, TLAPS

-----------------------------------------------------------------------------
(* The budget: what the loops keep *)

\* Once the loop over single messages runs, no message it may take belongs to an
\* exchange: the loop over groups ended for want of one, or for want of a need.
NoExchangeDroppable ==
  phase = "singles" /\ Over(history, kept, minTail, Limit) =>
    \A i \in Droppable(history, kept, minTail) : ~IsCaller(history[i]) /\ ~IsResult(history[i])

Given == history \in Inputs /\ minTail \in Nat

\* The inductive invariant.
IInv == TypeOK /\ Given /\ AnswerKept /\ PairsKept /\ NoExchangeDroppable

-----------------------------------------------------------------------------
(* Facts about positions *)

\* A set of positions that is not empty has a least one.
LEMMA LeastPosition ==
  ASSUME NEW S \in SUBSET Nat, S # {}
  PROVE  \E i \in S : \A j \in S : i <= j
<1>1. PICK i \in S : \A j \in S : ~(<<j, i>> \in OpToRel(<, Nat))
  BY NatLessThanWellFounded, WFMin
<1>2. \A j \in S : ~(j < i)
  BY <1>1 DEF OpToRel
<1>3. QED
  BY <1>2

\* Later positions, and fewer positions, have no more positions after them.
LEMMA FromShrinks ==
  ASSUME NEW n \in Nat, NEW K \in SUBSET (1..n), NEW L \in SUBSET K,
         NEW i \in 1..n, NEW j \in 1..n, i <= j
  PROVE  /\ Cardinality(From(K, i)) \in Nat
         /\ Cardinality(From(L, j)) \in Nat
         /\ Cardinality(From(L, j)) <= Cardinality(From(K, i))
<1>1. IsFiniteSet(1..n)
  BY FS_Interval
<1>2. IsFiniteSet(From(K, i))
  BY <1>1, FS_Subset DEF From
<1>3. From(L, j) \in SUBSET From(K, i)
  <2>1. ASSUME NEW x \in From(L, j) PROVE x \in From(K, i)
    <3>1. x \in L /\ x >= j /\ x \in K /\ x \in 1..n
      BY DEF From
    <3>2. x >= i
      BY <3>1
    <3>3. QED
      BY <3>1, <3>2 DEF From
  <2>2. QED
    BY <2>1
<1>4. QED
  BY <1>2, <1>3, FS_Subset, FS_CardinalityType

-----------------------------------------------------------------------------
(* Facts about exchanges, for a conversation h of which K is left *)

\* The positions of K hold every exchange of h whole or not at all.
Whole(h, K) ==
  \A i, c \in DOMAIN h : IsResult(h[i]) /\ Follows(h, c, i) => (c \in K <=> i \in K)

\* The loop over groups never falls back on a result without its call.
LEMMA StartsAreCalls ==
  ASSUME NEW h \in Seq(Message), WellFormed(h), NEW K \in SUBSET DOMAIN h, Whole(h, K),
         NEW m \in Nat, NEW i \in GroupStarts(h, K, m)
  PROVE  IsCaller(h[i])
<1> DEFINE open == Droppable(h, K, m) \ Protected(h)
<1>1. SUFFICES ASSUME \A j \in open : ~IsCaller(h[j])
               PROVE  FALSE
  BY DEF GroupStarts
<1>2. i \in open /\ IsResult(h[i])
  BY <1>1 DEF GroupStarts
<1>3. i \in K /\ i \in DOMAIN h /\ Cardinality(From(K, i)) > m
  BY <1>2 DEF Droppable
<1>4. PICK c \in DOMAIN h : Follows(h, c, i)
  BY <1>2, <1>3 DEF WellFormed
<1>5. c \in K /\ IsCaller(h[c]) /\ c <= i
  BY <1>2, <1>3, <1>4 DEF Whole, Follows
<1>6. DOMAIN h = 1..Len(h) /\ Len(h) \in Nat
  OBVIOUS
<1>7. Cardinality(From(K, c)) > m
  BY <1>3, <1>5, <1>6, FromShrinks
<1>8. c \notin Sys(h) /\ c \notin Protected(h)
  BY <1>5, <1>6 DEF Sys, Protected, IsCaller, IsAnswer
<1>9. QED
  BY <1>1, <1>5, <1>7, <1>8 DEF Droppable

\* Dropping the group of a call drops its exchange and nothing else.
LEMMA GroupIsExchange ==
  ASSUME NEW h \in Seq(Message), NEW K \in SUBSET DOMAIN h, Whole(h, K),
         NEW i \in K, IsCaller(h[i])
  PROVE  Whole(h, K \ Group(h, K, i))
<1> DEFINE G == Group(h, K, i)
<1>1. SUFFICES ASSUME NEW t \in DOMAIN h, NEW c \in DOMAIN h,
                      IsResult(h[t]), Follows(h, c, t), c \in K, t \in K
               PROVE  c \in G <=> t \in G
  BY DEF Whole
<1>2. DOMAIN h = 1..Len(h) /\ Len(h) \in Nat
  OBVIOUS
<1>3. c < t /\ IsCaller(h[c]) /\ \A k \in DOMAIN h : c < k /\ k <= t => IsResult(h[k])
  BY <1>1 DEF Follows
<1>4. \A j \in DOMAIN h : ~(IsCaller(h[j]) /\ IsResult(h[j]))
  BY DEF IsCaller, IsResult
<1>5. ASSUME c \in G PROVE t \in G
  <2>1. c = i
    BY <1>2, <1>3, <1>4, <1>5 DEF Group, From
  <2>2. QED
    BY <1>1, <1>2, <1>3, <2>1 DEF Group, From
<1>6. ASSUME t \in G PROVE c \in G
  <2>1. i <= t /\ \A k \in K : i < k /\ k <= t => IsResult(h[k])
    BY <1>2, <1>6 DEF Group, From
  <2>2. ~(i < c)
    BY <1>1, <1>2, <1>3, <1>4, <2>1
  <2>3. ~(c < i)
    BY <1>2, <1>3, <1>4, <2>1
  <2>4. c = i
    BY <1>2, <2>2, <2>3
  <2>5. QED
    BY <1>2, <2>4 DEF Group, From
<1>7. QED
  BY <1>5, <1>6

\* The oldest message left is one of the droppable ones while the loops go on.
LEMMA OldestIsDroppable ==
  ASSUME NEW h \in Seq(Message), NEW K \in SUBSET DOMAIN h, NEW m \in Nat,
         Cardinality(K \ Sys(h)) > m, NEW d \in Oldest(h, K)
  PROVE  d \in Droppable(h, K, m)
<1>1. DOMAIN h = 1..Len(h) /\ Len(h) \in Nat
  OBVIOUS
<1>2. IsFiniteSet(From(K, d))
  <2>1. IsFiniteSet(1..Len(h))
    BY <1>1, FS_Interval
  <2>2. From(K, d) \in SUBSET (1..Len(h))
    BY <1>1 DEF From
  <2>3. QED
    BY <2>1, <2>2, FS_Subset
<1>3. d \in K \ Sys(h) /\ K \ Sys(h) \in SUBSET From(K, d)
  BY <1>1 DEF Oldest, From
<1>4. /\ Cardinality(K \ Sys(h)) \in Nat
      /\ Cardinality(From(K, d)) \in Nat
      /\ Cardinality(K \ Sys(h)) <= Cardinality(From(K, d))
  BY <1>2, <1>3, FS_Subset, FS_CardinalityType
<1>5. QED
  BY <1>3, <1>4 DEF Droppable

\* Neither loop takes the system prompt or the protected answer.
LEMMA GroupSparesAnswer ==
  ASSUME NEW h \in Seq(Message), NEW K \in SUBSET DOMAIN h, NEW m \in Nat,
         NEW i \in GroupStarts(h, K, m)
  PROVE  Group(h, K, i) \cap (Protected(h) \cup Sys(h)) = {}
<1>1. DOMAIN h = 1..Len(h) /\ Len(h) \in Nat
  OBVIOUS
<1>2. i \in K /\ i \notin Protected(h) /\ i \notin Sys(h)
  BY DEF GroupStarts, Droppable
<1>3. \A j \in Group(h, K, i) : j = i \/ IsResult(h[j])
  BY <1>1, <1>2 DEF Group, From
<1>4. \A j \in Protected(h) \cup Sys(h) : ~IsResult(h[j])
  BY <1>1 DEF Protected, Sys, IsAnswer, IsResult
<1>5. QED
  BY <1>2, <1>3, <1>4

-----------------------------------------------------------------------------
(* The invariant *)

LEMMA InitInv == Init => IInv
<1> SUFFICES ASSUME Init PROVE IInv
  OBVIOUS
<1>1. TypeOK /\ Given
  BY BudgetAssumption DEF Init, TypeOK, Given, IsHistory, ForcedTail
<1>2. AnswerKept
  BY DEF Init, AnswerKept, Protected, Sys
<1>3. PairsKept
  BY DEF Init, PairsKept
<1>4. NoExchangeDroppable
  BY DEF Init, NoExchangeDroppable
<1>5. QED
  BY <1>1, <1>2, <1>3, <1>4 DEF IInv

LEMMA NextInv == IInv /\ [Next]_vars => IInv'
<1> SUFFICES ASSUME IInv, [Next]_vars PROVE IInv'
  OBVIOUS
<1> USE DEF IInv
<1>1. /\ history \in Seq(Message) /\ WellFormed(history) /\ minTail \in Nat
      /\ kept \in SUBSET DOMAIN history /\ Whole(history, kept)
  BY BudgetAssumption DEF TypeOK, Given, PairsKept, Whole
<1>2. CASE Start
  BY <1>2 DEF Start, TypeOK, Given, AnswerKept, PairsKept, NoExchangeDroppable
<1>3. CASE DropGroup
  <2>1. PICK i \in GroupStarts(history, kept, minTail) :
          kept' = kept \ Group(history, kept, i)
    BY <1>3 DEF DropGroup
  <2>2. UNCHANGED <<history, minTail, force, phase>> /\ phase = "groups"
    BY <1>3 DEF DropGroup
  <2>3. TypeOK' /\ Given' /\ NoExchangeDroppable'
    BY <2>1, <2>2 DEF TypeOK, Given, NoExchangeDroppable
  <2>4. AnswerKept'
    BY <1>1, <2>1, <2>2, GroupSparesAnswer DEF AnswerKept
  <2>5. i \in kept /\ IsCaller(history[i])
    BY <1>1, <2>1, StartsAreCalls DEF GroupStarts, Droppable
  <2>6. Whole(history, kept')
    BY <1>1, <2>1, <2>5, GroupIsExchange
  <2>7. PairsKept'
    BY <2>2, <2>6 DEF PairsKept, Whole
  <2>8. QED
    BY <2>3, <2>4, <2>7
<1>4. CASE NoMoreGroups
  <2>1. UNCHANGED <<history, minTail, force, kept>> /\ phase' = "singles" /\ ~CanDropGroup
    BY <1>4 DEF NoMoreGroups
  <2>2. TypeOK' /\ Given' /\ AnswerKept' /\ PairsKept'
    BY <2>1 DEF TypeOK, Given, AnswerKept, PairsKept
  <2>3. ASSUME Over(history, kept, minTail, Limit),
               NEW i \in Droppable(history, kept, minTail)
        PROVE  ~IsCaller(history[i]) /\ ~IsResult(history[i])
    <3> DEFINE open == Droppable(history, kept, minTail) \ Protected(history)
               callers == {j \in open : IsCaller(history[j])}
               starts == IF callers # {} THEN callers ELSE {j \in open : IsResult(history[j])}
    <3>1. GroupStarts(history, kept, minTail) = {}
      BY <2>1, <2>3 DEF CanDropGroup
    <3>2. starts \in SUBSET Nat
      BY <1>1 DEF Droppable
    <3>3. starts = {}
      <4>1. ASSUME starts # {} PROVE FALSE
        <5>1. \E j \in starts : \A k \in starts : j <= k
          BY <3>2, <4>1, LeastPosition
        <5>2. QED
          BY <3>1, <5>1 DEF GroupStarts
      <4>2. QED
        BY <4>1
    <3>4. CASE i \in Protected(history)
      BY <3>4 DEF Protected, IsAnswer, IsCaller, IsResult
    <3>5. CASE i \notin Protected(history)
      BY <2>3, <3>3, <3>5
    <3>6. QED
      BY <3>4, <3>5
  <2>4. NoExchangeDroppable'
    BY <2>1, <2>3 DEF NoExchangeDroppable, Limit
  <2>5. QED
    BY <2>2, <2>4
<1>5. CASE DropOldest
  <2>1. /\ UNCHANGED <<history, minTail, force, phase>> /\ phase = "singles"
        /\ kept' = kept \ Oldest(history, kept)
        /\ Over(history, kept, minTail, Limit)
    BY <1>5 DEF DropOldest, CanDropOldest
  <2>2. TypeOK' /\ Given'
    BY <2>1 DEF TypeOK, Given
  <2>3. AnswerKept'
    BY <2>1 DEF AnswerKept, Oldest
  <2>4. \A d \in Oldest(history, kept) : ~IsCaller(history[d]) /\ ~IsResult(history[d])
    BY <1>1, <2>1, OldestIsDroppable DEF NoExchangeDroppable, Over
  <2>5. PairsKept'
    BY <2>1, <2>4 DEF PairsKept, Follows
  <2>6. Droppable(history, kept', minTail) \subseteq Droppable(history, kept, minTail)
    <3>1. SUFFICES ASSUME NEW i \in Droppable(history, kept', minTail)
                   PROVE  Cardinality(From(kept, i)) > minTail
      BY <2>1 DEF Droppable
    <3>2. i \in kept' /\ Cardinality(From(kept', i)) > minTail
      BY DEF Droppable
    <3>3. DOMAIN history = 1..Len(history) /\ Len(history) \in Nat
      BY <1>1
    <3>4. QED
      BY <1>1, <2>1, <3>2, <3>3, FromShrinks
  <2>7. NoExchangeDroppable'
    BY <2>1, <2>6 DEF NoExchangeDroppable
  <2>8. QED
    BY <2>2, <2>3, <2>5, <2>7
<1>6. CASE Return
  BY <1>6 DEF Return, TypeOK, Given, AnswerKept, PairsKept, NoExchangeDroppable
<1>7. CASE UNCHANGED vars
  BY <1>7 DEF vars, TypeOK, Given, AnswerKept, PairsKept, NoExchangeDroppable, Limit
<1>8. QED
  BY <1>2, <1>3, <1>4, <1>5, <1>6, <1>7 DEF Next

\* The types of the state, and the inductive invariant, in every behaviour.
THEOREM BudgetInvariant == Spec => []IInv
BY InitInv, NextInv, PTL DEF Spec

\* The positions left are positions of the conversation, at every iteration.
THEOREM BudgetTypes == Spec => []TypeOK
<1>1. IInv => TypeOK
  BY DEF IInv
<1>2. QED
  BY <1>1, BudgetInvariant, PTL

\* No iteration of either loop parts a tool result from its call.
THEOREM PairsAreKept == Spec => []PairsKept
<1>1. IInv => PairsKept
  BY DEF IInv
<1>2. QED
  BY <1>1, BudgetInvariant, PTL

\* The system prompt and the last real answer survive any compaction.
THEOREM AnswerIsKept == Spec => []AnswerKept
<1>1. IInv => AnswerKept
  BY DEF IInv
<1>2. QED
  BY <1>1, BudgetInvariant, PTL

-----------------------------------------------------------------------------
(* The loops as recursive functions *)

\* f is a loop on S that goes from K to next[K] as long as K is in C. There is one.
IsLoop(f, S, C, next) ==
  f = [K \in S |-> f[K]] /\ \A K \in S : f[K] = IF K \in C THEN f[next[K]] ELSE K

LEMMA LoopExists ==
  ASSUME NEW S, NEW C \in SUBSET S, NEW next \in [S -> S]
  PROVE  \E f : IsLoop(f, S, C, next)
<1> DEFINE Closed(Z)  == \A K \in Z : K \in C => next[K] \in Z
           Ends(K) == {L \in S \ C : \A Z \in SUBSET S : K \in Z /\ Closed(Z) => L \in Z}
           g == [K \in S |-> CHOOSE L : L \in Ends(K)]
<1>1. ASSUME NEW K \in C PROVE Ends(K) = Ends(next[K])
  <2>1. ASSUME NEW L \in Ends(K) PROVE L \in Ends(next[K])
    <3>1. SUFFICES ASSUME NEW Z \in SUBSET S, next[K] \in Z, Closed(Z) PROVE L \in Z
      OBVIOUS
    <3>2. Z \cup {K} \in SUBSET S /\ Closed(Z \cup {K})
      BY <3>1
    <3>3. L \in Z \cup {K} /\ L # K
      BY <3>2
    <3> QED BY <3>3
  <2>2. ASSUME NEW L \in Ends(next[K]) PROVE L \in Ends(K)
    <3>1. SUFFICES ASSUME NEW Z \in SUBSET S, K \in Z, Closed(Z) PROVE L \in Z
      OBVIOUS
    <3>2. next[K] \in Z
      BY <3>1
    <3> QED BY <3>1, <3>2
  <2> QED BY <2>1, <2>2
<1>2. ASSUME NEW K \in S \ C PROVE Ends(K) = {K}
  <2>1. {K} \in SUBSET S /\ Closed({K})
    BY <1>2
  <2>2. \A L \in Ends(K) : L = K
    BY <2>1
  <2>3. K \in Ends(K)
    BY <1>2
  <2> QED BY <2>2, <2>3
<1> HIDE DEF Ends
<1>3. ASSUME NEW K \in S PROVE g[K] = IF K \in C THEN g[next[K]] ELSE K
  <2>1. CASE K \in C
    <3>1. g[K] = (CHOOSE L : L \in Ends(K)) /\ g[next[K]] = (CHOOSE L : L \in Ends(next[K]))
      OBVIOUS
    <3> QED BY <1>1, <2>1, <3>1
  <2>2. CASE K \notin C
    <3>1. g[K] = CHOOSE L : L \in {K}
      BY <1>2, <2>2
    <3> QED BY <2>2, <3>1
  <2> QED BY <2>1, <2>2
<1>4. g = [K \in S |-> g[K]]
  OBVIOUS
<1> HIDE DEF g
<1> QED BY <1>3, <1>4 DEF IsLoop

\* The conditions of the two loops, and what the first one leaves after one iteration.
GroupToDrop(h, K, m, t) == Over(h, K, m, t) /\ GroupStarts(h, K, m) # {}
OneToDrop(h, K, m, t) == Over(h, K, m, t) /\ Oldest(h, K) # {}
WithoutFirst(h, K, m) == K \ Group(h, K, Min(GroupStarts(h, K, m)))

\* The loop over groups, unfolded once.
LEMMA GroupsUnfold ==
  ASSUME NEW h \in Seq(Message), NEW m, NEW t, NEW K \in SUBSET DOMAIN h
  PROVE  WithoutGroups(h, m, t)[K] =
           IF GroupToDrop(h, K, m, t)
           THEN WithoutGroups(h, m, t)[WithoutFirst(h, K, m)] ELSE K
<1> DEFINE S    == SUBSET DOMAIN h
           C    == {L \in S : GroupToDrop(h, L, m, t)}
           next == [L \in S |-> WithoutFirst(h, L, m)]
           Loops(f) == f = [L \in S |-> IF GroupToDrop(h, L, m, t)
                                        THEN f[WithoutFirst(h, L, m)] ELSE L]
<1>1. C \in SUBSET S /\ next \in [S -> S]
  BY DEF WithoutFirst
<1>2. \E f : Loops(f)
  <2> HIDE DEF C, next, S
  <2>1. PICK f : IsLoop(f, S, C, next)
    BY <1>1, LoopExists
  <2> USE DEF C, next, S
  <2>2. Loops(f)
    BY <2>1 DEF IsLoop
  <2> QED BY <2>2
<1>3. WithoutGroups(h, m, t) = CHOOSE f : Loops(f)
  BY DEF WithoutGroups, GroupToDrop, WithoutFirst
<1>4. Loops(WithoutGroups(h, m, t))
  <2> HIDE DEF Loops
  <2> QED BY <1>2, <1>3
<1> QED BY <1>4

\* The loop over single messages, unfolded once.
LEMMA OldestUnfold ==
  ASSUME NEW h \in Seq(Message), NEW m, NEW t, NEW K \in SUBSET DOMAIN h
  PROVE  WithoutOldest(h, m, t)[K] =
           IF OneToDrop(h, K, m, t)
           THEN WithoutOldest(h, m, t)[K \ Oldest(h, K)] ELSE K
<1> DEFINE S    == SUBSET DOMAIN h
           C    == {L \in S : OneToDrop(h, L, m, t)}
           next == [L \in S |-> L \ Oldest(h, L)]
           Loops(f) == f = [L \in S |-> IF OneToDrop(h, L, m, t)
                                        THEN f[L \ Oldest(h, L)] ELSE L]
<1>1. C \in SUBSET S /\ next \in [S -> S]
  OBVIOUS
<1>2. \E f : Loops(f)
  <2> HIDE DEF C, next, S
  <2>1. PICK f : IsLoop(f, S, C, next)
    BY <1>1, LoopExists
  <2> USE DEF C, next, S
  <2>2. Loops(f)
    BY <2>1 DEF IsLoop
  <2> QED BY <2>2
<1>3. WithoutOldest(h, m, t) = CHOOSE f : Loops(f)
  BY DEF WithoutOldest, OneToDrop
<1>4. Loops(WithoutOldest(h, m, t))
  <2> HIDE DEF Loops
  <2> QED BY <1>2, <1>3
<1> QED BY <1>4

\* What is left to do leads to what the whole function gives.
Groups == WithoutGroups(history, minTail, Limit)
Singles == WithoutOldest(history, minTail, Limit)
Needed == force \/ ~(Tokens(history) <= Limit)

LoopInv ==
  /\ history \in Seq(Message) /\ kept \in SUBSET DOMAIN history
  /\ phase = "start" => kept = DOMAIN history
  /\ phase = "groups" => Needed /\ Groups[kept] = Groups[DOMAIN history]
  /\ phase = "singles" => Needed /\ Singles[kept] = Singles[Groups[DOMAIN history]]
  /\ phase = "done" => kept = Enforced(history, minTail, Limit, force)

LEMMA LoopInvNext == LoopInv /\ [Next]_vars => LoopInv'
<1> SUFFICES ASSUME LoopInv, [Next]_vars PROVE LoopInv'
  OBVIOUS
<1>1. history \in Seq(Message) /\ kept \in SUBSET DOMAIN history
  BY DEF LoopInv
<1>2. history' = history /\ minTail' = minTail /\ force' = force
  BY DEF Next, Start, DropGroup, NoMoreGroups, DropOldest, Return, vars
<1>3. Limit' = Limit /\ Groups' = Groups /\ Singles' = Singles /\ Needed' = Needed
  BY <1>2 DEF Limit, Groups, Singles, Needed
<1>4. /\ Enforced(history, minTail, Limit, force)' = Enforced(history, minTail, Limit, force)
      /\ Enforced(history, minTail, Limit, force) =
           IF Needed THEN Singles[Groups[DOMAIN history]] ELSE DOMAIN history
  BY <1>2, <1>3 DEF Enforced, Needed, Singles, Groups
<1>5. /\ Groups[kept] = IF CanDropGroup
                        THEN Groups[kept \ Group(history, kept, Min(GroupStarts(history, kept, minTail)))]
                        ELSE kept
      /\ Singles[kept] = IF CanDropOldest THEN Singles[kept \ Oldest(history, kept)] ELSE kept
  <2>1. WithoutGroups(history, minTail, Limit)[kept] =
          IF GroupToDrop(history, kept, minTail, Limit)
          THEN WithoutGroups(history, minTail, Limit)[WithoutFirst(history, kept, minTail)]
          ELSE kept
    BY <1>1, GroupsUnfold
  <2>2. WithoutOldest(history, minTail, Limit)[kept] =
          IF OneToDrop(history, kept, minTail, Limit)
          THEN WithoutOldest(history, minTail, Limit)[kept \ Oldest(history, kept)] ELSE kept
    BY <1>1, OldestUnfold
  <2>3. /\ GroupToDrop(history, kept, minTail, Limit) <=> CanDropGroup
        /\ OneToDrop(history, kept, minTail, Limit) <=> CanDropOldest
    BY DEF GroupToDrop, OneToDrop, CanDropGroup, CanDropOldest
  <2> QED BY <2>1, <2>2, <2>3 DEF Groups, Singles, WithoutFirst
<1> HIDE DEF Groups, Singles, Needed, Enforced
<1>6. CASE Start
  BY <1>1, <1>2, <1>3, <1>4, <1>6 DEF Start, LoopInv, Needed
<1>7. CASE DropGroup
  <2>1. PICK i \in GroupStarts(history, kept, minTail) :
          kept' = kept \ Group(history, kept, i)
    BY <1>7 DEF DropGroup
  <2>2. Min(GroupStarts(history, kept, minTail)) = i
    <3> DEFINE G == GroupStarts(history, kept, minTail)
    <3>1. G \subseteq Int /\ \A j, k \in G : j <= k
      BY <1>1 DEF GroupStarts, Droppable
    <3>2. \A x : (x \in G /\ \A y \in G : x <= y) <=> x = i
      BY <3>1
    <3> HIDE DEF G
    <3>3. Min(G) = CHOOSE x : x \in G /\ \A y \in G : x <= y
      BY DEF Min
    <3>4. Min(G) = i
      BY <3>2, <3>3
    <3> QED BY <3>4 DEF G
  <2>3. phase = "groups" /\ phase' = "groups" /\ CanDropGroup
    BY <1>7 DEF DropGroup
  <2>4. Groups[kept'] = Groups[kept]
    BY <1>5, <2>1, <2>2, <2>3
  <2> QED BY <1>1, <1>2, <1>3, <2>1, <2>3, <2>4 DEF LoopInv
<1>8. CASE NoMoreGroups
  <2>1. phase = "groups" /\ phase' = "singles" /\ kept' = kept /\ Groups[kept] = kept
    BY <1>5, <1>8 DEF NoMoreGroups
  <2> QED BY <1>1, <1>2, <1>3, <2>1 DEF LoopInv
<1>9. CASE DropOldest
  <2>1. /\ phase = "singles" /\ phase' = "singles" /\ Singles[kept'] = Singles[kept]
        /\ kept' \in SUBSET DOMAIN history
    BY <1>1, <1>5, <1>9 DEF DropOldest
  <2> QED BY <1>1, <1>2, <1>3, <2>1 DEF LoopInv
<1>10. CASE Return
  <2>1. phase = "singles" /\ phase' = "done" /\ kept' = kept /\ Singles[kept] = kept
    BY <1>5, <1>10 DEF Return
  <2> QED BY <1>1, <1>2, <1>3, <1>4, <2>1 DEF LoopInv
<1>11. CASE UNCHANGED vars
  BY <1>1, <1>2, <1>3, <1>4, <1>11 DEF vars, LoopInv
<1> QED BY <1>6, <1>7, <1>8, <1>9, <1>10, <1>11 DEF Next

\* The two loops of enforceContextBudget, iteration by iteration, leave what the operator
\* Enforced says, which the model of the agent loop compacts its conversation with.
THEOREM LoopsGiveEnforced == Spec => []LoopsAgree
<1>1. Init => LoopInv
  BY BudgetAssumption DEF Init, LoopInv
<1>2. LoopInv => LoopsAgree
  BY DEF LoopInv, LoopsAgree
<1> QED BY <1>1, <1>2, LoopInvNext, PTL DEF Spec

-----------------------------------------------------------------------------
(* The client: what a body and an answer may be *)

Sending == {"delay", "fetch", "backoff"}
Told == {"none", "document", "whole", "ended", "cut"}

Answer == [kind : Told, tokens : Nat, args : [1..2 -> Seq(Nat)], named : SUBSET (1..2)]
Client == [contentMode : BOOLEAN, autoSwitches : Nat, hits : Nat, level : Nat,
           probed : BOOLEAN, samples : Nat, fallback : BOOLEAN]
Call ==
  [pc : Sending \cup {"idle", "body"}, mode : {"stream", "chat"}, attempt : Nat,
   body : {Body(TRUE), Body(FALSE)}, aborted : BOOLEAN, heard : BOOLEAN,
   seen : SUBSET Errors, switches : Nat, stream : Seq(Frame), read : Nat, shown : Nat,
   answer : Answer, failed : BOOLEAN]

\* What was read of a stream is in the answer so far.
Collects(c) ==
  \A i \in 1..2 :
    /\ Len(c.answer.args[i]) = Cardinality(Pieces(c, i))
    /\ \A k \in Pieces(c, i) : c.answer.args[i][Nth(c, i, k)] = c.stream[k].part
    /\ i \in c.answer.named <=> \E k \in Pieces(c, i) : c.stream[k].named

\* A call that is over has what the server sent.
Sent(c) ==
  /\ c.answer.tokens = c.shown
  /\ \A i \in 1..2 :
       IF \E k \in Pieces(c, i) : c.stream[k].named
       THEN /\ Len(c.answer.args[i]) = Cardinality(Pieces(c, i))
            /\ \A k \in Pieces(c, i) : c.answer.args[i][Nth(c, i, k)] = c.stream[k].part
       ELSE c.answer.args[i] = <<>>

Good(cl, c) ==
  /\ cl \in Client /\ c \in Call /\ c.read <= Len(c.stream)
  /\ c.pc \in Sending => c.body = Body(cl.contentMode)
  /\ c.pc \in Sending /\ c.mode = "stream" => c.answer = NoAnswer /\ c.shown = 0
  /\ c.pc # "idle" => c.answer.kind = "none"
  /\ c.pc = "body" /\ c.mode = "stream" => c.answer.tokens = c.shown /\ Collects(c)
  /\ c.pc = "idle" /\ c.answer.kind \in {"whole", "ended", "cut"} => Sent(c)

\* The inductive invariant.
ClientInv == Good(client, call) /\ calls \in Nat

-----------------------------------------------------------------------------

LEMMA NoAnswerTyped == NoAnswer \in Answer
BY DEF NoAnswer, Answer, Told

LEMMA BodyTyped == \A mode \in BOOLEAN : Body(mode) \in {Body(TRUE), Body(FALSE)}
OBVIOUS

LEMMA PiecesAre ==
  ASSUME NEW c \in Call, NEW i \in 1..2
  PROVE  /\ IsFiniteSet(Pieces(c, i)) /\ Pieces(c, i) \subseteq 1..c.read
         /\ Cardinality(Pieces(c, i)) \in Nat
<1>1. c.read \in Nat
  BY DEF Call
<1>2. IsFiniteSet(1..c.read)
  BY <1>1, FS_Interval
<1>3. Pieces(c, i) \subseteq 1..c.read
  BY DEF Pieces
<1> QED BY <1>2, <1>3, FS_Subset, FS_CardinalityType

\* Nothing read, nothing collected.
LEMMA NothingCollected ==
  ASSUME NEW c \in Call, c.read = 0, c.answer = NoAnswer
  PROVE  Collects(c)
<1>1. ASSUME NEW i \in 1..2
      PROVE  /\ Pieces(c, i) = {} /\ c.answer.args[i] = <<>> /\ i \notin c.answer.named
  BY DEF Pieces, NoAnswer
<1>2. Cardinality({}) = 0 /\ Len(<<>>) = 0
  BY FS_EmptySet
<1> QED BY <1>1, <1>2 DEF Collects

\* One frame taken into an answer.
LEMMA TakenIs ==
  ASSUME NEW a \in Answer, NEW f \in Frame
  PROVE  /\ Taken(a, f) \in Answer /\ Taken(a, f).kind = a.kind
         /\ Taken(a, f).tokens = IF f.kind = "token" THEN a.tokens + 1 ELSE a.tokens
         /\ \A i \in 1..2 :
              IF f.kind = "tool" /\ f.index = i
              THEN /\ Taken(a, f).args[i] = Append(a.args[i], f.part)
                   /\ i \in Taken(a, f).named <=> (i \in a.named \/ f.named)
              ELSE /\ Taken(a, f).args[i] = a.args[i]
                   /\ i \in Taken(a, f).named <=> i \in a.named
<1>1. CASE f.kind = "token"
  <2>1. a.tokens + 1 \in Nat
    <3>1. a.tokens \in Nat
      BY DEF Answer
    <3> QED BY <3>1
  <2>2. ASSUME NEW g \in Nat
        PROVE  /\ [a EXCEPT !.tokens = g] \in Answer /\ [a EXCEPT !.tokens = g].kind = a.kind
               /\ [a EXCEPT !.tokens = g].tokens = g /\ [a EXCEPT !.tokens = g].args = a.args
               /\ [a EXCEPT !.tokens = g].named = a.named
    BY DEF Answer
  <2> DEFINE n == a.tokens + 1
  <2>3. Taken(a, f) = [a EXCEPT !.tokens = n]
    BY <1>1 DEF Taken
  <2>4. n \in Nat
    BY <2>1
  <2> HIDE DEF n
  <2>5. /\ Taken(a, f) \in Answer /\ Taken(a, f).kind = a.kind
        /\ Taken(a, f).tokens = n /\ Taken(a, f).args = a.args
        /\ Taken(a, f).named = a.named
    BY <2>2, <2>3, <2>4
  <2> QED BY <1>1, <2>5 DEF n
<1>2. CASE f.kind = "tool"
  <2>1. f.index \in 1..2 /\ f.part \in Nat /\ f.named \in BOOLEAN
    BY <1>2 DEF Frame
  <2>2. a.args \in [1..2 -> Seq(Nat)] /\ a.named \in SUBSET (1..2)
    BY DEF Answer
  <2> DEFINE args  == [a.args EXCEPT ![f.index] = Append(a.args[f.index], f.part)]
             named == IF f.named THEN a.named \cup {f.index} ELSE a.named
  <2>3. /\ args \in [1..2 -> Seq(Nat)] /\ args[f.index] = Append(a.args[f.index], f.part)
        /\ \A i \in 1..2 \ {f.index} : args[i] = a.args[i]
    <3>1. Append(a.args[f.index], f.part) \in Seq(Nat)
      BY <2>1, <2>2
    <3> QED BY <2>1, <2>2, <3>1
  <2>4. /\ named \in SUBSET (1..2) /\ (f.index \in named <=> (f.index \in a.named \/ f.named))
        /\ \A i \in 1..2 \ {f.index} : i \in named <=> i \in a.named
    BY <2>1, <2>2
  <2>5. Taken(a, f) = [a EXCEPT !.args = args, !.named = named]
    BY <1>2 DEF Taken, Answer
  <2> HIDE DEF args, named
  <2> DEFINE new == [a EXCEPT !.args = args, !.named = named]
  <2>6. /\ new \in Answer /\ new.kind = a.kind /\ new.tokens = a.tokens
        /\ new.args = args /\ new.named = named
    BY <2>3, <2>4 DEF Answer
  <2>7. /\ Taken(a, f) \in Answer /\ Taken(a, f).kind = a.kind
        /\ Taken(a, f).tokens = a.tokens /\ Taken(a, f).args = args
        /\ Taken(a, f).named = named
    BY <2>5, <2>6
  <2>8. ASSUME NEW i \in 1..2
        PROVE  IF f.index = i
               THEN /\ Taken(a, f).args[i] = Append(a.args[i], f.part)
                    /\ i \in Taken(a, f).named <=> (i \in a.named \/ f.named)
               ELSE /\ Taken(a, f).args[i] = a.args[i]
                    /\ i \in Taken(a, f).named <=> i \in a.named
    BY <2>3, <2>4, <2>7
  <2> QED BY <1>2, <2>7, <2>8
<1>3. CASE f.kind \notin {"token", "tool"}
  <2>1. Taken(a, f) = a
    BY <1>3 DEF Taken
  <2> QED BY <1>3, <2>1
<1> QED BY <1>1, <1>2, <1>3

\* The next frame is taken into the answer (the SSE reader of chatStream).
LEMMA TakenCollects ==
  ASSUME NEW c \in Call, c.read < Len(c.stream), Collects(c), NEW d \in Call,
         d.stream = c.stream, d.read = c.read + 1,
         d.answer = Taken(c.answer, c.stream[c.read + 1])
  PROVE  Collects(d)
<1> DEFINE n == c.read + 1
           f == c.stream[n]
<1>1. /\ n \in Nat /\ c.read \in Nat /\ f \in Frame /\ c.answer \in Answer /\ d.answer \in Answer
      /\ n \notin 1..c.read /\ 1..n = (1..c.read) \cup {n}
  BY DEF Call
<1>2. \A i \in 1..2 :
        IF f.kind = "tool" /\ f.index = i
        THEN /\ d.answer.args[i] = Append(c.answer.args[i], f.part)
             /\ i \in d.answer.named <=> (i \in c.answer.named \/ f.named)
        ELSE /\ d.answer.args[i] = c.answer.args[i]
             /\ i \in d.answer.named <=> i \in c.answer.named
  <2>1. d.answer = Taken(c.answer, f)
    OBVIOUS
  <2> HIDE DEF f, n
  <2>2. \A i \in 1..2 :
          IF f.kind = "tool" /\ f.index = i
          THEN /\ Taken(c.answer, f).args[i] = Append(c.answer.args[i], f.part)
               /\ i \in Taken(c.answer, f).named <=> (i \in c.answer.named \/ f.named)
          ELSE /\ Taken(c.answer, f).args[i] = c.answer.args[i]
               /\ i \in Taken(c.answer, f).named <=> i \in c.answer.named
    BY <1>1, TakenIs
  <2> QED BY <2>1, <2>2, Zenon
<1>3. ASSUME NEW i \in 1..2
      PROVE  /\ Len(d.answer.args[i]) = Cardinality(Pieces(d, i))
             /\ \A k \in Pieces(d, i) : d.answer.args[i][Nth(d, i, k)] = d.stream[k].part
             /\ i \in d.answer.named <=> \E k \in Pieces(d, i) : d.stream[k].named
  <2> DEFINE P == Pieces(c, i)
             a == c.answer.args[i]
  <2>1. /\ Len(a) = Cardinality(P) /\ \A k \in P : a[Nth(c, i, k)] = c.stream[k].part
        /\ i \in c.answer.named <=> \E k \in P : c.stream[k].named
    BY DEF Collects
  <2>2. IsFiniteSet(P) /\ P \subseteq 1..c.read /\ Cardinality(P) \in Nat /\ n \notin P
    BY <1>1, PiecesAre
  <2>3. a \in Seq(Nat)
    BY <1>1 DEF Answer
  <2>4. ASSUME NEW k \in P PROVE Nth(c, i, k) \in 1..Len(a)
    <3>1. {j \in P : j <= k} \subseteq P /\ k \in {j \in P : j <= k}
      BY <1>1, <2>2
    <3>2. /\ IsFiniteSet({j \in P : j <= k}) /\ Cardinality({j \in P : j <= k}) <= Cardinality(P)
          /\ Cardinality({j \in P : j <= k}) \in Nat
      BY <2>2, <3>1, FS_Subset, FS_CardinalityType
    <3>3. Cardinality({j \in P : j <= k}) # 0
      BY <3>1, <3>2, FS_EmptySet
    <3> QED BY <2>1, <3>2, <3>3 DEF Nth
  <2>5. CASE f.kind = "tool" /\ f.index = i
    <3>1. Pieces(d, i) = P \cup {n}
      BY <1>1, <2>5 DEF Pieces
    <3>2. /\ d.answer.args[i] = Append(a, f.part)
          /\ i \in d.answer.named <=> (i \in c.answer.named \/ f.named)
      BY <1>1, <1>2, <2>5
    <3>3. f.part \in Nat /\ f.named \in BOOLEAN
      BY <1>1, <2>5 DEF Frame
    <3>4. Cardinality(P \cup {n}) = Cardinality(P) + 1
      BY <2>2, FS_AddElement
    <3>5. /\ Len(Append(a, f.part)) = Len(a) + 1 /\ Append(a, f.part)[Len(a) + 1] = f.part
          /\ \A k \in 1..Len(a) : Append(a, f.part)[k] = a[k]
      BY <2>3, <3>3
    <3>6. ASSUME NEW k \in P PROVE Nth(d, i, k) = Nth(c, i, k)
      <4>1. {j \in P \cup {n} : j <= k} = {j \in P : j <= k}
        BY <1>1, <2>2
      <4> QED BY <3>1, <4>1 DEF Nth
    <3>7. Nth(d, i, n) = Len(a) + 1
      <4>1. {j \in P \cup {n} : j <= n} = P \cup {n}
        BY <1>1, <2>2
      <4> QED BY <2>1, <3>1, <3>4, <4>1 DEF Nth
    <3>8. \A k \in Pieces(d, i) : d.answer.args[i][Nth(d, i, k)] = d.stream[k].part
      <4>1. ASSUME NEW k \in P PROVE d.answer.args[i][Nth(d, i, k)] = d.stream[k].part
        <5> DEFINE b == Append(a, f.part)
        <5>1. d.answer.args[i][Nth(d, i, k)] = b[Nth(c, i, k)]
          BY <3>2, <3>6
        <5>2. b[Nth(c, i, k)] = a[Nth(c, i, k)]
          BY <2>4, <3>5
        <5> QED BY <2>1, <5>1, <5>2
      <4>2. d.answer.args[i][Nth(d, i, n)] = d.stream[n].part
        BY <3>2, <3>5, <3>7
      <4> QED BY <3>1, <4>1, <4>2
    <3>9. i \in d.answer.named <=> \E k \in Pieces(d, i) : d.stream[k].named
      BY <2>1, <3>1, <3>2
    <3>10. Len(d.answer.args[i]) = Cardinality(Pieces(d, i))
      BY <2>1, <3>1, <3>2, <3>4, <3>5
    <3> QED BY <3>8, <3>9, <3>10
  <2>6. CASE ~(f.kind = "tool" /\ f.index = i)
    <3>1. Pieces(d, i) = P
      BY <1>1, <2>6 DEF Pieces
    <3>2. d.answer.args[i] = a /\ (i \in d.answer.named <=> i \in c.answer.named)
      BY <1>1, <1>2, <2>6
    <3>3. \A k \in P : Nth(d, i, k) = Nth(c, i, k)
      BY <3>1 DEF Nth
    <3> QED BY <2>1, <3>1, <3>2, <3>3
  <2> QED BY <2>5, <2>6
<1> QED BY <1>3 DEF Collects
-----------------------------------------------------------------------------
(* What an action does to the client and to its call *)

\* The client keeps its mode.
SameMode(cl) == cl \in Client /\ cl.contentMode = client.contentMode

LEMMA ClientStays ==
  ASSUME client \in Client
  PROVE  /\ SameMode(client) /\ SameMode(Decayed) /\ SameMode(Recorded503) /\ SameMode(Timed)
         /\ SameMode([client EXCEPT !.probed = TRUE])
         /\ client.hits > 0 => SameMode([client EXCEPT !.hits = client.hits - 1])
<1>1. client.level \in Nat /\ client.hits \in Nat /\ client.samples \in Nat
  BY DEF Client
<1>2. ASSUME NEW n \in Nat, NEW k \in Nat
      PROVE  /\ SameMode([client EXCEPT !.level = n])
             /\ SameMode([client EXCEPT !.hits = k, !.level = n])
             /\ SameMode([client EXCEPT !.hits = n]) /\ SameMode([client EXCEPT !.samples = n])
  BY DEF Client, SameMode
<1>3. SameMode(Decayed)
  <2> DEFINE n == IF client.hits = 0 THEN 0 ELSE client.level
  <2>1. n \in Nat /\ Decayed = [client EXCEPT !.level = n]
    BY <1>1 DEF Decayed
  <2> HIDE DEF n
  <2> QED BY <1>2, <2>1
<1>4. SameMode(Recorded503)
  <2> DEFINE k == client.hits + 1
             n == IF client.hits + 1 >= BusyLimit /\ client.level < MaxLevel
                  THEN client.level + 1 ELSE client.level
  <2>1. k \in Nat /\ n \in Nat /\ Recorded503 = [client EXCEPT !.hits = k, !.level = n]
    BY <1>1 DEF Recorded503
  <2> HIDE DEF k, n
  <2> QED BY <1>2, <2>1
<1>5. SameMode(Timed)
  <2> DEFINE n == client.samples + 1
  <2>1. n \in Nat /\ Timed = [client EXCEPT !.samples = n]
    BY <1>1 DEF Timed
  <2> HIDE DEF n
  <2> QED BY <1>2, <2>1
<1>6. client.hits > 0 => SameMode([client EXCEPT !.hits = client.hits - 1])
  <2> DEFINE n == client.hits - 1
  <2>1. client.hits > 0 => n \in Nat
    BY <1>1
  <2> HIDE DEF n
  <2>2. client.hits > 0 => SameMode([client EXCEPT !.hits = n])
    BY <1>2, <2>1
  <2> QED BY <2>2 DEF n
<1>7. SameMode(client) /\ SameMode([client EXCEPT !.probed = TRUE])
  BY DEF Client, SameMode
<1> QED BY <1>3, <1>4, <1>5, <1>6, <1>7

\* A request goes out, or waits to.
LEMMA SendingGood ==
  ASSUME NEW cl \in Client, NEW c \in Call, c.pc \in Sending, c.read <= Len(c.stream),
         c.body = Body(cl.contentMode), c.answer.kind = "none",
         c.mode = "stream" => c.answer = NoAnswer /\ c.shown = 0
  PROVE  Good(cl, c)
BY DEF Good, Sending

\* chatStream or chat is entered.
LEMMA EnteredGood ==
  ASSUME NEW cl \in Client, NEW c \in Call, c.read <= Len(c.stream), c.answer.kind = "none",
         NEW mode \in {"stream", "chat"},
         mode = "stream" => c.answer = NoAnswer /\ c.shown = 0
  PROVE  Good(cl, Entered(c, mode, cl.contentMode))
<1> DEFINE body == Body(cl.contentMode)
           e == [c EXCEPT !.mode = mode, !.attempt = 0, !.body = body, !.seen = {}]
           waits == [e EXCEPT !.pc = "delay"]
           sends == [e EXCEPT !.pc = "fetch", !.heard = FALSE]
<1>1. body \in {Body(TRUE), Body(FALSE)}
  BY BodyTyped DEF Client
<1>2. Entered(c, mode, cl.contentMode) \in {waits, sends}
  BY DEF Entered, Sends
<1>3. body = Body(cl.contentMode)
  OBVIOUS
<1> HIDE DEF body
<1>4. /\ e \in Call /\ e.mode = mode /\ e.body = body /\ e.answer = c.answer
      /\ e.shown = c.shown /\ e.read = c.read /\ e.stream = c.stream
  BY <1>1 DEF Call
<1> HIDE DEF e
<1>5. /\ waits \in Call /\ waits.pc \in Sending /\ waits.mode = mode /\ waits.body = body
      /\ waits.answer = c.answer /\ waits.shown = c.shown /\ waits.read = c.read
      /\ waits.stream = c.stream
  BY <1>4 DEF Call, Sending
<1>6. /\ sends \in Call /\ sends.pc \in Sending /\ sends.mode = mode /\ sends.body = body
      /\ sends.answer = c.answer /\ sends.shown = c.shown /\ sends.read = c.read
      /\ sends.stream = c.stream
  BY <1>4 DEF Call, Sending
<1> HIDE DEF waits, sends
<1>7. Good(cl, waits) /\ Good(cl, sends)
  BY <1>3, <1>5, <1>6, SendingGood
<1> QED BY <1>2, <1>7

LEMMA ThrowsGood ==
  ASSUME NEW cl \in Client, NEW c \in Call, c.answer.kind = "none"
  PROVE  Good(cl, Throws(c))
<1>1. <<>> \in Seq(Frame) /\ Len(<<>>) = 0
  OBVIOUS
<1>2. /\ Throws(c) \in Call /\ Throws(c).pc = "idle" /\ Throws(c).answer = c.answer
      /\ Throws(c).read = 0 /\ Throws(c).stream = <<>>
  BY <1>1 DEF Throws, Call
<1> QED BY <1>1, <1>2 DEF Good, Sending

\* An attempt failed, and there will be another.
LEMMA PauseGood ==
  ASSUME NEW cl \in Client, Good(client, call), cl.contentMode = client.contentMode,
         call.pc = "fetch", NEW seen \in SUBSET Errors
  PROVE  Good(cl, [call EXCEPT !.pc = "backoff", !.seen = seen])
<1> DEFINE c == [call EXCEPT !.pc = "backoff", !.seen = seen]
<1>1. /\ c \in Call /\ c.pc \in Sending /\ c.mode = call.mode /\ c.body = call.body
      /\ c.answer = call.answer /\ c.shown = call.shown /\ c.read = call.read
      /\ c.stream = call.stream
  BY DEF Good, Call, Sending
<1> HIDE DEF c
<1>2. Good(cl, c)
  BY <1>1, SendingGood DEF Good, Sending
<1> QED BY <1>2 DEF c

\* A streamed answer that is over.
LEMMA ReturnsGood ==
  ASSUME NEW cl \in Client, Good(client, call), call.pc = "body", call.mode = "stream",
         NEW kind \in {"whole", "ended", "cut"}
  PROVE  Good(cl, Returns([Partial EXCEPT !.kind = kind]))
<1> DEFINE a    == [Partial EXCEPT !.kind = kind]
           args == [i \in 1..2 |-> IF i \in call.answer.named THEN call.answer.args[i] ELSE <<>>]
           fin  == [a EXCEPT !.args = args]
           c    == [call EXCEPT !.pc = "idle", !.answer = fin, !.seen = {}]
<1>1. /\ call \in Call /\ call.answer \in Answer /\ call.read <= Len(call.stream)
      /\ call.answer.tokens = call.shown /\ Collects(call)
  BY DEF Good, Call
<1>2. args \in [1..2 -> Seq(Nat)]
  <2>1. \A i \in 1..2 : call.answer.args[i] \in Seq(Nat) /\ <<>> \in Seq(Nat)
    BY <1>1 DEF Answer
  <2> QED BY <2>1
<1>3. /\ a \in Answer /\ a.kind = kind /\ a.args = call.answer.args
      /\ a.named = call.answer.named /\ a.tokens = call.answer.tokens
  BY <1>1 DEF Partial, Answer, Told
<1>4. Finalized(a) = fin
  <2>1. DOMAIN a.args = 1..2
    BY <1>3 DEF Answer
  <2> QED BY <1>3, <2>1 DEF Finalized
<1> HIDE DEF a
<1>5. \A i \in 1..2 : args[i] = IF i \in call.answer.named THEN call.answer.args[i] ELSE <<>>
  OBVIOUS
<1> HIDE DEF args
<1>6. fin \in Answer /\ fin.kind = kind /\ fin.args = args /\ fin.tokens = call.answer.tokens
  BY <1>2, <1>3 DEF Answer
<1> HIDE DEF fin
<1>7. Returns(a) = c
  BY <1>4 DEF Returns
<1>8. /\ c \in Call /\ c.pc = "idle" /\ c.answer = fin /\ c.shown = call.shown
      /\ c.read = call.read /\ c.stream = call.stream
  BY <1>1, <1>6 DEF Call
<1> HIDE DEF c
<1>9. \A i \in 1..2 : Pieces(c, i) = Pieces(call, i) /\ \A k : Nth(c, i, k) = Nth(call, i, k)
  BY <1>8 DEF Pieces, Nth
<1>10. Sent(c)
  <2>1. c.answer.tokens = c.shown
    BY <1>1, <1>6, <1>8
  <2>2. ASSUME NEW i \in 1..2
        PROVE  IF \E k \in Pieces(c, i) : c.stream[k].named
               THEN /\ Len(c.answer.args[i]) = Cardinality(Pieces(c, i))
                    /\ \A k \in Pieces(c, i) : c.answer.args[i][Nth(c, i, k)] = c.stream[k].part
               ELSE c.answer.args[i] = <<>>
    <3>1. /\ Len(call.answer.args[i]) = Cardinality(Pieces(call, i))
          /\ \A k \in Pieces(call, i) :
               call.answer.args[i][Nth(call, i, k)] = call.stream[k].part
          /\ i \in call.answer.named <=> \E k \in Pieces(call, i) : call.stream[k].named
      BY <1>1 DEF Collects
    <3> QED BY <1>5, <1>6, <1>8, <1>9, <3>1
  <2> QED BY <2>1, <2>2 DEF Sent
<1>11. Good(cl, c)
  BY <1>1, <1>8, <1>10 DEF Good, Sending
<1> QED BY <1>7, <1>11 DEF a
-----------------------------------------------------------------------------
(* The actions *)

LEMMA GoodTyped ==
  ASSUME Good(client, call)
  PROVE  client \in Client /\ call \in Call /\ call.read <= Len(call.stream)
BY DEF Good

LEMMA NoCallGood ==
  ASSUME NEW cl \in Client
  PROVE  /\ Good(cl, NoCall) /\ NoCall \in Call /\ NoCall.answer = NoAnswer
         /\ NoCall.shown = 0 /\ NoCall.read = 0 /\ NoCall.stream = <<>>
         /\ NoAnswer.kind = "none"
<1>1. /\ NoCall \in Call /\ NoCall.pc = "idle" /\ NoCall.answer = NoAnswer
      /\ NoCall.shown = 0 /\ NoCall.read = 0 /\ NoCall.stream = <<>> /\ NoAnswer.kind = "none"
  <2>1. Body(FALSE) \in {Body(TRUE), Body(FALSE)} /\ <<>> \in Seq(Frame) /\ {} \in SUBSET Errors
    OBVIOUS
  <2>2. NoAnswer.kind = "none"
    BY DEF NoAnswer
  <2> QED BY <2>1, <2>2, NoAnswerTyped DEF NoCall, Call
<1> QED BY <1>1 DEF Good, Sending

LEMMA BeginGood ==
  ASSUME ClientInv, NEW mode \in {"stream", "chat"}, Begin(mode)
  PROVE  Good(client', call') /\ calls' \in Nat
<1>1. client \in Client /\ SameMode(Decayed) /\ calls \in Nat
  BY GoodTyped, ClientStays DEF ClientInv
<1>2. client' = Decayed /\ calls' = calls + 1 /\ call' = Entered(NoCall, mode, client.contentMode)
  BY DEF Begin
<1>3. client' \in Client /\ client'.contentMode = client.contentMode
  BY <1>1, <1>2 DEF SameMode
<1>4. Good(client', Entered(NoCall, mode, client'.contentMode))
  BY <1>1, <1>3, NoCallGood, EnteredGood
<1> QED BY <1>1, <1>2, <1>3, <1>4

\* The client changes beside its call.
LEMMA BesideGood ==
  ASSUME Good(client, call), NEW cl, SameMode(cl)
  PROVE  Good(cl, call)
BY DEF Good, SameMode

LEMMA WaitGood ==
  ASSUME ClientInv, Wait
  PROVE  Good(client', call')
<1> DEFINE n == IF In({"backoff"}) THEN call.attempt + 1 ELSE call.attempt
           c == [call EXCEPT !.attempt = n]
           s == [c EXCEPT !.pc = "fetch", !.heard = FALSE]
<1>1. Good(client, call) /\ call \in Call /\ client \in Client /\ call.pc \in {"delay", "backoff"}
  BY GoodTyped DEF ClientInv, Wait, In
<1>2. n \in Nat
  <2>1. call.attempt \in Nat
    BY <1>1 DEF Call
  <2> QED BY <2>1
<1>3. client' = client /\ call' = s
  BY DEF Wait, Sends
<1> HIDE DEF n
<1>4. /\ s \in Call /\ s.pc \in Sending /\ s.mode = call.mode /\ s.body = call.body
      /\ s.answer = call.answer /\ s.shown = call.shown /\ s.read = call.read
      /\ s.stream = call.stream
  BY <1>1, <1>2 DEF Call, Sending
<1> HIDE DEF s
<1>5. Good(client, s)
  BY <1>1, <1>4, SendingGood DEF Good, Sending
<1> QED BY <1>3, <1>5

LEMMA AbortGood ==
  ASSUME ClientInv, Abort
  PROVE  Good(client', call')
<1> DEFINE h == In({"fetch"})
           c == [call EXCEPT !.aborted = TRUE, !.heard = h]
<1>1. Good(client, call) /\ call \in Call /\ h \in BOOLEAN /\ call.pc # "idle"
  BY GoodTyped DEF ClientInv, Abort, In
<1>2. client' = client /\ call' = c
  BY DEF Abort
<1> HIDE DEF h
<1>3. /\ c \in Call /\ c.pc = call.pc /\ c.mode = call.mode /\ c.body = call.body
      /\ c.answer = call.answer /\ c.shown = call.shown /\ c.read = call.read
      /\ c.stream = call.stream
  BY <1>1 DEF Call
<1> HIDE DEF c
<1>4. Collects(call) => Collects(c)
  <2>1. \A i \in 1..2 : Pieces(c, i) = Pieces(call, i) /\ \A k : Nth(c, i, k) = Nth(call, i, k)
    BY <1>3 DEF Pieces, Nth
  <2> QED BY <1>3, <2>1 DEF Collects
<1>5. Good(client, c)
  BY <1>1, <1>3, <1>4 DEF Good
<1> QED BY <1>2, <1>5

\* The request in flight fails, or is answered without a body to read.
LEMMA FetchGood ==
  ASSUME ClientInv, AbortHeard \/ Refused \/ ConnTimeout \/ Rejected \/ Loading
  PROVE  Good(client', call')
<1>1. /\ Good(client, call) /\ call \in Call /\ call.pc = "fetch" /\ call.answer.kind = "none"
      /\ SameMode(client')
  <2>1. Good(client, call) /\ call.pc = "fetch" /\ client' \in {client, Recorded503}
    BY DEF ClientInv, AbortHeard, Refused, ConnTimeout, Rejected, Loading, Awaits, In
  <2> QED BY <2>1, GoodTyped, ClientStays DEF Good
<1>2. client' \in Client /\ client'.contentMode = client.contentMode
  BY <1>1 DEF SameMode
<1>3. call' = Throws(call) \/ call' = [call EXCEPT !.pc = "backoff"]
  BY DEF AbortHeard, Refused, ConnTimeout, Rejected, Loading, Throw, Pause
<1>4. CASE call' = Throws(call)
  BY <1>1, <1>2, <1>4, ThrowsGood
<1>5. CASE call' = [call EXCEPT !.pc = "backoff"]
  <2>1. [call EXCEPT !.pc = "backoff"] = [call EXCEPT !.pc = "backoff", !.seen = call.seen]
          /\ call.seen \in SUBSET Errors
    BY <1>1 DEF Call
  <2>2. Good(client', [call EXCEPT !.pc = "backoff", !.seen = call.seen])
    BY <1>1, <1>2, <2>1, PauseGood
  <2> QED BY <1>5, <2>1, <2>2
<1> QED BY <1>3, <1>4, <1>5

LEMMA NoStreamingGood ==
  ASSUME ClientInv, NoStreaming
  PROVE  Good(client', call')
<1>1. /\ Good(client, call) /\ call \in Call /\ call.pc = "fetch" /\ call.answer.kind = "none"
      /\ SameMode(client') /\ call.read <= Len(call.stream)
  <2>1. Good(client, call) /\ call.pc = "fetch" /\ client' = Decayed
    BY DEF ClientInv, NoStreaming, Awaits, In
  <2> QED BY <2>1, GoodTyped, ClientStays DEF Good
<1>2. client' \in Client /\ call' = Entered(call, "chat", client'.contentMode)
  BY <1>1 DEF SameMode, NoStreaming
<1> QED BY <1>1, <1>2, EnteredGood

LEMMA TemplateErrorGood ==
  ASSUME ClientInv, TemplateError
  PROVE  Good(client', call')
<1>1. /\ Good(client, call) /\ call \in Call /\ call.pc = "fetch" /\ call.mode = "stream"
      /\ client \in Client /\ call.read <= Len(call.stream) /\ SameMode(Decayed)
  <2>1. Good(client, call) /\ call.pc = "fetch" /\ call.mode = "stream"
    BY DEF ClientInv, TemplateError, Awaits, In
  <2> QED BY <2>1, GoodTyped, ClientStays
<1>2. call.answer = NoAnswer /\ call.shown = 0 /\ call.answer.kind = "none"
  BY <1>1 DEF Good, Sending
<1> DEFINE n == call.switches + 1
           k == Decayed.autoSwitches + 1
           c == [call EXCEPT !.switches = n]
<1>3. n \in Nat /\ k \in Nat
  <2>1. call.switches \in Nat /\ Decayed.autoSwitches \in Nat
    BY <1>1 DEF Call, Client, SameMode
  <2> QED BY <2>1
<1>4. client' = [Decayed EXCEPT !.contentMode = TRUE, !.autoSwitches = k]
  BY DEF TemplateError
<1>5. call' = Entered(c, "stream", TRUE)
  BY DEF TemplateError
<1> HIDE DEF n, k
<1>6. client' \in Client /\ client'.contentMode = TRUE
  BY <1>1, <1>3, <1>4 DEF Client, SameMode
<1>7. /\ c \in Call /\ c.answer = call.answer /\ c.shown = call.shown
      /\ c.read = call.read /\ c.stream = call.stream
  BY <1>1, <1>3 DEF Call
<1> HIDE DEF c
<1>8. Good(client', Entered(c, "stream", client'.contentMode))
  BY <1>1, <1>2, <1>6, <1>7, EnteredGood
<1> QED BY <1>5, <1>6, <1>8

LEMMA ServerErrorGood ==
  ASSUME ClientInv, NEW body \in Errors, ServerError(body)
  PROVE  Good(client', call')
<1>1. /\ Good(client, call) /\ call \in Call /\ call.pc = "fetch" /\ call.answer.kind = "none"
      /\ SameMode(client') /\ call.read <= Len(call.stream)
  <2>1. Good(client, call) /\ call.pc = "fetch" /\ client' \in {client, Decayed}
    BY DEF ClientInv, ServerError, Awaits, In
  <2> QED BY <2>1, GoodTyped, ClientStays DEF Good
<1>2. client' \in Client /\ client'.contentMode = client.contentMode
  BY <1>1 DEF SameMode
<1> DEFINE seen == call.seen \cup {body}
<1>3. seen \in SUBSET Errors
  BY <1>1 DEF Call
<1>4. \/ call' = Throws(call) \/ call' = Entered(call, "chat", client.contentMode)
      \/ call' = [call EXCEPT !.pc = "backoff", !.seen = seen]
  BY DEF ServerError, Throw
<1> HIDE DEF seen
<1>5. CASE call' = Throws(call)
  BY <1>1, <1>2, <1>5, ThrowsGood
<1>6. CASE call' = Entered(call, "chat", client.contentMode)
  BY <1>1, <1>2, <1>6, EnteredGood
<1>7. CASE call' = [call EXCEPT !.pc = "backoff", !.seen = seen]
  BY <1>1, <1>2, <1>3, <1>7, PauseGood
<1> QED BY <1>4, <1>5, <1>6, <1>7

LEMMA HeadersGood ==
  ASSUME ClientInv, NEW stream \in Streams, Headers(stream)
  PROVE  Good(client', call')
<1> DEFINE s == IF call.mode = "stream" THEN stream ELSE <<>>
           c == [call EXCEPT !.pc = "body", !.read = 0, !.stream = s]
<1>1. /\ Good(client, call) /\ call \in Call /\ call.pc = "fetch" /\ call.answer.kind = "none"
  <2>1. Good(client, call) /\ call.pc = "fetch"
    BY DEF ClientInv, Headers, Awaits, In
  <2> QED BY <2>1, GoodTyped DEF Good
<1>2. s \in Seq(Frame) /\ 0 <= Len(s)
  <2>1. s \in Seq(Frame)
    BY ClientAssumption
  <2> QED BY <2>1
<1>3. client' = client /\ call' = c
  BY DEF Headers
<1> HIDE DEF s
<1>4. /\ c \in Call /\ c.pc = "body" /\ c.mode = call.mode /\ c.answer = call.answer
      /\ c.shown = call.shown /\ c.read = 0 /\ c.stream = s
  BY <1>1, <1>2 DEF Call
<1> HIDE DEF c
<1>5. c.mode = "stream" => c.answer.tokens = c.shown /\ Collects(c)
  <2>1. c.mode = "stream" => c.answer = NoAnswer /\ c.shown = 0
    BY <1>1, <1>4 DEF Good, Sending
  <2> QED BY <1>4, <2>1, NothingCollected DEF NoAnswer
<1>6. Good(client, c)
  BY <1>1, <1>2, <1>4, <1>5 DEF Good, Sending
<1> QED BY <1>3, <1>6

LEMMA DocumentGood ==
  ASSUME ClientInv, Document
  PROVE  Good(client', call')
<1> DEFINE a    == [NoAnswer EXCEPT !.kind = "document"]
           args == [i \in 1..2 |-> IF i \in a.named THEN a.args[i] ELSE <<>>]
           fin  == [a EXCEPT !.args = args]
           c    == [call EXCEPT !.pc = "idle", !.answer = fin, !.seen = {}]
<1>1. /\ Good(client, call) /\ call \in Call /\ call.read <= Len(call.stream)
      /\ client' \in Client
  BY GoodTyped, ClientStays DEF ClientInv, Document, SameMode
<1>2. a \in Answer /\ a.kind = "document"
  BY NoAnswerTyped DEF Answer, Told
<1>3. args \in [1..2 -> Seq(Nat)]
  <2>1. \A i \in 1..2 : a.args[i] \in Seq(Nat) /\ <<>> \in Seq(Nat)
    BY <1>2 DEF Answer
  <2> QED BY <2>1
<1>4. Finalized(a) = fin
  <2>1. DOMAIN a.args = 1..2
    BY <1>2 DEF Answer
  <2> QED BY <2>1 DEF Finalized
<1>5. call' = c
  BY <1>4 DEF Document, Returns
<1> HIDE DEF a, args
<1>6. fin \in Answer /\ fin.kind = "document"
  BY <1>2, <1>3 DEF Answer
<1> HIDE DEF fin
<1>7. /\ c \in Call /\ c.pc = "idle" /\ c.answer = fin /\ c.read = call.read
      /\ c.stream = call.stream
  BY <1>1, <1>6 DEF Call
<1> HIDE DEF c
<1>8. Good(client', c)
  BY <1>1, <1>6, <1>7 DEF Good, Sending
<1> QED BY <1>5, <1>8

LEMMA ReadFrameGood ==
  ASSUME ClientInv, ReadFrame
  PROVE  Good(client', call')
<1>1. /\ Good(client, call) /\ call \in Call /\ call.pc = "body" /\ call.mode = "stream"
      /\ call.read < Len(call.stream) /\ client' = client /\ client \in Client
  BY GoodTyped DEF ClientInv, ReadFrame, In
<1>2. /\ call.answer \in Answer /\ call.answer.kind = "none" /\ call.answer.tokens = call.shown
      /\ Collects(call) /\ call.read \in Nat /\ call.shown \in Nat
      /\ call.stream \in Seq(Frame)
  BY <1>1 DEF Good, Call
<1> DEFINE f == call.stream[call.read + 1]
<1>3. f \in Frame
  BY <1>1, <1>2
<1>4. CASE f.kind = "done"
  <2>1. call' = Returns([Partial EXCEPT !.kind = "whole"])
    BY <1>4 DEF ReadFrame
  <2> QED BY <1>1, <2>1, ReturnsGood
<1>5. CASE f.kind # "done"
  <2> DEFINE n == call.read + 1
             k == IF f.kind = "token" THEN call.shown + 1 ELSE call.shown
             a == Taken(call.answer, f)
             c == [call EXCEPT !.read = n, !.answer = a, !.shown = k]
  <2>1. n \in Nat /\ k \in Nat /\ n <= Len(call.stream)
    BY <1>1, <1>2
  <2>2. a \in Answer /\ a.kind = "none" /\ a.tokens = k
    <3> HIDE DEF f
    <3>1. /\ Taken(call.answer, f) \in Answer /\ Taken(call.answer, f).kind = call.answer.kind
          /\ Taken(call.answer, f).tokens =
               IF f.kind = "token" THEN call.answer.tokens + 1 ELSE call.answer.tokens
      BY <1>2, <1>3, TakenIs
    <3> QED BY <1>2, <3>1
  <2>3. call' = c
    BY <1>5 DEF ReadFrame
  <2>4. n = call.read + 1 /\ a = Taken(call.answer, call.stream[call.read + 1])
    OBVIOUS
  <2> HIDE DEF n, k, a
  <2>5. /\ c \in Call /\ c.pc = call.pc /\ c.mode = call.mode /\ c.stream = call.stream
        /\ c.read = n /\ c.answer = a /\ c.shown = k
    BY <1>1, <2>1, <2>2 DEF Call
  <2> HIDE DEF c
  <2>6. Collects(c)
    BY <1>1, <1>2, <2>4, <2>5, TakenCollects
  <2>7. Good(client, c)
    BY <1>1, <2>1, <2>2, <2>5, <2>6 DEF Good, Sending
  <2> QED BY <1>1, <2>3, <2>7
<1> QED BY <1>4, <1>5

LEMMA StreamEndsGood ==
  ASSUME ClientInv, BodyFails \/ StreamEnds
  PROVE  Good(client', call')
<1>1. Good(client, call) /\ call \in Call /\ call.pc = "body" /\ client' \in Client
  BY GoodTyped, ClientStays DEF ClientInv, BodyFails, StreamEnds, In, SameMode
<1>2. CASE BodyFails
  BY <1>1, <1>2, ThrowsGood DEF BodyFails, Throw, Good
<1>3. CASE StreamEnds
  BY <1>1, <1>3, ReturnsGood DEF StreamEnds
<1> QED BY <1>2, <1>3

LEMMA ReadTimeoutGood ==
  ASSUME ClientInv, ReadTimeout
  PROVE  Good(client', call')
<1>1. /\ Good(client, call) /\ call \in Call /\ call.pc = "body" /\ call.mode = "stream"
      /\ SameMode(client') /\ call.answer.kind = "none"
  <2>1. Good(client, call) /\ call.pc = "body" /\ call.mode = "stream"
          /\ client' \in {client, Decayed}
    BY DEF ClientInv, ReadTimeout, In
  <2> QED BY <2>1, GoodTyped, ClientStays DEF Good
<1>2. client' \in Client /\ client'.contentMode = client.contentMode
  BY <1>1 DEF SameMode
<1>3. CASE client.fallback
  <2> DEFINE c == [call EXCEPT !.answer = NoAnswer, !.stream = <<>>, !.read = 0]
  <2>1. /\ c \in Call /\ c.answer.kind = "none" /\ c.read <= Len(c.stream)
    <3>1. <<>> \in Seq(Frame) /\ Len(<<>>) = 0 /\ NoAnswer.kind = "none"
      BY DEF NoAnswer
    <3>2. c \in Call /\ c.answer = NoAnswer /\ c.read = 0 /\ c.stream = <<>>
      BY <1>1, <3>1, NoAnswerTyped DEF Call
    <3> QED BY <3>1, <3>2
  <2>2. call' = Entered(c, "chat", client.contentMode)
    BY <1>3 DEF ReadTimeout
  <2> HIDE DEF c
  <2>3. Good(client', Entered(c, "chat", client'.contentMode))
    BY <1>2, <2>1, EnteredGood
  <2> QED BY <1>2, <2>2, <2>3
<1>4. CASE ~client.fallback
  <2>1. \/ call' = Returns([Partial EXCEPT !.kind = "cut"])
        \/ call' = Throws(call)
    BY <1>4 DEF ReadTimeout, Throw
  <2> QED BY <1>1, <1>2, <2>1, ReturnsGood, ThrowsGood
<1> QED BY <1>3, <1>4

-----------------------------------------------------------------------------
(* The theorems of the client *)

LEMMA ClientInvInit == ClientInit => ClientInv
<1> SUFFICES ASSUME ClientInit PROVE ClientInv
  OBVIOUS
<1>1. client \in Client
  BY ClientAssumption DEF ClientInit, Client
<1> QED BY <1>1, NoCallGood DEF ClientInit, ClientInv

LEMMA ClientInvNext == ClientInv /\ [ClientNext]_cvars => ClientInv'
<1> SUFFICES ASSUME ClientInv, [ClientNext]_cvars PROVE Good(client', call') /\ calls' \in Nat
  BY DEF ClientInv
<1>1. CASE \E mode \in {"stream", "chat"} : Begin(mode)
  BY <1>1, BeginGood
<1>2. CASE Probe \/ WindowMoves
  <2>1. SameMode(client') /\ call' = call /\ calls' = calls
    <3>1. client \in Client
      BY GoodTyped DEF ClientInv
    <3> QED BY <1>2, <3>1, ClientStays DEF Probe, WindowMoves
  <2> QED BY <2>1, BesideGood DEF ClientInv
<1>3. CASE Wait \/ Abort
  <2>1. calls' = calls
    BY <1>3 DEF Wait, Abort
  <2> QED BY <1>3, <2>1, WaitGood, AbortGood DEF ClientInv
<1>4. CASE Respond
  <2>1. calls' = calls
    BY <1>4 DEF Respond, AbortHeard, Refused, ConnTimeout, Rejected, Loading, NoStreaming,
                TemplateError, ServerError, Headers, Document, BodyFails, ReadFrame,
                StreamEnds, ReadTimeout
  <2>2. Good(client', call')
    BY <1>4, FetchGood, NoStreamingGood, TemplateErrorGood, ServerErrorGood, HeadersGood,
       DocumentGood, ReadFrameGood, StreamEndsGood, ReadTimeoutGood DEF Respond
  <2> QED BY <2>1, <2>2 DEF ClientInv
<1>5. CASE UNCHANGED cvars
  BY <1>5 DEF cvars, ClientInv
<1> QED BY <1>1, <1>2, <1>3, <1>4, <1>5 DEF ClientNext

\* What the client keeps of a call, from one await to the next (chatStream, chat).
THEOREM ClientInvariant == ClientSpec => []ClientInv
BY ClientInvInit, ClientInvNext, PTL DEF ClientSpec

\* A conversation begins with a system message (the constructor and reset() of agent.ts),
\* and then every body that goes out fits the mode the client is in, through retries, the
\* fall back to chat and the switch to content mode in the middle of a call.
THEOREM BodiesFit ==
  ASSUME Has("system")
  PROVE  ClientSpec => []BodyFitsMode
<1>1. ClientInv => BodyFitsMode
  <2> SUFFICES ASSUME ClientInv, In({"fetch"}) PROVE BodyFitsMode
    BY DEF BodyFitsMode
  <2>1. call.body = Body(client.contentMode) /\ client.contentMode \in BOOLEAN
    BY DEF ClientInv, Good, Sending, In, Client
  <2>2. /\ Body(client.contentMode).tools = ~client.contentMode
        /\ Body(client.contentMode).described = client.contentMode
    BY <2>1 DEF Body
  <2>3. ASSUME client.contentMode, NEW i \in DOMAIN MessageRoles
        PROVE  Body(client.contentMode).roles[i] \in {"system", "user", "assistant"}
    <3>1. MessageRoles[i] \in RoleSet
      BY ClientAssumption, <2>3
    <3> QED BY <2>3, <3>1 DEF Body, RoleSet
  <2> QED BY <2>1, <2>2, <2>3 DEF BodyFitsMode
<1> QED BY <1>1, ClientInvariant, PTL

\* A streamed answer is what the server sent, whatever the order its pieces come in: each
\* named tool call has its arguments, whole and in order, and the text is the text shown.
THEOREM AnswersAreWhatWasSent == ClientSpec => []AnswerIsWhatWasSent
<1>1. ClientInv => AnswerIsWhatWasSent
  <2> SUFFICES ASSUME ClientInv, call.answer.kind \in {"whole", "ended", "cut"}
               PROVE  AnswerIsWhatWasSent
    BY DEF AnswerIsWhatWasSent
  <2>1. Sent(call)
    BY DEF ClientInv, Good
  <2> QED BY <2>1 DEF Sent, AnswerIsWhatWasSent
<1> QED BY <1>1, ClientInvariant, PTL
=============================================================================

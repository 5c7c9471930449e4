------------------------------ MODULE History -------------------------------
(***************************************************************************)
(* The conversation an AgentSession sends with every model request, and    *)
(* the algorithm that shortens it (src/src/history.ts).                    *)
(*                                                                         *)
(* A message is a record: its role, the tool-call exchange it belongs to   *)
(* (0: none), the tokens of its content and those of its tool_calls.  The  *)
(* code keeps the shortened conversation as an array that it splices; here *)
(* it is the set K of the positions of the original one that are left, so  *)
(* that a message is known by its position whatever was removed before it. *)
(***************************************************************************)
EXTENDS Integers, Sequences, FiniteSetsExt

CONSTANTS
  MinBudget,    \* the budget never goes below this: 1024
  SafetyMargin, \* kept free for thinking and framing: 2048
  ShortAnswer   \* content of 50 characters: no more is not an answer

ASSUME HistoryAssumption ==
  MinBudget \in Nat /\ SafetyMargin \in Nat /\ ShortAnswer \in Nat

Roles == {"system", "user", "assistant", "tool"}
Message == [role : Roles, batch : Nat, content : Nat, calls : Nat]
IsHistory(h) == h \in Seq(Message)

IsCaller(m) == m.role = "assistant" /\ m.calls > 0
IsResult(m) == m.role = "tool"
IsAnswer(m) == m.role = "assistant" /\ m.calls = 0 /\ m.content > ShortAnswer

-----------------------------------------------------------------------------
(* What is counted *)

Content(h, I) == MapThenSumSet(LAMBDA i : h[i].content, I)

\* estimateTokensFromMessages
Tokens(h) == MapThenSumSet(LAMBDA i : h[i].content + h[i].calls, DOMAIN h)

\* currentTokens: what is dropped is subtracted without its tool_calls.
CurrentTokens(h, K) == Tokens(h) - Content(h, DOMAIN h \ K)

Clamped(compactAt) == IF compactAt < 50 THEN 50 ELSE IF compactAt > 95 THEN 95 ELSE compactAt

\* Compaction starts above this many tokens; compactAt is in percent.
Threshold(window, maxTokens, toolTokens, compactAt, force) ==
  LET budget == Max({MinBudget, window - maxTokens - SafetyMargin - toolTokens})
  IN  (budget * (IF force THEN 50 ELSE Clamped(compactAt))) \div 100

-----------------------------------------------------------------------------
(* enforceContextBudget *)

\* The leading system prompt.
Sys(h) == {i \in DOMAIN h : i = 1 /\ h[1].role = "system"}

\* protectedIdx: the last answer with some text to it.
Protected(h) ==
  {i \in DOMAIN h \ Sys(h) : IsAnswer(h[i]) /\ \A j \in DOMAIN h : j > i => ~IsAnswer(h[j])}

From(K, i) == {j \in K : j >= i}

\* Positions sysStart..msgs.length - minTail - 1.
Droppable(h, K, minTail) == {i \in K \ Sys(h) : Cardinality(From(K, i)) > minTail}

\* The condition of both loops, with the break that follows it.
Over(h, K, minTail, threshold) ==
  /\ Cardinality(K) > 2
  /\ CurrentTokens(h, K) > threshold
  /\ Cardinality(K \ Sys(h)) > minTail

\* findOldestToolCallGroup, as a set of at most one position.
GroupStarts(h, K, minTail) ==
  LET open    == Droppable(h, K, minTail) \ Protected(h)
      callers == {i \in open : IsCaller(h[i])}
      starts  == IF callers # {} THEN callers ELSE {i \in open : IsResult(h[i])}
  IN  {i \in starts : \A j \in starts : i <= j}

\* Mutants: the results stay behind; the call stays behind.
GroupCallOnly(h, K, i) == {i}
GroupResultsOnly(h, K, i) ==
  {j \in From(K, i + 1) : \A k \in From(K, i + 1) : k <= j => IsResult(h[k])}

\* findGroupEnd: the message at i and the tool results right behind it.
Group(h, K, i) ==
  {j \in From(K, i) : \A k \in From(K, i + 1) : k <= j => IsResult(h[k])}

\* Mutant: the protected answer is not looked for.
OldestOfAll(h, K) == {i \in K \ Sys(h) : \A j \in K \ Sys(h) : i <= j}

\* Phase 2 takes the oldest message, unless it is the protected one.
Oldest(h, K) ==
  {i \in K \ (Sys(h) \cup Protected(h)) : \A j \in K \ Sys(h) : i <= j}

\* The loop over groups, from the positions K on, and the loop over single messages.
WithoutGroups(h, minTail, threshold) ==
  LET groups[K \in SUBSET DOMAIN h] ==
        IF Over(h, K, minTail, threshold) /\ GroupStarts(h, K, minTail) # {}
        THEN groups[K \ Group(h, K, Min(GroupStarts(h, K, minTail)))] ELSE K
  IN  groups

WithoutOldest(h, minTail, threshold) ==
  LET singles[K \in SUBSET DOMAIN h] ==
        IF Over(h, K, minTail, threshold) /\ Oldest(h, K) # {}
        THEN singles[K \ Oldest(h, K)] ELSE K
  IN  singles

\* The whole function at once: the positions left.
Enforced(h, minTail, threshold, force) ==
  IF ~force /\ Tokens(h) <= threshold THEN DOMAIN h
  ELSE WithoutOldest(h, minTail, threshold)[WithoutGroups(h, minTail, threshold)[DOMAIN h]]

\* The conversation with only the positions K left, in their order.
Sub(h, K) ==
  LET nth(n) == CHOOSE i \in K : Cardinality({j \in K : j < i}) = n - 1
  IN  [n \in 1..Cardinality(K) |-> h[nth(n)]]

-----------------------------------------------------------------------------
(* What the API asks of a conversation *)

\* c is the call message that the tool result at i follows.
Follows(h, c, i) ==
  /\ c < i /\ IsCaller(h[c])
  /\ \A k \in DOMAIN h : c < k /\ k <= i => IsResult(h[k])

WellFormed(h) ==
  \A i \in DOMAIN h : IsResult(h[i]) => \E c \in DOMAIN h : Follows(h, c, i)
=============================================================================

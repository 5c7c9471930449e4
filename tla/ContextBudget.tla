--------------------------- MODULE ContextBudget ----------------------------
(***************************************************************************)
(* enforceContextBudget (src/src/history.ts) as the loops it runs: one     *)
(* action per iteration, on any conversation of a given set.               *)
(***************************************************************************)
EXTENDS History

CONSTANTS
  Inputs,     \* the conversations it is called on
  MinTails,   \* minTailMessages: 12 in ask(), 2 when compaction is forced
  Window,     \* contextWindow
  MaxTokens,  \* room for the answer
  ToolTokens, \* tokens of the tool schemas
  CompactAt   \* compact_at, in percent

ASSUME BudgetAssumption ==
  /\ Inputs \subseteq Seq(Message)
  /\ \A h \in Inputs : WellFormed(h)
  /\ MinTails \subseteq Nat \ {0}
  /\ {Window, MaxTokens, ToolTokens, CompactAt} \subseteq Nat

VARIABLES
  history,  \* the conversation it was given
  minTail, force,
  kept,     \* the positions left
  phase     \* "start", "groups", "singles" or "done"

vars == <<history, minTail, force, kept, phase>>

ForcedTail == 2
Limit == Threshold(Window, MaxTokens, ToolTokens, CompactAt, force)

Init ==
  /\ history \in Inputs
  /\ force \in BOOLEAN
  /\ minTail \in (IF force THEN {ForcedTail} ELSE MinTails)
  /\ kept = DOMAIN history
  /\ phase = "start"

\* Within the budget nothing is to be done, unless it is forced.
Start ==
  /\ phase = "start"
  /\ phase' = IF ~force /\ Tokens(history) <= Limit THEN "done" ELSE "groups"
  /\ UNCHANGED <<history, minTail, force, kept>>

CanDropGroup == Over(history, kept, minTail, Limit) /\ GroupStarts(history, kept, minTail) # {}

DropGroup ==
  /\ phase = "groups" /\ CanDropGroup
  /\ \E i \in GroupStarts(history, kept, minTail) : kept' = kept \ Group(history, kept, i)
  /\ UNCHANGED <<history, minTail, force, phase>>

\* Mutant: single messages are never dropped.
NoMoreGroupsReturns ==
  /\ phase = "groups" /\ ~CanDropGroup
  /\ phase' = "done"
  /\ UNCHANGED <<history, minTail, force, kept>>

NoMoreGroups ==
  /\ phase = "groups" /\ ~CanDropGroup
  /\ phase' = "singles"
  /\ UNCHANGED <<history, minTail, force, kept>>

CanDropOldest == Over(history, kept, minTail, Limit) /\ Oldest(history, kept) # {}

DropOldest ==
  /\ phase = "singles" /\ CanDropOldest
  /\ kept' = kept \ Oldest(history, kept)
  /\ UNCHANGED <<history, minTail, force, phase>>

Return ==
  /\ phase = "singles" /\ ~CanDropOldest
  /\ phase' = "done"
  /\ UNCHANGED <<history, minTail, force, kept>>

Next == Start \/ DropGroup \/ NoMoreGroups \/ DropOldest \/ Return

Spec == Init /\ [][Next]_vars

\* The function is synchronous: it runs until it returns.
FairSpec == Spec /\ WF_vars(Next)

-----------------------------------------------------------------------------
TypeOK ==
  /\ IsHistory(history)
  /\ minTail \in MinTails \cup {ForcedTail}
  /\ force \in BOOLEAN
  /\ kept \subseteq DOMAIN history
  /\ phase \in {"start", "groups", "singles", "done"}

\* "Dropping tool results without their paired assistant message breaks the OpenAI
\* protocol contract": an exchange is dropped whole or not at all, in both phases.
PairsKept ==
  \A i, c \in DOMAIN history :
    IsResult(history[i]) /\ Follows(history, c, i) => (c \in kept <=> i \in kept)

\* The last real answer "must be protected from compaction", whatever its age, and
\* the system prompt stays in front.
AnswerKept == Protected(history) \cup Sys(history) \subseteq kept

\* The operator the session uses gives what the loops leave.
LoopsAgree == phase = "done" => kept = Enforced(history, minTail, Limit, force)
=============================================================================

-------------------------- MODULE MCContextBudget ---------------------------
(***************************************************************************)
(* Small conversations for ContextBudget, and its properties for TLC.      *)
(***************************************************************************)
EXTENDS ContextBudget

CONSTANT MaxLen  \* bound: messages of a conversation

Kinds == {
  [role |-> "user", batch |-> 0, content |-> 1, calls |-> 0],
  [role |-> "assistant", batch |-> 0, content |-> 1, calls |-> 0],
  [role |-> "assistant", batch |-> 0, content |-> 2, calls |-> 0],
  [role |-> "assistant", batch |-> 1, content |-> 1, calls |-> 2],
  [role |-> "tool", batch |-> 1, content |-> 2, calls |-> 0]}

SystemPrompt == [role |-> "system", batch |-> 0, content |-> 1, calls |-> 0]

\* With and without a system prompt in front.
Conversations ==
  {h \in UNION {[1..n -> Kinds] : n \in 1..MaxLen} :
     WellFormed(h) /\ ~IsResult(h[1])}
  \cup {<<SystemPrompt>> \o h :
          h \in {g \in UNION {[1..n -> Kinds] : n \in 1..MaxLen} : WellFormed(g)}}

\* The loops end.
Ends == <>(phase = "done")
=============================================================================

---------------------------- MODULE MCAgentLoop -----------------------------
(***************************************************************************)
(* Properties of AgentLoop, and the values of its constants for TLC.       *)
(***************************************************************************)
EXTENDS AgentLoop

\* A read, a read-only command, an edit, and a ghost of the command: its name without
\* its arguments, as llama-server's parser splits a call in two.
CONSTANTS r, x, e, g

KindOf == [c \in Calls |-> IF c = r THEN "read" ELSE IF c = e THEN "edit" ELSE "exec"]
NameOf == [c \in Calls |-> IF c = g THEN x ELSE c]
ArgsOf == [c \in Calls |-> IF c = g THEN 0 ELSE 1]
SmallBatches == {<<r, r>>, <<g, x>>, <<e, g, x>>}

\* An ask ends, whatever the model answers: with an answer, by a fuse, or at the
\* iteration limit.
AskEnds == ask.pc # "idle" ~> ask.pc = "idle"
=============================================================================

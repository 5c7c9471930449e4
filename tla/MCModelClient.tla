--------------------------- MODULE MCModelClient ----------------------------
(***************************************************************************)
(* Properties of ModelClient, and the values of its constants for TLC.     *)
(***************************************************************************)
EXTENDS ModelClient

CONSTANTS e1, e2  \* the bodies of server errors

Conversation == <<"system", "user", "caller", "tool">>

Token == [kind |-> "token"]
Garbage == [kind |-> "garbage"]
Finish == [kind |-> "finish"]
Done == [kind |-> "done"]
Tool(i, named, part) == [kind |-> "tool", index |-> i, named |-> named, part |-> part]

\* Text; two tool calls whose arguments come interleaved; arguments without a name.
TestStreams ==
  {<<Token, Garbage, Token, Finish, Done>>,
   <<Tool(1, TRUE, 0), Tool(2, TRUE, 1), Tool(1, FALSE, 2), Tool(2, FALSE, 3), Finish, Done>>,
   <<Token, Tool(2, FALSE, 0), Tool(1, TRUE, 1), Done>>}

\* Every call comes to an answer or an error, whatever the server does, aborted or not.
CallEnds == ~In({"idle"}) ~> In({"idle"})

\* A call switches to content mode once: "Template incompatibility persisted after
\* content-mode switch. Aborting to avoid retry loop."
SwitchesOnce == call.switches <= 1
=============================================================================

----------------------------- MODULE MCBotTurns -----------------------------
(***************************************************************************)
(* More properties of BotTurns, and the values of its constants for TLC.   *)
(***************************************************************************)
EXTENDS BotTurns

CONSTANTS m1, m2, m3

\* The keywords of m2 ask for the first escalation model.
KeywordInM2 == [m \in Msgs |-> IF m = m2 THEN Lesser(1, NModels) ELSE 0]

\* Two turns never ask the same AgentSession at once.
AgentNotShared ==
  \A t, u \in Asking : t # u => turn[t].agent # turn[u].agent

\* Every turn ends, though the model may never answer: the watchdog's graces and
\* compactions run out and its cancel reaches the request that hangs.
TurnEnds == \A t \in Tids : turn[t].pc # "free" ~> turn[t].pc = "free"

\* A queue is emptied: a queued message does not wait for the user's next one.
QueueDrains ==
  (chat # 0 /\ sess[chat].queue # <<>>) ~> (chat = 0 \/ sess[chat].queue = <<>>)
=============================================================================

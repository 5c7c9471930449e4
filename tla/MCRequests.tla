----------------------------- MODULE MCRequests ------------------------------
(***************************************************************************)
(* A request to the model, for TLC: how much of the conversation goes into *)
(* it (ContextBudget), and how the client brings it to the server          *)
(* (ModelClient).  The two share no state: one `part` is chosen in the     *)
(* initial state and runs.                                                 *)
(***************************************************************************)
EXTENDS MCContextBudget, MCModelClient

VARIABLE part

NoBudget ==
  /\ history = <<SystemPrompt>> /\ minTail = 1 /\ force = FALSE
  /\ kept = {1} /\ phase = "done"

NoClient ==
  /\ client = [contentMode |-> FALSE, autoSwitches |-> 0, hits |-> 0, level |-> 0,
               probed |-> TRUE, samples |-> 0, fallback |-> FALSE]
  /\ call = NoCall /\ calls = 0

RequestInit ==
  \/ part = "budget" /\ Init /\ NoClient
  \/ part = "client" /\ ClientInit /\ NoBudget

RequestNext ==
  /\ UNCHANGED part
  /\ \/ part = "budget" /\ Next /\ UNCHANGED cvars
     \/ part = "client" /\ ClientNext /\ UNCHANGED vars

RequestSpec ==
  /\ RequestInit /\ [][RequestNext]_<<part, vars, cvars>>
  /\ WF_vars(Next) /\ WF_cvars(Wait) /\ WF_cvars(Respond)

\* Every request gets its answer or an error: enforceContextBudget leaves its loops,
\* and the client's chain of retries, waits and fallbacks (fetchWithConnTimeout, chat,
\* chatStream) is finite whatever the server does.
RequestsEnd == Ends /\ CallEnds
=============================================================================

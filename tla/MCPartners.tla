----------------------------- MODULE MCPartners ------------------------------
(***************************************************************************)
(* What goes on around the asks of a session, for TLC: it delegates        *)
(* (SubAgents), calls tool servers (ToolServers), asks the user and shows  *)
(* him its progress in a chat (Confirm, ProgressStream), or works for him  *)
(* in the terminal (TuiTurns, ReplTurns), while plugins are told of it all *)
(* (Hooks).  These share no state, so that one `part` is chosen in the     *)
(* initial state and runs, while the others stay where nothing of theirs   *)
(* goes on.                                                                *)
(***************************************************************************)
EXTENDS Confirm, ToolServers, Hooks, SubAgents, ProgressStream, ReplTurns

CONSTANTS
  Commands, Approvers, Submits, MaxCompactions, MaxGrace, MaxProgress

VARIABLES
  part, inFlight, turn, aborted, watchdog, progress, command, view, resolver, waiters, inputs,
  cleaned

\* An MCP server, which offers one name twice, and a language server.
TwoServers == <<"mcp", "lsp">>
TheirTools == [s \in {"mcp"} |-> <<"x", "y", "x", "z">>]
TheirCosts == [x |-> 1, y |-> 2, z |-> 1]
TheirNames == DOMAIN TheirCosts

\* Two plugins, of which the first asks for what it can get and the second for nothing.
TwoPlugins == <<"p", "q">>
TheirHooks == [p |-> <<"tool_result", "tool_stream">>, q |-> <<"session_start", "tool_result">>]
TheirWants == {[p |-> {"read_tool_results"}, q |-> {}]}

Tui == INSTANCE TuiTurns WITH Inputs <- Submits, phase <- turn, shown <- view

uvars == <<inFlight, turn, aborted, watchdog, progress, command, view, resolver, waiters,
           inputs, cleaned>>
mvars == <<part, convars, svars, tsvars, uvars, savars, rvars, hvars>>

-----------------------------------------------------------------------------
Parts == {"confirm", "stream", "tools", "terminal", "tasks", "repl", "plugins"}

MCInit ==
  /\ part \in Parts
  /\ ConfirmInit /\ (part # "confirm" => front = "telegram")
  /\ StreamInit /\ (part # "stream" => chat = "telegram")
  /\ ServersInit
  /\ Tui!TuiInit
  /\ SubInit
  /\ ReplInit /\ (part # "repl" => limit = CHOOSE l \in Limits : TRUE)
  /\ HooksInit /\ (part # "plugins" => strict /\ allowed = {"observe"})

MCNext ==
  /\ UNCHANGED part
  /\ \/ /\ part = "confirm" /\ ConfirmNext
        /\ UNCHANGED <<svars, tsvars, uvars, savars, rvars, hvars>>
     \/ /\ part = "stream" /\ StreamNext
        /\ UNCHANGED <<convars, tsvars, uvars, savars, rvars, hvars>>
     \/ /\ part = "tools" /\ ServersNext
        /\ UNCHANGED <<convars, svars, uvars, savars, rvars, hvars>>
     \/ /\ part = "terminal" /\ Tui!TuiNext
        /\ UNCHANGED <<convars, svars, tsvars, savars, rvars, hvars>>
     \/ /\ part = "tasks" /\ SubNext
        /\ UNCHANGED <<convars, svars, tsvars, uvars, rvars, hvars>>
     \/ /\ part = "repl" /\ ReplNext
        /\ UNCHANGED <<convars, svars, tsvars, uvars, savars, hvars>>
     \/ /\ part = "plugins" /\ HooksNext
        /\ UNCHANGED <<convars, svars, tsvars, uvars, savars, rvars>>

MCSpec ==
  /\ MCInit /\ [][MCNext]_mvars
  /\ ConfirmFair /\ ServersFair /\ Tui!TuiFair

-----------------------------------------------------------------------------
\* Nobody waits for ever: not for a prompt, nor for a tool server, nor for the input of
\* the terminal (see PromptsEnd, CallsSettle and InputIsFree).
WaitsEnd == PromptsEnd /\ CallsSettle /\ Tui!InputIsFree
=============================================================================

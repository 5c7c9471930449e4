----------------------------- MODULE ToolServers -----------------------------
(***************************************************************************)
(* The servers whose tools a session offers to the model: MCP servers      *)
(* behind a child process or HTTP (src/src/mcp.ts) and language servers    *)
(* (src/src/lsp.ts).  A connection is a transport with its requests in     *)
(* `pending`, by id; each ends with an answer, its timer, or the end of    *)
(* the child process.  MCPManager connects the configured servers one      *)
(* after the other, keeps their tools in a registry whose enabled part     *)
(* stays within a budget of tokens, and restarts a server on demand; the   *)
(* TUI lets the user do that beside a running turn, and more than once.    *)
(* What a timed-out request is answered comes late, and in any order.      *)
(***************************************************************************)
EXTENDS Integers, Sequences, FiniteSets, SequencesExt

CONSTANTS
  Configured,      \* the servers, in the order in which they are connected
  Http, Lsp,       \* those behind HTTP, and the language servers; the rest is stdio
  Offers,          \* per MCP server, the names that tools/list gives, in order
  Cost, Budget,    \* tokens of a tool's schema; toolBudgetTokens
  Allowed,         \* enabled_tools
  Calls,           \* tool calls of the model
  Transports,      \* bound: transports are 1..Transports
  Toggles          \* bound: enableTool and disableTool calls

VARIABLES
  link,      \* the transports made so far
  entry,     \* `servers`: per server its transport (or 0), connected, its tools
  registry,  \* `tools`, in order of rank: name, server, enabled
  boot,      \* the servers that init() has still to connect
  joining,   \* connectServer and start() calls: per transport the step that awaits
  call,      \* per tool call: what became of it, and whose answer it got
  toggles, closed

tsvars == <<link, entry, registry, boot, joining, call, toggles, closed>>

Servers == ToSet(Configured)

Absent == [link |-> 0, connected |-> FALSE, tools |-> {}]

-----------------------------------------------------------------------------
(* A transport *)

\* Mutant: ids are used again once a request has ended.
NextIdOfPending(t) == Cardinality(DOMAIN link[t].pending) + 1

NextId(t) == link[t].next

\* request(), of a call or of a handshake ("join").
Requested(l, id, who) ==
  [l EXCEPT !.pending = [i \in DOMAIN @ \cup {id} |-> IF i = id THEN who ELSE @[i]],
            !.asked = @ \cup {<<id, who>>},
            !.next = @ + 1]

Without(f, id) == [i \in DOMAIN f \ {id} |-> f[i]]
Waiting(t) == {link[t].pending[id] : id \in DOMAIN link[t].pending}

\* StdioRpcTransport and LspClient spawn a child.
Spawned(s) ==
  [of |-> s, open |-> TRUE, ended |-> FALSE, next |-> 2,
   pending |-> [i \in {1} |-> "join"], asked |-> {<<1, "join">>}]

\* Mutant: the timers are cleared with the connection.
HungUpSilently(l) ==
  IF l.of \in Http THEN l ELSE [l EXCEPT !.open = FALSE, !.pending = [i \in {} |-> "join"]]

\* close(): no further request is written. Those that wait do so until the child's
\* 'close' event, or their timers. An HTTP transport has nothing to close.
HungUp(l) == IF l.of \in Http THEN l ELSE [l EXCEPT !.open = FALSE]

Settle(who, how, by) ==
  call' = [c \in Calls |-> IF c \in who THEN [state |-> how, by |-> by] ELSE call[c]]

-----------------------------------------------------------------------------
(* MCPManager *)

Tokens(tools) == FoldLeft(LAMBDA sum, tool : sum + IF tool.on THEN Cost[tool.name] ELSE 0,
                          0, tools)

\* recomputeBudget: in order of rank, a tool that does not fit any more is disabled.
WithinBudget(tools) ==
  FoldLeft(LAMBDA kept, tool :
             Append(kept, [tool EXCEPT
               !.on = @ /\ Tokens(kept) + Cost[tool.name] <= Budget]),
           <<>>, tools)

\* What connectServer adds for server s: the names that are not taken.
Registered(tools, s) ==
  FoldLeft(LAMBDA all, name :
             IF \E i \in 1..Len(all) : all[i].name = name THEN all
             ELSE Append(all, [name |-> name, of |-> s, on |-> name \in Allowed]),
           tools, Offers[s])

Join(t, step) == [l \in DOMAIN joining \cup {t} |-> IF l = t THEN step ELSE joining[l]]

\* init(), and addServer for a language server: one after the other.
Connect ==
  /\ boot # <<>> /\ DOMAIN joining = {} /\ Len(link) < Transports /\ ~closed
  /\ link' = Append(link, Spawned(Head(boot)))
  /\ joining' = Join(Len(link) + 1, "initialize")
  /\ UNCHANGED <<entry, registry, boot, call, toggles, closed>>

\* init() goes on to its next server.
Booted == IF boot = <<>> THEN boot ELSE Tail(boot)

\* connectServer of the server at transport t returns.
Joined(t, links, connected) ==
  LET s == links[t].of
      all == IF connected THEN Registered(registry, s) ELSE registry
      new == {all[i].name : i \in Len(registry) + 1 .. Len(all)}
      last == Len(boot) <= 1
  IN /\ joining' = Without(joining, t)
     /\ boot' = Booted
     /\ entry' = [entry EXCEPT ![s] = [link |-> t, connected |-> connected, tools |-> new]]
     /\ registry' = IF last THEN WithinBudget(all) ELSE all
     /\ link' = IF connected THEN links ELSE [links EXCEPT ![t] = HungUp(@)]

\* start() of a language server returns or throws; when it throws the child is left
\* running, and known to nobody.
Started(t, links, ok) ==
  LET s == links[t].of
  IN /\ joining' = Without(joining, t)
     /\ boot' = Booted
     /\ entry' = IF ok THEN [entry EXCEPT ![s] = [link |-> t, connected |-> TRUE, tools |-> {}]]
                       ELSE entry
     /\ registry' = IF Len(boot) = 1 THEN WithinBudget(registry) ELSE registry
     /\ link' = links

\* The request that a handshake awaits has ended: initialize is a best effort and the
\* list follows, if the connection still takes it.
JoinMoves(t, links, ok) ==
  IF links[t].of \in Lsp
  THEN Started(t, links, ok)
  ELSE IF joining[t] = "initialize" /\ links[t].open
  THEN /\ link' = [links EXCEPT ![t] = Requested(@, NextId(t), "join")]
       /\ joining' = [joining EXCEPT ![t] = "list"]
       /\ UNCHANGED <<entry, registry, boot>>
  ELSE Joined(t, links, ok /\ joining[t] = "list")

\* Requests of transport t end, one by its answer or its timer, or all at once.
End(t, links, who, how, by) ==
  IF "join" \in who
  THEN JoinMoves(t, links, how = "answered") /\ UNCHANGED call
  ELSE /\ link' = links /\ Settle(who, how, by)
       /\ UNCHANGED <<entry, registry, boot, joining>>

\* handleParsedMessage: an answer to a request that has ended is dropped.
Answer(t, id, who, ok) ==
  /\ <<id, who>> \in link[t].asked
  /\ LET heard == id \in DOMAIN link[t].pending
         links == [link EXCEPT ![t].asked = @ \ {<<id, who>>},
                               ![t].pending = Without(@, id)]
     IN End(t, links, IF heard THEN {link[t].pending[id]} ELSE {},
            IF ok THEN "answered" ELSE "failed", who)
  /\ UNCHANGED <<toggles, closed>>

\* A request of the server's own (ping, workspace/configuration, ...) whose id is that of
\* one that waits: nobody looks for a method, and it counts as an answer without a result.
ServerAsks(t, id) ==
  /\ link[t].of \notin Http /\ ~link[t].ended
  /\ id \in DOMAIN link[t].pending
  /\ End(t, [link EXCEPT ![t].pending = Without(@, id),
                         ![t].asked = @ \ {<<id, "join">>}],
         {link[t].pending[id]}, "answered", "request")
  /\ UNCHANGED <<toggles, closed>>

\* The server may answer yet; what it answers to a handshake is left out then.
TimedOut(t, id) ==
  /\ id \in DOMAIN link[t].pending
  /\ End(t, [link EXCEPT ![t].pending = Without(@, id),
                         ![t].asked = @ \ {<<id, "join">>}],
         {link[t].pending[id]}, "failed", "none")
  /\ UNCHANGED <<toggles, closed>>

\* The child's 'close' event, after it ended by itself or by the signal it was sent:
\* failAll. Until then what is written to a child that has ended gets no answer.
CloseEvent(t) ==
  /\ ~link[t].ended /\ link[t].of \notin Http
  /\ End(t, [link EXCEPT ![t].open = FALSE, ![t].ended = TRUE, ![t].asked = {},
                         ![t].pending = [i \in {} |-> "join"]],
         Waiting(t), "failed", "none")
  /\ UNCHANGED <<toggles, closed>>

\* A tool that is "unknown" or "disabled", and one of a server that is away, fails at once.
Reachable(s) ==
  /\ entry[s].link # 0
  /\ entry[s].connected /\ link[entry[s].link].open

Ask(c, s) ==
  LET t == entry[s].link
  IN IF Reachable(s)
     THEN /\ link' = [link EXCEPT ![t] = Requested(@, NextId(t), c)]
          /\ Settle({c}, "waiting", "none")
     ELSE Settle({c}, "failed", "none") /\ UNCHANGED link

CallTool(c) ==
  /\ boot = <<>> /\ call[c].state = "new"
  /\ \/ \E s \in Servers :
          (\E i \in 1..Len(registry) : registry[i].of = s /\ registry[i].on) /\ Ask(c, s)
     \/ Settle({c}, "failed", "none") /\ UNCHANGED link
  /\ UNCHANGED <<entry, registry, boot, joining, toggles, closed>>

\* lsp_symbols, lsp_hover, lsp_definition and lsp_references: one request each.
CallLsp(c) ==
  /\ boot = <<>> /\ call[c].state = "new"
  /\ \E s \in Lsp : Ask(c, s)
  /\ UNCHANGED <<entry, registry, boot, joining, toggles, closed>>

\* restartServer: its tools go, and a new connection is made. Nothing keeps a second
\* restart from coming while the first one awaits.
Restart(s) ==
  /\ boot = <<>> /\ s \notin Lsp /\ Len(link) < Transports /\ ~closed
  /\ entry[s].link # 0
  /\ link' = Append([link EXCEPT ![entry[s].link] = HungUp(@)], Spawned(s))
  /\ registry' = SelectSeq(registry, LAMBDA tool : tool.name \notin entry[s].tools)
  /\ joining' = Join(Len(link) + 1, "initialize")
  /\ UNCHANGED <<entry, boot, call, toggles, closed>>

Fits(i) == Tokens(registry) + Cost[registry[i].name] <= Budget

EnableTool ==
  /\ boot = <<>> /\ toggles < Toggles /\ toggles' = toggles + 1
  /\ \E i \in 1..Len(registry) :
       /\ ~registry[i].on /\ Fits(i)
       /\ registry' = [registry EXCEPT ![i].on = TRUE]
  /\ UNCHANGED <<link, entry, boot, joining, call, closed>>

DisableTool ==
  /\ boot = <<>> /\ toggles < Toggles /\ toggles' = toggles + 1
  /\ \E i \in 1..Len(registry) :
       /\ registry[i].on
       /\ registry' = [registry EXCEPT ![i].on = FALSE]
  /\ UNCHANGED <<link, entry, boot, joining, call, closed>>

\* close() of the session: MCP transports are hung up; a language server's requests
\* are rejected at once, because stop() forgets the child before it asks it to shut down.
CloseServers ==
  /\ boot = <<>> /\ ~closed
  /\ closed' = TRUE
  /\ LET ours == {entry[s].link : s \in Servers} \ {0}
         stopped == {entry[s].link : s \in Lsp} \ {0}
     IN /\ link' = [t \in 1..Len(link) |->
                      IF t \in stopped
                      THEN [link[t] EXCEPT !.open = FALSE, !.pending = [i \in {} |-> "join"]]
                      ELSE IF t \in ours THEN HungUp(link[t]) ELSE link[t]]
        /\ Settle(UNION {Waiting(t) : t \in stopped}, "failed", "none")
  /\ entry' = [s \in Servers |-> IF s \in Lsp THEN Absent ELSE entry[s]]
  /\ UNCHANGED <<registry, boot, joining, toggles>>

-----------------------------------------------------------------------------
ServersInit ==
  /\ link = <<>> /\ entry = [s \in Servers |-> Absent] /\ registry = <<>>
  /\ boot = Configured /\ joining = [t \in {} |-> "list"]
  /\ call = [c \in Calls |-> [state |-> "new", by |-> "none"]]
  /\ toggles = 0 /\ closed = FALSE

Moves(t) ==
  \/ \E id \in DOMAIN link[t].pending : TimedOut(t, id) \/ ServerAsks(t, id)
  \/ \E q \in link[t].asked, ok \in BOOLEAN : Answer(t, q[1], q[2], ok)
  \/ CloseEvent(t)

ServersNext ==
  \/ Connect
  \/ \E t \in 1..Len(link) : Moves(t)
  \/ \E c \in Calls : CallTool(c) \/ CallLsp(c)
  \/ \E s \in Servers : Restart(s)
  \/ EnableTool \/ DisableTool \/ CloseServers

ServersSpec == ServersInit /\ [][ServersNext]_tsvars

\* Timers fire.
ServersFair ==
  \A t \in 1..Transports, id \in 1..(Cardinality(Calls) + 2) :
    WF_tsvars(t <= Len(link) /\ TimedOut(t, id))

-----------------------------------------------------------------------------
(* Properties *)

\* StdioRpcTransport: a call gets the answer to its own request, or an empty one by a
\* request that its server made up; never that of another call, however late that comes
\* and whatever the transport went through.
AnswersOwn == \A c \in Calls : call[c].state = "answered" => call[c].by \in {c, "request"}

\* Every call ends, whether its server answers, hangs, ends, is restarted or closed.
CallsSettle == \A c \in Calls : call[c].state = "waiting" ~> call[c].state # "waiting"
=============================================================================

----------------------------- MODULE AgentLoop ------------------------------
(***************************************************************************)
(* One AgentSession (src/src/agent.ts): ask() with its tool loop, beside   *)
(* what others do to the same conversation: cancel, compactHistory, reset. *)
(*                                                                         *)
(* An action is the code between two awaits that matter to the             *)
(* conversation; ask.pc names the await:                                   *)
(*   prepare   the ask_start hook and the connection probe                 *)
(*   turn      the turn_start hook and model detection                     *)
(*   archive   vault.archiveToolMessages of what the turn compacted away   *)
(*   request   client.chatStream                                           *)
(*   tools     a tool call, or between two of them                         *)
(* Awaits folded into the step around them: hook emits, the vault search   *)
(* of injectVaultContext and the vault write of each tool result.          *)
(***************************************************************************)
EXTENDS History

CONSTANTS
  Calls,           \* the signatures (name and arguments) of tool calls
  Kind,            \* Kind[c]: "read", "exec" or "edit"
  Name, Args,      \* Name[c], Args[c]: the tool, the number of arguments
  Batches,         \* the tool-call lists a response may hold, as they are sent
  MaxIters,        \* max_iterations
  NoProgressCap,   \* NO_PROGRESS_TURN_CAP
  RepromptAt,      \* NO_TOOL_REPROMPT_THRESHOLD
  RetryOnMalformed,
  InjectAt,        \* repeats after which vault context is injected
  ReadLoopAt, ExecLoopAt, EditLoopAt,  \* repeats that break the loop
  ReadsPerTurn,    \* READ_ONLY_PER_TURN_CAP
  ReadWarn,        \* READ_BUDGET_WARN
  ReadBudget,      \* READ_BUDGET_HARD
  Parallel,        \* harness.toolCalls.parallelCalls
  Vault,           \* whether the session has a vault
  MinTail, Window, MaxTokens, ToolTokens, CompactAt,
  Modes,           \* the kinds of compactHistory: "auto", "force", "hard"
  Concurrent,      \* what may happen during an ask: "compact", "reset"
  MaxAsks,         \* bound: asks in a behaviour
  MaxOutside       \* bound: calls of compactHistory and reset in a behaviour

ASSUME AgentAssumption ==
  /\ Kind \in [Calls -> {"read", "exec", "edit"}] /\ Args \in [Calls -> Nat]
  /\ DOMAIN Name = Calls
  /\ Batches \subseteq Seq(Calls)
  /\ {MaxIters, NoProgressCap, RepromptAt, RetryOnMalformed, InjectAt, ReadLoopAt,
      ExecLoopAt, EditLoopAt, ReadsPerTurn, ReadWarn, ReadBudget, MinTail, Window, MaxTokens,
      ToolTokens, CompactAt, MaxAsks, MaxOutside} \subseteq Nat
  /\ Parallel \in BOOLEAN /\ Vault \in BOOLEAN
  /\ Modes \subseteq {"auto", "force", "hard"}
  /\ Concurrent \subseteq {"compact", "reset"}

VARIABLES
  messages,  \* the conversation
  ask,       \* the locals of the ask in progress
  seen,      \* its loop detection: what it remembers of earlier calls
  comp,      \* compactHistory in progress: the conversation it will install
  batches,   \* tool-call exchanges so far, the last one's identity
  broken,    \* exchanges known to be cut short or interrupted (history variable)
  asks, outside

vars == <<messages, ask, seen, comp, batches, broken, asks, outside>>

-----------------------------------------------------------------------------
(* Messages: an answer, a narration and a tool result are long *)

Msg(role, batch, content, calls) ==
  [role |-> role, batch |-> batch, content |-> content, calls |-> calls]
Note(role) == Msg(role, 0, 1, 0)
Text == Msg("assistant", 0, ShortAnswer + 1, 0)
CallMsg(batch, n) == Msg("assistant", batch, 1, n)
ResultMsgs(batch, n) == [i \in 1..n |-> Msg("tool", batch, 2, 0)]

Idle == [pc |-> "idle", turns |-> 0, empty |-> 0, narrated |-> 0, reprompted |-> FALSE,
         repaired |-> FALSE, nudged |-> FALSE, malformed |-> 0, aborted |-> FALSE,
         todo |-> <<>>,        \* calls of the batch yet to run
         results |-> 0,        \* results collected
         invalid |-> FALSE,    \* a call of the batch had invalid arguments
         repeated |-> {},      \* calls of the batch to be answered from the cache
         next |-> <<>>]        \* the compacted conversation, during "archive"

\* at[c]: mutationVersion when c was last asked for; cached[c]: when its cached
\* observation was taken; -1 for never.
Unseen == [count |-> [c \in Calls |-> 0], at |-> [c \in Calls |-> -1],
           last |-> {}, row |-> [c \in Calls |-> 0], cached |-> [c \in Calls |-> -1],
           blocked |-> [c \in Calls |-> 0], hinted |-> {}, version |-> 0, reads |-> 0]

Free == [pc |-> "free", next |-> <<>>]

In(pcs) == ask.pc \in pcs
Elems(b) == {b[i] : i \in DOMAIN b}
Limit(force) == Threshold(Window, MaxTokens, ToolTokens, CompactAt, force)

\* Context from the vault, when a search finds any.
WithVault(h) == IF Vault THEN {h, Append(h, Note("user"))} ELSE {h}

-----------------------------------------------------------------------------
(* ask(), up to a model request *)

Ask ==
  /\ In({"idle"}) /\ asks < MaxAsks
  /\ comp.pc = "free" \/ "compact" \in Concurrent
  /\ messages' = Append(messages, Note("user"))
  /\ ask' = [Idle EXCEPT !.pc = "prepare"]
  /\ seen' = Unseen
  /\ asks' = asks + 1
  /\ UNCHANGED <<comp, batches, broken, outside>>

\* The loop is entered, the connection probe throws, or a stored review is replayed.
Prepare ==
  /\ In({"prepare"})
  /\ \/ ask' = [ask EXCEPT !.pc = "turn"] /\ UNCHANGED messages
     \/ ask' = Idle /\ messages' \in {messages, Append(messages, Text)}
  /\ UNCHANGED <<seen, comp, batches, broken, asks, outside>>

\* Mutant: the promise of ask() never settles.
FailHangs == ask' = [ask EXCEPT !.pc = "failed"]

\* The ask ends: with an answer, or with an error that leaves the conversation.
Fail == ask' = Idle

\* max_iterations, or the session timeout.
OutOfTurns ==
  /\ In({"turn"})
  /\ Fail
  /\ UNCHANGED <<messages, seen, comp, batches, broken, asks, outside>>

Turn ==
  /\ In({"turn"}) /\ ask.turns < MaxIters
  /\ LET left == Enforced(messages, MinTail, Limit(FALSE), FALSE)
         next == Sub(messages, left)
     IN  IF left = DOMAIN messages
         THEN ask' = [ask EXCEPT !.pc = "request", !.turns = @ + 1] /\ UNCHANGED messages
         ELSE IF Vault
         THEN /\ ask' = [ask EXCEPT !.pc = "archive", !.turns = @ + 1, !.next = next]
              /\ UNCHANGED messages
         ELSE /\ ask' = [ask EXCEPT !.pc = "request", !.turns = @ + 1]
              /\ messages' = Append(next, Note("system"))
  /\ UNCHANGED <<seen, comp, batches, broken, asks, outside>>

Archived ==
  /\ In({"archive"})
  /\ messages' \in WithVault(Append(ask.next, Note("system")))
  /\ ask' = [ask EXCEPT !.pc = "request", !.next = <<>>]
  /\ UNCHANGED <<seen, comp, batches, broken, asks, outside>>

-----------------------------------------------------------------------------
(* The response *)

\* An abort is heard only until the headers are there: an aborted request may still
\* answer.  What it answers counts, and the next request has a controller of its own.
Responds == In({"request"})

\* An HTTP error, a timeout of the request, or an abort.
RequestFails ==
  /\ In({"request"})
  /\ Fail
  /\ UNCHANGED <<messages, seen, comp, batches, broken, asks, outside>>

\* Neither text nor tool calls.
EmptyResponse ==
  /\ Responds
  /\ IF ask.empty + 1 >= NoProgressCap
     THEN Fail /\ UNCHANGED messages
     ELSE /\ messages' = Append(messages, Note("user"))
          /\ ask' = [ask EXCEPT !.pc = "turn", !.empty = @ + 1, !.aborted = FALSE]
  /\ UNCHANGED <<seen, comp, batches, broken, asks, outside>>

\* Planning without tool calls: nudged, then reminded of the task, then given up.
Narration ==
  /\ Responds
  /\ IF ask.narrated + 1 >= RepromptAt /\ ask.reprompted
     THEN Fail /\ messages' = Append(messages, Text)
     ELSE /\ messages' = messages \o <<Text, Note("user")>>
          /\ ask' = [ask EXCEPT !.pc = "turn", !.empty = 0, !.aborted = FALSE,
                       !.narrated = IF @ + 1 >= RepromptAt THEN 0 ELSE @ + 1,
                       !.reprompted = @ \/ ask.narrated + 1 >= RepromptAt]
  /\ UNCHANGED <<seen, comp, batches, broken, asks, outside>>

FinalAnswer ==
  /\ Responds
  /\ messages' = Append(messages, Text)
  /\ ask' = Idle
  /\ UNCHANGED <<seen, comp, batches, broken, asks, outside>>

-----------------------------------------------------------------------------
(* Tool calls: the checks before the first one runs *)

\* The calls of a batch counted: sigCounts, mutationVersionBySig, consecutiveCounts.
Counted(b) ==
  [seen EXCEPT
     !.count = [c \in Calls |-> IF c \in Elems(b) THEN @[c] + 1 ELSE @[c]],
     !.at    = [c \in Calls |-> IF c \in Elems(b) THEN seen.version ELSE @[c]],
     !.row   = [c \in Calls |-> IF c \notin Elems(b) THEN @[c]
                                ELSE IF c \in seen.last THEN @[c] + 1 ELSE 1],
     !.last  = Elems(b)]

\* An exec asked for before, with no edit since.
Unchanged(c) == Kind[c] = "exec" /\ seen.at[c] = seen.version

\* Calls that call for vault context, that break the loop, that the cache answers.
Injecting(b, s) ==
  {c \in Elems(b) : \/ Kind[c] = "read" /\ s.row[c] >= InjectAt
                    \/ Unchanged(c) /\ s.count[c] >= InjectAt /\ s.count[c] < ExecLoopAt}
Repeated(b, s) ==
  {c \in Elems(b) : Unchanged(c) /\ s.count[c] >= ExecLoopAt /\ s.cached[c] # -1}
Looping(b, s) ==
  {c \in Elems(b) : \/ Kind[c] = "read" /\ s.row[c] >= ReadLoopAt
                    \/ Kind[c] = "edit" /\ s.count[c] >= EditLoopAt
                    \/ Unchanged(c) /\ s.count[c] >= ExecLoopAt /\ s.cached[c] = -1}

IsRead(c) == Kind[c] = "read"
ReadsAt(b) == {i \in DOMAIN b : IsRead(b[i])}

\* The first ReadsPerTurn reads of a batch and every other call, in order.
Capped(b) ==
  Sub(b, {i \in DOMAIN b :
            i \in ReadsAt(b) => Cardinality({j \in ReadsAt(b) : j <= i}) <= ReadsPerTurn})

Order(b) == IF Parallel THEN Sub(b, ReadsAt(b)) \o Sub(b, DOMAIN b \ ReadsAt(b)) ELSE b

\* Where the calls stand that have most arguments of the calls of their tool: the
\* others pass for ghosts.
Richest(b) ==
  {i \in DOMAIN b : \A j \in DOMAIN b : Name[b[j]] = Name[b[i]] => Args[b[j]] <= Args[b[i]]}

\* Ghosts are dropped, and the calls of one tool put together where its first one stood.
FirstOf(b, i) == Min({j \in DOMAIN b : Name[b[j]] = Name[b[i]]})
Before(b, i) ==
  {j \in Richest(b) : \/ FirstOf(b, j) < FirstOf(b, i)
                      \/ FirstOf(b, j) = FirstOf(b, i) /\ j < i}
Deduped(b) ==
  LET nth(n) == CHOOSE i \in Richest(b) : Cardinality(Before(b, i)) = n - 1
  IN  [n \in 1..Cardinality(Richest(b)) |-> b[nth(n)]]

ToolCalls(sent) ==
  /\ Responds
  /\ batches' = batches + 1
  /\ LET b     == Deduped(sent)
         s     == Counted(b)
         kept  == Capped(b)
         said  == Append(messages, CallMsg(batches', Len(b)))
         loops == Looping(b, s) # {}
     IN  \E next \in IF Injecting(b, s) # {} THEN WithVault(said) ELSE {said} :
           /\ messages' = next
           /\ broken' = IF loops \/ next # said THEN broken \cup {batches'} ELSE broken
           /\ seen' = [s EXCEPT !.reads = @ + Cardinality(ReadsAt(kept))]
           /\ IF loops THEN Fail
              ELSE ask' = [ask EXCEPT !.pc = "tools", !.empty = 0, !.narrated = 0,
                             !.todo = Order(kept), !.results = Len(b) - Len(kept),
                             !.invalid = FALSE, !.repeated = Repeated(b, s)]
  /\ UNCHANGED <<comp, asks, outside>>

-----------------------------------------------------------------------------
(* Tool calls: one after the other *)

\* Behind an aborted request only reads that run in parallel are begun.
Begun(c) == ~ask.aborted \/ (Parallel /\ IsRead(c))
Running(c) == In({"tools"}) /\ ask.todo # <<>> /\ c = Head(ask.todo) /\ Begun(c)

\* The call has its result.
Answered ==
  /\ ask' = [ask EXCEPT !.todo = Tail(@), !.results = @ + 1]
  /\ UNCHANGED broken

\* Its result is an error; behind a failed edit the rest of the batch is left out.
AnsweredError(c, invalid, malformed) ==
  /\ ask' = [ask EXCEPT !.todo = IF Kind[c] = "edit" THEN <<>> ELSE Tail(@), !.results = @ + 1,
                         !.invalid = @ \/ invalid, !.malformed = malformed]
  /\ broken' = IF Kind[c] = "edit" /\ Len(ask.todo) > 1 THEN broken \cup {batches} ELSE broken

\* A read that ran or that the budget refused; a call refused by the user, or stubbed
\* in plan mode.
Declined(c) ==
  /\ Running(c)
  /\ Answered
  /\ UNCHANGED <<messages, seen, comp, batches, asks, outside>>

\* The observation of an earlier run is given again.
Cached(c) ==
  /\ Running(c) /\ c \in ask.repeated
  /\ Answered
  /\ UNCHANGED <<messages, seen, comp, batches, asks, outside>>

\* A command ran; its observation is cached when it exited with 0.
Exec(c) ==
  /\ Running(c) /\ Kind[c] = "exec" /\ c \notin ask.repeated
  /\ \E ok \in BOOLEAN :
       seen' = [seen EXCEPT !.blocked = [d \in Calls |-> 0],
                            !.cached[c] = IF ok THEN seen.version ELSE @]
  /\ Answered
  /\ UNCHANGED <<messages, comp, batches, asks, outside>>

Edit(c) ==
  /\ Running(c) /\ Kind[c] = "edit"
  /\ seen' = [seen EXCEPT !.version = @ + 1]
  /\ Answered
  /\ UNCHANGED <<messages, comp, batches, asks, outside>>

\* A failure is a result too: of the tool, or of the validation of its arguments.
Failed(c) ==
  /\ Running(c)
  /\ \E invalid \in BOOLEAN : AnsweredError(c, invalid, ask.malformed)
  /\ UNCHANGED <<messages, seen, comp, batches, asks, outside>>

\* AgentLoopBreak: the ask ends in the middle of the batch.
Break == Fail /\ broken' = broken \cup {batches}

\* Arguments that are not valid JSON.
Malformed(c) ==
  /\ Running(c)
  /\ IF ask.malformed + 1 > RetryOnMalformed THEN Break
     ELSE AnsweredError(c, TRUE, ask.malformed + 1)
  /\ UNCHANGED <<messages, seen, comp, batches, asks, outside>>

\* A command the approval mode forbids, a second time ends the ask.
Blocked(c) ==
  /\ Running(c) /\ Kind[c] = "exec" /\ c \notin ask.repeated
  /\ seen' = [seen EXCEPT !.blocked[c] = @ + 1]
  /\ IF seen.blocked[c] + 1 >= 2 THEN Break ELSE AnsweredError(c, FALSE, ask.malformed)
  /\ UNCHANGED <<messages, comp, batches, asks, outside>>

\* The tool calls of an aborted request: the ask ends before their results are kept.
LateAbort ==
  /\ In({"tools"}) /\ ask.aborted
  /\ ask.todo # <<>> => ~Begun(Head(ask.todo))
  /\ Break
  /\ UNCHANGED <<messages, seen, comp, batches, asks, outside>>

\* The batch is over: its results join the conversation, and notes when the model
\* must be told of reuse, once of green tests after an edit, of its read budget, and
\* once of invalid arguments.
ToolsDone ==
  /\ In({"tools"}) /\ ask.todo = <<>> /\ ~ask.aborted
  /\ \E green \in {FALSE, ~ask.nudged /\ seen.version > 0} :
       LET new    == ask.repeated \ seen.hinted
           repair == ask.invalid /\ ~ask.repaired
           warn   == seen.reads > ReadWarn /\ seen.reads <= ReadBudget
           Said(b) == IF b THEN <<Note("user")>> ELSE <<>>
       IN  /\ messages' = messages \o ResultMsgs(batches, ask.results)
                            \o Said(new # {}) \o Said(green) \o Said(warn) \o Said(repair)
           /\ seen' = [seen EXCEPT !.hinted = @ \cup new]
           /\ ask' = [ask EXCEPT !.pc = "turn", !.results = 0, !.repeated = {},
                        !.invalid = FALSE, !.repaired = @ \/ repair, !.nudged = @ \/ green]
  /\ UNCHANGED <<comp, batches, broken, asks, outside>>

-----------------------------------------------------------------------------
(* What others do to the session *)

\* Only a model request hears it.
Cancel ==
  /\ In({"request"}) /\ ~ask.aborted
  /\ ask' = [ask EXCEPT !.aborted = TRUE]
  /\ UNCHANGED <<messages, seen, comp, batches, broken, asks, outside>>

Outside(what) ==
  /\ In({"idle"}) \/ what \in Concurrent
  /\ outside < MaxOutside /\ outside' = outside + 1

\* The conversation compactHistory installs, in each of its modes.
Compacted(mode) ==
  IF mode = "hard"
  THEN Sub(messages, Sys(messages)) \o
       SubSeq(messages, Max({1, Len(messages) - 1}), Len(messages))
  ELSE LET force == mode = "force" IN
       Sub(messages, Enforced(messages, IF force THEN 2 ELSE MinTail, Limit(force), force))

CompactHistory(mode) ==
  /\ comp.pc = "free" /\ Outside("compact")
  /\ LET next == Compacted(mode) IN
     IF Len(next) >= Len(messages) THEN messages' = next /\ UNCHANGED comp
     ELSE IF Vault THEN comp' = [pc |-> "archive", next |-> next] /\ UNCHANGED messages
     ELSE messages' = Append(next, Note("system")) /\ UNCHANGED comp
  /\ UNCHANGED <<ask, seen, batches, broken, asks>>

\* Archived: what was read before the await replaces what is there now.
Compaction ==
  /\ comp.pc = "archive"
  /\ messages' \in WithVault(Append(comp.next, Note("system")))
  /\ comp' = Free
  /\ UNCHANGED <<ask, seen, batches, broken, asks, outside>>

Reset ==
  /\ Outside("reset")
  /\ messages' = <<Note("system")>>
  /\ UNCHANGED <<ask, seen, comp, batches, broken, asks>>

-----------------------------------------------------------------------------
Init ==
  /\ messages = <<Note("system")>>
  /\ ask = Idle /\ seen = Unseen /\ comp = Free
  /\ batches = 0 /\ broken = {}
  /\ asks = 0 /\ outside = 0

RunCall(c) == Declined(c) \/ Cached(c) \/ Exec(c) \/ Edit(c) \/ Failed(c) \/ Malformed(c) \/ Blocked(c)

AskStep ==
  \/ Prepare \/ OutOfTurns \/ Turn \/ Archived
  \/ RequestFails \/ EmptyResponse \/ Narration \/ FinalAnswer
  \/ \E sent \in Batches : ToolCalls(sent)
  \/ \E c \in Calls : RunCall(c)
  \/ ToolsDone \/ LateAbort

Next ==
  \/ Ask \/ AskStep \/ Cancel \/ Compaction \/ Reset
  \/ \E mode \in Modes : CompactHistory(mode)

Spec == Init /\ [][Next]_vars

\* Each await of ask() settles: the model's by response_timeout at the latest.
FairSpec == Spec /\ WF_vars(AskStep) /\ WF_vars(Compaction)

-----------------------------------------------------------------------------
(* Properties *)

\* In the conversation h every tool call is answered, its results right behind it, and
\* every result has its call, but for the exchanges in B.
Answers(h, B) ==
  \A i \in DOMAIN h :
    h[i].batch \notin B =>
      /\ IsCaller(h[i]) =>
           \A k \in 1..h[i].calls :
             /\ i + k \in DOMAIN h
             /\ IsResult(h[i + k]) /\ h[i + k].batch = h[i].batch
      /\ IsResult(h[i]) =>
           \E c \in DOMAIN h : Follows(h, c, i) /\ h[c].batch = h[i].batch

\* The exchange in progress: its results have not joined the conversation.
Open == IF ask.pc = "tools" THEN {batches} ELSE {}

\* "the OpenAI protocol contract": no tool call without its results, no result without
\* its call.  The exceptions are the exchanges cut short by a failed edit or an error,
\* and those that vault context was put into; compaction, in any mode that keeps to
\* groups, makes no new one.
ExchangesWhole == Answers(messages, broken \cup Open)
=============================================================================

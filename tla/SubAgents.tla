----------------------------- MODULE SubAgents -----------------------------
(***************************************************************************)
(* Delegated tasks and the steps of a plan in one session                  *)
(* (src/src/agent.ts).  spawn_task runs a sub-agent for its caller: the    *)
(* model's tool call of the ask in progress, or a plan step the user       *)
(* approves meanwhile.  A chain of promises lets one of them work at a     *)
(* time: each waits for the promise the one before it resolves.            *)
(*                                                                         *)
(* at[c] is where the spawn_task of caller c is:                           *)
(*   context   buildSubAgentContextBlock reads the files that go along     *)
(*   queued    enqueueSubTask waits for the promise of the one before      *)
(*   listing   the checkpoints before are listed                           *)
(*   asking    the sub-session is made and asked                           *)
(*   closing   the sub-session is closed                                   *)
(*   reporting the checkpoints after are listed                            *)
(*   ok, threw the call has settled and the caller has not gone on         *)
(***************************************************************************)
EXTENDS Sequences, SequencesExt, Integers

CONSTANTS
  Asker,        \* the ask of the session, which calls one mutating tool at a time
  Approving,    \* runs of executePlanStep
  MaxCalls,     \* bound: spawn_task calls
  MaxSteps      \* bound: plan steps recorded

Callers == {Asker} \union Approving
Steps == 1..MaxSteps

VARIABLES
  at,
  seq,       \* subTaskSeq, the calls so far
  pending,   \* subTaskQueuePending
  promise,   \* promise[c]: the promise c waits for; 0 is the resolved one at first
  own,       \* own[c]: the promise c resolves
  tail,      \* subTaskQueueTail
  resolved,  \* the promises resolved
  order,     \* history: the callers in the order they entered the queue
  planMode,  \* approval_mode is "plan"
  recorded,  \* steps recorded so far
  plan,      \* planSteps, oldest first
  executed,  \* the steps whose executed is set
  todo       \* todo[a]: toExec of the approval, its first step under way

tasks == <<at, seq, pending, promise, own, tail, resolved, order>>
steps == <<planMode, recorded, plan, executed, todo>>
savars == <<tasks, steps>>

Goes(c, to) == at' = [at EXCEPT ![c] = to]

-----------------------------------------------------------------------------
(* runSpawnTaskCore *)

\* What can be refused before the queue is: no task, a delegated package install.
Call(c) ==
  /\ at[c] = "idle" /\ seq < MaxCalls
  /\ \/ Goes(c, "threw") /\ UNCHANGED seq
     \/ Goes(c, "context") /\ seq' = seq + 1
  /\ UNCHANGED <<pending, promise, own, tail, resolved, order>>

\* Mutant of Enqueue: the tail is not moved, and all wait for the same promise.
EnqueueBeside(c) ==
  /\ at[c] = "context"
  /\ pending' = pending + 1
  /\ promise' = [promise EXCEPT ![c] = tail]
  /\ own' = [own EXCEPT ![c] = tail + 1]
  /\ order' = Append(order, c)
  /\ Goes(c, "queued")
  /\ UNCHANGED <<seq, resolved, tail>>

\* enqueueSubTask up to its await.
Enqueue(c) ==
  /\ at[c] = "context"
  /\ LET mine == tail + 1 IN
       /\ pending' = pending + 1
       /\ promise' = [promise EXCEPT ![c] = tail]
       /\ own' = [own EXCEPT ![c] = mine]
       /\ tail' = mine
  /\ order' = Append(order, c)
  /\ Goes(c, "queued")
  /\ UNCHANGED <<seq, resolved>>

TurnComes(c) ==
  /\ at[c] = "queued" /\ promise[c] \in resolved
  /\ Goes(c, "listing")
  /\ UNCHANGED <<seq, pending, promise, own, tail, resolved, order>>

\* The finally block of enqueueSubTask.
Release(c) ==
  /\ pending' = IF pending > 0 THEN pending - 1 ELSE 0
  /\ resolved' = resolved \union {own[c]}
  /\ order' = RemoveAt(order, CHOOSE i \in DOMAIN order : order[i] = c)

\* Listing checkpoints or making the sub-session throws.
FailsToStart(c) ==
  /\ at[c] = "listing"
  /\ Release(c)
  /\ Goes(c, "threw")
  /\ UNCHANGED <<seq, promise, own, tail>>

\* The ask of the sub-session, whose failure becomes text, and its close().
Works(c) ==
  /\ \/ at[c] = "listing" /\ Goes(c, "asking")
     \/ at[c] = "asking" /\ Goes(c, "closing")
     \/ at[c] = "closing" /\ Goes(c, "reporting")
  /\ UNCHANGED <<seq, pending, promise, own, tail, resolved, order>>

\* summarizeReplayDelta and the report; a failed task is reported, not thrown.
Reports(c) ==
  /\ at[c] = "reporting"
  /\ Release(c)
  /\ Goes(c, "ok")
  /\ UNCHANGED <<seq, promise, own, tail>>

-----------------------------------------------------------------------------
(* The ask in progress *)

\* In plan mode a mutating call is recorded as a step and not executed.
Blocked ==
  /\ planMode /\ at[Asker] = "idle" /\ recorded < MaxSteps
  /\ recorded' = recorded + 1
  /\ plan' = Append(plan, recorded')
  /\ UNCHANGED <<tasks, planMode, executed, todo>>

Delegates == ~planMode /\ Call(Asker) /\ UNCHANGED steps

AskGoesOn ==
  /\ at[Asker] \in {"ok", "threw"}
  /\ Goes(Asker, "idle")
  /\ UNCHANGED <<seq, pending, promise, own, tail, resolved, order, steps>>

-----------------------------------------------------------------------------
(* /plan, /approve, /reject *)

TogglePlan ==
  /\ planMode' = ~planMode
  /\ UNCHANGED <<tasks, recorded, plan, executed, todo>>

\* executePlanStep: which steps are executed is settled here.
Approve(a) ==
  /\ todo[a] = <<>>
  /\ LET open == SelectSeq(plan, LAMBDA s : s \notin executed) IN
       /\ open # <<>>
       /\ todo' \in {[todo EXCEPT ![a] = open]}
                    \union {[todo EXCEPT ![a] = <<s>>] : s \in Range(open)}
  /\ UNCHANGED <<tasks, planMode, recorded, plan, executed>>

StepEnds(a, done) ==
  /\ executed' = IF done THEN executed \union {Head(todo[a])} ELSE executed
  /\ todo' = [todo EXCEPT ![a] = Tail(@)]

\* A step that is no spawn_task: it works, or is left open.
ToolStep(a) ==
  /\ todo[a] # <<>> /\ at[a] = "idle"
  /\ \E done \in BOOLEAN : StepEnds(a, done)
  /\ UNCHANGED <<tasks, planMode, recorded, plan>>

DelegatedStep(a) == todo[a] # <<>> /\ Call(a) /\ UNCHANGED steps

DelegatedStepEnds(a) ==
  /\ at[a] \in {"ok", "threw"}
  /\ StepEnds(a, at[a] = "ok")
  /\ Goes(a, "idle")
  /\ UNCHANGED <<seq, pending, promise, own, tail, resolved, order, planMode, recorded, plan>>

\* /reject: an approval under way keeps the steps it took.
Reject ==
  /\ plan # <<>> /\ plan' = <<>>
  /\ UNCHANGED <<tasks, planMode, recorded, executed, todo>>

-----------------------------------------------------------------------------
SubInit ==
  /\ at = [c \in Callers |-> "idle"] /\ seq = 0 /\ pending = 0
  /\ promise = [c \in Callers |-> 0] /\ own = [c \in Callers |-> 0]
  /\ tail = 0 /\ resolved = {0} /\ order = <<>>
  /\ planMode = FALSE /\ recorded = 0 /\ plan = <<>> /\ executed = {}
  /\ todo = [a \in Approving |-> <<>>]

TaskMoves(c) == Enqueue(c) \/ TurnComes(c) \/ FailsToStart(c) \/ Works(c) \/ Reports(c)

SubNext ==
  \/ Blocked \/ Delegates \/ AskGoesOn \/ TogglePlan \/ Reject
  \/ \E a \in Approving : Approve(a) \/ ToolStep(a) \/ DelegatedStep(a) \/ DelegatedStepEnds(a)
  \/ \E c \in Callers : TaskMoves(c) /\ UNCHANGED steps

SubSpec == SubInit /\ [][SubNext]_savars

-----------------------------------------------------------------------------
\* One sub-agent works at a time ("enforce sequential execution on single-GPU
\* setups", agent.ts:1150), the callers in the order they came; and whichever of those
\* before it failed, the first who waits is called when nobody works.
Working == {c \in Callers : at[c] \in {"listing", "asking", "closing", "reporting"}}

DelegatesInTurn ==
  /\ pending = Len(order)
  /\ IF Working # {} THEN Working = {Head(order)}
     ELSE order # <<>> => promise[Head(order)] \in resolved
=============================================================================

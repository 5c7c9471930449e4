---------------------------- MODULE DiscordTurns -----------------------------
(***************************************************************************)
(* The turns of one chat of the Discord bot (src/src/bot/discord.ts): the  *)
(* message handler, processMessage with its watchdog and its escalations,  *)
(* and the commands that run beside it.  Unlike the Telegram bot of        *)
(* BotTurns, a chat's session is one mutable object that is kept while its *)
(* AgentSession is made anew, a session is created without being reserved, *)
(* and an escalated message is processed inside the turn that asked for    *)
(* it.  pc[m] is where the handling of message m awaits:                   *)
(*   creating     getOrCreate: createSession for a chat without session    *)
(*   pending      recreateSession for /escalate, at the start of a turn    *)
(*   keyword      recreateSession for a keyword of the message             *)
(*   placeholder  "Thinking..."                                            *)
(*   asking       session.ask                                              *)
(*   compacting   the watchdog's compaction, after its abort               *)
(*   announcing   "Escalating to ...", then                                *)
(*   escalating   recreateSession for the model's own request              *)
(*   closing      the streamer's last edits                                *)
(*   restoring    recreateSession of the finally block: the base model     *)
(*   queued       in pendingQueue                                          *)
(*   timer        the 200 ms before the next message                       *)
(*   done, lost   handled; dropped without a turn                          *)
(***************************************************************************)
EXTENDS Integers, Sequences, SequencesExt

CONSTANTS
  Messages,        \* user messages to one chat
  Objects,         \* bound: ManagedSessions are 1..Objects
  MaxQueue,        \* botConfig.max_queue
  Tiers,           \* escalation models, may be 0
  MaxEscalations,  \* max_escalations
  MaxCompactions,  \* the watchdog's compactions of a turn
  MayFail,         \* may createSession fail?
  MaxCommands      \* bound: commands of the user

ASSUME DiscordAssumption ==
  /\ {Objects, MaxQueue, Tiers, MaxEscalations, MaxCompactions, MaxCommands} \subseteq Nat
  /\ MayFail \in BOOLEAN /\ 0 \notin Messages

VARIABLES
  object,     \* ManagedSessions
  here,       \* the chat's entry in `sessions`, or 0
  made,       \* ManagedSessions made so far
  pc, turn,   \* per message: where it awaits; its locals
  remaking,   \* recreateSession calls of commands that await, per object
  commands, failed  \* commands so far; has a createSession failed?

dvars == <<object, here, made, pc, turn, remaking, commands, failed>>

\* A turn id is good for comparing only: the message, and how deep its turn is nested.
\* A turn that begins again on a new AgentSession forgets the id it had.
NoId == <<0, 0>>

NewObject ==
  [inFlight |-> FALSE, state |-> "idle", queue |-> <<>>,
   last |-> NoId,        \* activeTurnId: the last turn that began, as Id names it
   asker |-> 0,          \* the message whose attempt activeAbortController aborts, or 0
   tier |-> 0,           \* currentModelIndex
   escalations |-> 0,
   pending |-> 0,        \* pendingEscalation: a tier, or 0
   compactions |-> 0,
   begun |-> FALSE]      \* the last turn began on the present AgentSession

NoTurn == [of |-> 0,      \* its session
           depth |-> 0,   \* processMessage calls for this message that await it
           aborted |-> FALSE, compacting |-> FALSE]

At(m, places) == pc[m] \in places
Go(m, place) == pc' = [pc EXCEPT ![m] = place]
Of(m) == object[turn[m].of]
Id(m) == <<m, turn[m].depth>>
Active(m) == Of(m).inFlight /\ Of(m).last = Id(m) /\ Of(m).state # "resetting"

\* What aborting object o's attempt does to turns.
Aborted(o) ==
  IF object[o].asker = 0 THEN turn ELSE [turn EXCEPT ![object[o].asker].aborted = TRUE]

\* The messages that were in a queue and are no longer.
Dropped(o) == ToSet(object[o].queue)
Lose(set, place) == [m \in Messages |-> IF m \in set THEN "lost" ELSE place[m]]

-----------------------------------------------------------------------------
(* recreateSession: its part before createSession, and the two that may follow *)

Unmade(o) == [object[o] EXCEPT !.state = "resetting", !.queue = <<>>]

Remade(o) == [object[o] EXCEPT !.inFlight = FALSE, !.state = "idle", !.asker = 0,
                               !.begun = FALSE]

Outcomes == IF MayFail THEN BOOLEAN ELSE {TRUE}
Failing(ok) == failed' = (failed \/ ~ok)

-----------------------------------------------------------------------------
(* The start of a turn *)

Begun(ob, id) ==
  [ob EXCEPT !.inFlight = TRUE, !.state = "running", !.last = id, !.asker = 0,
             !.compactions = 0, !.begun = TRUE]

MayBegin(ob) == ~ob.inFlight /\ ob.state # "resetting"

\* A tier is taken up: the part of recreateSession before its await.
Raised(ob, tier) ==
  [ob EXCEPT !.tier = tier, !.queue = <<>>, !.state = "resetting",
             !.escalations = IF @ < MaxEscalations THEN @ + 1 ELSE @]

\* A keyword of the message may ask for a tier above the session's.
Onward(ob) == {"placeholder"} \cup (IF ob.tier < Tiers THEN {"keyword"} ELSE {})
FirstSteps(ob) == IF ob.pending > 0 THEN {"pending"} ELSE Onward(ob)

\* beginTurn, then up to the next await, one of `steps`: the placeholder, or one of
\* recreateSession. `t` is what the message's turn was.
StartTurn(m, o, ob, t, steps) ==
  LET begun == Begun(ob, <<m, t.depth>>)
  IN \E next \in steps :
       /\ turn' = [turn EXCEPT ![m] = [t EXCEPT !.of = o, !.aborted = FALSE,
                                                !.compacting = FALSE]]
       /\ CASE next = "placeholder" -> object' = [object EXCEPT ![o] = begun]
            [] next = "pending" ->
                 object' = [object EXCEPT ![o] =
                              [Raised(begun, begun.pending) EXCEPT !.pending = 0]]
            [] next = "keyword" ->
                 \E tier \in begun.tier + 1 .. Tiers :
                   object' = [object EXCEPT ![o] = Raised(begun, tier)]
       /\ pc' = [IF next = "placeholder" THEN pc ELSE Lose(ToSet(ob.queue), pc)
                   EXCEPT ![m] = next]

\* The handler, once it has the session: into the queue, or into a turn.
Dispatch(m, o, ob) ==
  IF ob.inFlight
  THEN /\ IF Len(ob.queue) >= MaxQueue
          THEN Go(m, "lost") /\ object' = [object EXCEPT ![o] = ob]
          ELSE Go(m, "queued") /\
               object' = [object EXCEPT ![o] = [ob EXCEPT !.queue = Append(@, m)]]
       /\ turn' = [turn EXCEPT ![m].of = o]
  ELSE IF MayBegin(ob)
  THEN StartTurn(m, o, ob, NoTurn, FirstSteps(ob))
  ELSE Go(m, "lost") /\ object' = [object EXCEPT ![o] = ob] /\ UNCHANGED turn

\* A message. A chat without a session gets one, which others do not wait for.
Arrive(m) ==
  /\ At(m, {"new"})
  /\ IF here # 0 THEN Dispatch(m, here, object[here])
                 ELSE Go(m, "creating") /\ UNCHANGED <<object, turn>>
  /\ UNCHANGED <<here, made, remaking, commands, failed>>

Created(m, ok) ==
  /\ At(m, {"creating"}) /\ ok \in Outcomes /\ made < Objects
  /\ IF ok THEN /\ made' = made + 1 /\ here' = made + 1
                /\ Dispatch(m, made + 1, NewObject)
           ELSE Go(m, "lost") /\ UNCHANGED <<object, here, made, turn>>
  /\ Failing(ok)
  /\ UNCHANGED <<remaking, commands>>

\* processMessage returns: into the turn that awaits it, whose finally block is next, or
\* for good.
Caller(m) == IF turn[m].depth > 0 THEN "finally" ELSE "done"
CallerTurn(m) ==
  IF turn[m].depth > 0 THEN [turn[m] EXCEPT !.depth = @ - 1, !.compacting = FALSE] ELSE NoTurn

\* recreateSession of a turn that starts returned or threw. After a keyword's failure the
\* turn goes on. Otherwise it begins again, or is over without a finally block of its own
\* when the session is still resetting.
Escalated(m, ok) ==
  /\ At(m, {"pending", "keyword"}) /\ ok \in Outcomes
  /\ LET o == turn[m].of
         ob == IF ok THEN Remade(o) ELSE object[o]
     IN IF ~ok /\ pc[m] = "keyword"
        THEN Go(m, "placeholder") /\ UNCHANGED <<object, turn>>
        ELSE IF MayBegin(ob)
        THEN StartTurn(m, o, ob, turn[m],
                       IF pc[m] = "pending" THEN Onward(ob) ELSE {"placeholder"})
        ELSE /\ object' = [object EXCEPT ![o] = ob]
             /\ turn' = [turn EXCEPT ![m] = CallerTurn(m)]
             /\ Go(m, Caller(m))
  /\ Failing(ok)
  /\ UNCHANGED <<here, made, remaking, commands>>

-----------------------------------------------------------------------------
(* The ask *)

\* Each attempt has a controller of its own.
Attempt(m) ==
  /\ object' = [object EXCEPT ![turn[m].of].asker = m]
  /\ turn' = [turn EXCEPT ![m].aborted = FALSE]
  /\ Go(m, "asking")

Ask(m) ==
  /\ At(m, {"placeholder"}) /\ Attempt(m)
  /\ UNCHANGED <<here, made, remaking, commands, failed>>

\* ask returned (an answer, or one that asks for a larger model) or threw; an error and
\* an answer are shown alike. A turn that is not active any more leaves without a word; an
\* abort by the watchdog's compaction is retried after it.
AskEnds(m, how) ==
  /\ At(m, {"asking"})
  /\ how = "aborted" => turn[m].aborted
  /\ CASE how = "aborted" /\ turn[m].compacting -> Go(m, "compacting")
       [] ~Active(m) -> Go(m, "finally")
       [] how = "escalate" /\ Tiers > 0 /\ Of(m).escalations < MaxEscalations ->
            Go(m, "announcing")
       [] OTHER -> Go(m, "closing")
  /\ UNCHANGED <<object, here, made, turn, remaking, commands, failed>>

Retry(m) ==
  /\ At(m, {"compacting"}) /\ ~turn[m].compacting
  /\ Attempt(m)
  /\ UNCHANGED <<here, made, remaking, commands, failed>>

NextTier(o) == IF object[o].tier < Tiers THEN object[o].tier + 1 ELSE Tiers

\* The model asked for a larger one: the session is made anew, ...
Announced(m) ==
  /\ At(m, {"announcing"})
  /\ LET o == turn[m].of IN
       /\ object' = [object EXCEPT ![o] =
            [Raised(object[o], NextTier(o)) EXCEPT !.pending = NextTier(o)]]
       /\ turn' = Aborted(o)
       /\ pc' = [Lose(Dropped(o), pc) EXCEPT ![m] = "escalating"]
  /\ UNCHANGED <<here, made, remaking, commands, failed>>

\* ... and the message is processed again, inside its turn.
Rerun(m, ok) ==
  /\ At(m, {"escalating"}) /\ ok \in Outcomes
  /\ LET ob == Remade(turn[m].of)
     IN IF ok
        THEN StartTurn(m, turn[m].of, ob, [turn[m] EXCEPT !.depth = @ + 1], FirstSteps(ob))
        ELSE Go(m, "finally") /\ UNCHANGED <<object, turn>>
  /\ Failing(ok)
  /\ UNCHANGED <<here, made, remaking, commands>>

Closed(m) ==
  /\ At(m, {"closing"}) /\ Go(m, "finally")
  /\ UNCHANGED <<object, here, made, turn, remaking, commands, failed>>

-----------------------------------------------------------------------------
(* The finally block *)

\* The head of the queue is taken; it is processed after a pause if the session is idle
\* then, and now.
Shift(m, o, ob, place) ==
  LET next == Head(ob.queue)
      left == [place EXCEPT ![m] = Caller(m)]
  IN /\ IF ob.queue = <<>>
        THEN pc' = left /\ object' = [object EXCEPT ![o] = ob]
        ELSE /\ pc' = [left EXCEPT ![next] = IF MayBegin(ob) /\ ob.state = "idle"
                                             THEN "timer" ELSE "lost"]
             /\ object' = [object EXCEPT ![o] = [ob EXCEPT !.queue = Tail(@)]]
     /\ turn' = [turn EXCEPT ![m] = CallerTurn(m)]

\* Mutant: whatever turn comes by ends the session's.
FinishedAny(m) == [Of(m) EXCEPT !.inFlight = FALSE, !.state = "idle", !.asker = 0]

\* finishTurn: only the turn that is the session's last one ends it.
Finished(m) ==
  LET ob == Of(m)
  IN IF ob.last = Id(m)
     THEN [ob EXCEPT !.inFlight = FALSE, !.state = "idle", !.asker = 0]
     ELSE ob

\* Back to the base model, with a session made anew, or on to the next message.
Finally(m) ==
  /\ At(m, {"finally"})
  /\ LET o == turn[m].of
         ob == Finished(m)
     IN IF ob.tier > 0
        THEN /\ object' = [object EXCEPT ![o] =
                  [ob EXCEPT !.tier = 0, !.escalations = 0, !.state = "resetting",
                             !.queue = <<>>]]
             /\ turn' = IF ob.asker = 0 THEN turn
                        ELSE [turn EXCEPT ![ob.asker].aborted = TRUE]
             /\ pc' = [Lose(Dropped(o), pc) EXCEPT ![m] = "restoring"]
        ELSE Shift(m, o, ob, pc)
  /\ UNCHANGED <<here, made, remaking, commands, failed>>

Restored(m, ok) ==
  /\ At(m, {"restoring"}) /\ ok \in Outcomes
  /\ LET o == turn[m].of
     IN Shift(m, o, IF ok THEN Remade(o) ELSE object[o], pc)
  /\ Failing(ok)
  /\ UNCHANGED <<here, made, remaking, commands>>

\* Of the session the message was queued in, which may not be the chat's any more.
Timer(m) ==
  /\ At(m, {"timer"})
  /\ IF Of(m).state = "idle" /\ ~Of(m).inFlight
     THEN StartTurn(m, turn[m].of, Of(m), NoTurn, FirstSteps(Of(m)))
     ELSE Go(m, "lost") /\ UNCHANGED <<object, turn>>
  /\ UNCHANGED <<here, made, remaking, commands, failed>>

-----------------------------------------------------------------------------
(* The watchdog, and commands *)

MayCompact(ob) == ob.compactions < MaxCompactions

\* No progress for the watchdog's time, and no grace left: abort, compact and retry; or
\* cancel when that was done often enough.
Watchdog(m) ==
  /\ At(m, {"asking"}) /\ Active(m) /\ ~turn[m].compacting
  /\ LET o == turn[m].of
     IN IF MayCompact(Of(m))
        THEN /\ object' = [object EXCEPT ![o].compactions = @ + 1]
             /\ turn' = [Aborted(o) EXCEPT ![m].compacting = TRUE]
             /\ UNCHANGED pc
        ELSE /\ object' = [object EXCEPT ![o].state = "canceling", ![o].queue = <<>>]
             /\ turn' = Aborted(o)
             /\ pc' = Lose(Dropped(o), pc)
  /\ UNCHANGED <<here, made, remaking, commands, failed>>

\* Mutant: a compaction that fails stays pending.
CompactionEndsOnce(m) ==
  /\ turn[m].compacting /\ ~At(m, {"compacting"})
  /\ turn' = [turn EXCEPT ![m].compacting = FALSE]
  /\ UNCHANGED <<object, here, made, pc, remaking, commands, failed>>

\* compactHistory returned or threw.
CompactionEnds(m) ==
  /\ turn[m].compacting
  /\ turn' = [turn EXCEPT ![m].compacting = FALSE]
  /\ UNCHANGED <<object, here, made, pc, remaking, commands, failed>>

Command == commands < MaxCommands /\ commands' = commands + 1

\* /new, /reset, and the clean-up of sessions that were idle for long: destroySession.
Destroy ==
  /\ Command /\ here # 0
  /\ object' = [object EXCEPT ![here] = Unmade(here)]
  /\ turn' = Aborted(here)
  /\ pc' = Lose(Dropped(here), pc)
  /\ here' = 0
  /\ UNCHANGED <<made, remaking, failed>>

\* /cancel: cancelActive. A turn that has no attempt in progress is not told.
Cancel ==
  /\ Command /\ here # 0
  /\ object[here].inFlight \/ object[here].queue # <<>>
  /\ object' = [object EXCEPT ![here].queue = <<>>,
                              ![here].state = IF object[here].inFlight THEN "canceling" ELSE @]
  /\ turn' = IF object[here].inFlight THEN Aborted(here) ELSE turn
  /\ pc' = Lose(Dropped(here), pc)
  /\ UNCHANGED <<here, made, remaking, failed>>

\* /escalate: the next turn will.
Escalate ==
  /\ Command /\ here # 0 /\ Tiers > 0
  /\ \E tier \in 1..Tiers : object' = [object EXCEPT ![here].pending = tier]
  /\ UNCHANGED <<here, made, pc, turn, remaking, failed>>

\* recreateSession of a command, whatever the session is doing.
Remaking(o, ob) ==
  /\ object' = [object EXCEPT ![o] = ob]
  /\ turn' = Aborted(o)
  /\ pc' = Lose(Dropped(o), pc)
  /\ remaking' = [remaking EXCEPT ![o] = @ + 1]
  /\ UNCHANGED <<here, made, failed>>

\* /deescalate
Deescalate ==
  /\ Command /\ here # 0
  /\ object[here].tier > 0 \/ object[here].pending > 0
  /\ Remaking(here, [Unmade(here) EXCEPT !.pending = 0, !.tier = 0])

\* /dir of another directory
Dir == Command /\ here # 0 /\ Remaking(here, Unmade(here))

RemakeEnds(o, ok) ==
  /\ remaking[o] > 0 /\ ok \in Outcomes
  /\ remaking' = [remaking EXCEPT ![o] = @ - 1]
  /\ object' = IF ok THEN [object EXCEPT ![o] = Remade(o)] ELSE object
  /\ Failing(ok)
  /\ UNCHANGED <<here, made, pc, turn, commands>>

-----------------------------------------------------------------------------
DiscordInit ==
  /\ object = [o \in 1..Objects |-> NewObject]
  /\ here = 0 /\ made = 0
  /\ pc = [m \in Messages |-> "new"]
  /\ turn = [m \in Messages |-> NoTurn]
  /\ remaking = [o \in 1..Objects |-> 0]
  /\ commands = 0 /\ failed = FALSE

\* What goes on without the user: calls return, timers fire, asks end.
Moves(m) ==
  \/ \E ok \in BOOLEAN :
       Created(m, ok) \/ Escalated(m, ok) \/ Rerun(m, ok) \/ Restored(m, ok)
  \/ Ask(m) \/ Retry(m) \/ Announced(m) \/ Closed(m) \/ Timer(m)
  \/ \E how \in {"answer", "escalate", "aborted"} : AskEnds(m, how)

\* The commands as slash commands, which find the chat's session and make none.
Interaction == Destroy \/ Cancel \/ Escalate \/ Deescalate

UserMoves == Interaction \/ Dir

\* A finally block follows at once.
DiscordNext ==
  \/ \E m \in Messages : Finally(m)
  \/ /\ \A m \in Messages : ~At(m, {"finally"})
     /\ \/ \E m \in Messages : Arrive(m) \/ Moves(m) \/ Watchdog(m) \/ CompactionEnds(m)
        \/ UserMoves
        \/ \E o \in 1..Objects, ok \in BOOLEAN : RemakeEnds(o, ok)

DiscordFair ==
  /\ \A m \in Messages :
       WF_dvars(Finally(m)) /\ WF_dvars(Moves(m)) /\ WF_dvars(CompactionEnds(m))
  /\ \A o \in 1..Objects : WF_dvars(\E ok \in BOOLEAN : RemakeEnds(o, ok))

DiscordSpec == DiscordInit /\ [][DiscordNext]_dvars /\ DiscordFair

-----------------------------------------------------------------------------
(* Properties *)

Turning == {"pending", "keyword", "placeholder", "asking", "compacting", "announcing",
            "escalating", "closing"}

\* A session is in flight as long as its last turn runs, unless its AgentSession is
\* made anew under it: the finally block of an older turn, which may come at any time
\* after a command or an escalation, does not end it (finishTurn).
OwnTurn ==
  \A m \in Messages :
    At(m, Turning) /\ Of(m).last = Id(m) /\ Of(m).begun => Of(m).inFlight

\* Every message that came is handled in the end, through watchdog, compaction,
\* retries, escalations and resets, unless a session could not be created.
MessagesEnd ==
  \A m \in Messages :
    ~At(m, {"new", "done", "lost"}) ~> At(m, {"done", "lost"}) \/ failed
=============================================================================

------------------------------ MODULE BotTurns ------------------------------
(***************************************************************************)
(* Turn lifecycle of the Telegram bot (src/src/bot/session-manager.ts and  *)
(* src/src/bot/telegram.ts), for one chat.                                 *)
(*                                                                         *)
(* The bot is one JavaScript thread.  An action is the code that runs      *)
(* between two awaits, so the program counters of a turn (an invocation of *)
(* processMessage) name the awaits it can be parked at:                    *)
(*   escalating, keyword       recreateSession before the first ask        *)
(*   init                      streaming.init, a call to Telegram          *)
(*   local                     ask() outside a model request: preparing    *)
(*                             one, or executing tools                     *)
(*   request                   ask() inside a model request                *)
(*   waitCompact               the 500 ms poll of watchdogCompactPending   *)
(*   waitServer                waitForModelEndpoint after a refused ask    *)
(*   notify, autoEsc           the escalation notice, then recreateSession *)
(*   nested                    the re-run of the message after escalation  *)
(*   closing                   the last streaming calls of the turn        *)
(*   resumed                   back from notify or nested with no such call *)
(*                             left: it ends before anything else runs     *)
(*   deesc                     recreateSession back to the base model      *)
(* Several turns can be live at once: destroying a session does not end    *)
(* the turn that holds a reference to it.  Updates from the user are       *)
(* handled one at a time; "update" is what the handler in progress awaits. *)
(***************************************************************************)
EXTENDS Integers, Sequences, FiniteSets

CONSTANTS
  Msgs,            \* the user's messages, each sent once
  Tier,            \* Tier[m]: the model a keyword of m asks for, 0 for none
  NModels,         \* escalation models of the agent, 0: none configured
  MaxEscalations,  \* escalation.max_escalations
  MaxQueue,        \* bot.telegram.max_queue
  MaxCompactions,  \* watchdog_max_compactions
  Grace,           \* watchdog_idle_grace_timeouts
  MaxRounds,       \* model requests of one ask (max_iterations)
  Commands,        \* the commands the user may send
  MaxReplacements, \* bound: /new, /dir and /deescalate commands in a behaviour
  MayFail,         \* the calls that may throw: "createSession", "streaming.init"
  Sids,            \* bound: session objects referenced at once
  Tids,            \* bound: turns live at once
  Agents           \* bound: AgentSession objects referenced at once

NoMsg == "none"

ASSUME BotAssumption ==
  /\ NModels \in Nat /\ MaxEscalations \in Nat /\ MaxQueue \in Nat
  /\ MaxCompactions \in Nat /\ Grace \in Nat /\ MaxRounds \in Nat \ {0}
  /\ MaxReplacements \in Nat
  /\ Tier \in [Msgs -> 0..NModels]
  /\ Commands \subseteq {"cancel", "new", "dir", "escalate", "deescalate"}
  /\ MayFail \subseteq {"createSession", "streaming.init"}
  /\ Sids \cup Tids \cup Agents \subseteq Nat \ {0}
  /\ NoMsg \notin Msgs

VARIABLES
  chat,     \* the session the chat maps to, 0 for none
  sess,     \* the session objects, destroyed ones included
  turn,     \* the invocations of processMessage
  request,  \* request[a]: the turn whose model request agent a has in flight
  timers,   \* messages whose 500 ms restart timer is armed, oldest first
  update,   \* what the update handler awaits
  unsent,   \* messages the user has not sent yet
  replaced  \* number of /new, /dir and /deescalate commands so far

vars == <<chat, sess, turn, request, timers, update, unsent, replaced>>

-----------------------------------------------------------------------------
(* Records *)

NoTurn == [pc |-> "free", sess |-> 0, id |-> 0, msg |-> NoMsg, agent |-> 0,
           fresh |-> 0,         \* the session being recreated
           aborted |-> FALSE,   \* the model request was told to abort
           signalled |-> FALSE, \* the ask's own controller has fired: no request hears it again
           pending |-> FALSE,   \* watchdogCompactPending
           compacted |-> 0,     \* the session that compaction reads
           grace |-> 0,         \* watchdogGraceUsed
           rounds |-> 0,        \* model requests of the current ask
           last |-> FALSE,      \* retrying after the server came back
           parent |-> 0]        \* the turn awaiting this one

\* The object getOrCreate puts in the map.
NewSession(a) ==
  [inFlight |-> FALSE, state |-> "idle", queue |-> <<>>, turnId |-> 0, ctrl |-> 0,
   agent |-> a, pendingEsc |-> 0, model |-> 0, escCount |-> 0, compacts |-> 0,
   stale |-> FALSE]            \* lastProgressAt is older than the watchdog's limit

NoSession == [NewSession(0) EXCEPT !.state = "resetting"]

NoUpdate == [kind |-> "free", msg |-> NoMsg, sess |-> 0, keep |-> NoSession]

Live == {t \in Tids : turn[t].pc # "free"}
EscOn == NModels > 0

\* A resumed turn goes on in the same task of the event loop.
Quiet == \A t \in Tids : turn[t].pc # "resumed"
At(t, pcs) == turn[t].pc \in pcs /\ (Quiet \/ turn[t].pc = "resumed")
Lesser(a, b) == IF a < b THEN a ELSE b

\* Objects nothing refers to any more are used again.
HeldSids == {chat, update.sess} \cup {turn[t].sess : t \in Live}
                                \cup {turn[t].fresh : t \in Live}
                                \cup {turn[t].compacted : t \in Live}
FreeSids == Sids \ HeldSids
FreeTids == Tids \ Live
FreeAgents == Agents \ ({sess[s].agent : s \in HeldSids \ {0}}
                          \cup {turn[t].agent : t \in Live})
Pick(S) == CHOOSE x \in S : \A y \in S : x <= y

-----------------------------------------------------------------------------
(* SessionManager: ss and tt are the sessions and turns so far in a step *)

\* activeAbortController.abort() for turn t: a request that begins later does not
\* hear it, nor does a controller fire twice.
Signalled(tt, t) ==
  [u \in Tids |-> IF u # t \/ tt[u].pc \notin {"local", "request", "waitServer"} THEN tt[u]
                  ELSE [tt[u] EXCEPT !.signalled = TRUE,
                          !.aborted = @ \/ (tt[u].pc = "request" /\ ~tt[u].signalled)]]

\* managed.session.cancel(): the model request of agent a.
CancelledRequest(tt, a) ==
  [u \in Tids |-> IF a # 0 /\ u = request[a] /\ tt[u].pc = "request"
                  THEN [tt[u] EXCEPT !.aborted = TRUE] ELSE tt[u]]

Abort(ss, tt, s) == CancelledRequest(Signalled(tt, ss[s].ctrl), ss[s].agent)

\* Mutant: beginTurn does not look at inFlight.
CanBeginTwice(ss, s) == s # 0 /\ ss[s].state # "resetting"

CanBegin(ss, s) == s # 0 /\ ~ss[s].inFlight /\ ss[s].state # "resetting"

\* The controller beginTurn makes is replaced before any ask hears it: 0.
BeginTurn(ss, s) ==
  [ss EXCEPT ![s].inFlight = TRUE, ![s].state = "running", ![s].turnId = @ + 1,
             ![s].ctrl = 0, ![s].stale = FALSE, ![s].compacts = 0]

IsTurnActive(id) ==
  chat # 0 /\ sess[chat].inFlight /\ sess[chat].turnId = id
           /\ sess[chat].state # "resetting"

\* Mutant: finishTurn leaves the session in flight.
FinishTurnStuck(ss, id) ==
  IF chat # 0 /\ ss[chat].turnId = id
  THEN [ss EXCEPT ![chat].state = "idle", ![chat].ctrl = 0] ELSE ss

FinishTurn(ss, id) ==
  IF chat # 0 /\ ss[chat].turnId = id
  THEN [ss EXCEPT ![chat].inFlight = FALSE, ![chat].state = "idle", ![chat].ctrl = 0]
  ELSE ss

\* markProgress, and the reset of the grace counter beside it in the hooks.
Progress(ss, t) == IF IsTurnActive(turn[t].id) THEN [ss EXCEPT ![chat].stale = FALSE] ELSE ss
GraceAfter(t) == IF IsTurnActive(turn[t].id) THEN 0 ELSE turn[t].grace

\* recreateSession up to its await, and after it on the object read before.
RecreateStart(ss, s) == [ss EXCEPT ![s].state = "resetting", ![s].queue = <<>>]
RecreateEnd(ss, s, a) ==
  [ss EXCEPT ![s].agent = a, ![s].inFlight = FALSE, ![s].state = "idle",
             ![s].ctrl = 0, ![s].stale = TRUE]

\* destroy: what it does to the session object.
Destroyed(ss, s) == [ss EXCEPT ![s].state = "resetting", ![s].queue = <<>>]

\* cancelActive on session s, and what it withdraws.
CancelledSession(ss, s) ==
  [ss EXCEPT ![s].queue = <<>>, ![s].state = IF ss[s].inFlight THEN "canceling" ELSE @]

\* Mutant: cancelActive forgets to abort.
CancelledTurnsUnheard(ss, tt, s) == tt

CancelledTurns(ss, tt, s) == IF ss[s].inFlight THEN Abort(ss, tt, s) ELSE tt
Queued(s) == {sess[s].queue[i] : i \in DOMAIN sess[s].queue}

-----------------------------------------------------------------------------
(* processMessage, up to its first await *)

\* Recreating the chat's session c for turn t, which then holds record r.
AwaitRecreate(ss, tt, c, t, r) ==
  [sess |-> RecreateStart(ss, c),
   turn |-> [Abort(ss, tt, c) EXCEPT ![t] = [r EXCEPT !.fresh = c]]]

\* The keyword check, for turn t with record r on session r.sess; c is the chat's.
KeywordCheck(ss, tt, c, t, r) ==
  LET tier == Tier[r.msg] IN
  IF tier > ss[r.sess].model
  THEN AwaitRecreate([ss EXCEPT ![r.sess].model = tier, ![r.sess].escCount = @ + 1],
                     tt, c, t, [r EXCEPT !.pc = "keyword"])
  ELSE [sess |-> ss, turn |-> [tt EXCEPT ![t] = [r EXCEPT !.pc = "init"]]]

\* processMessage(c, m) called by turn `parent` (0: by a handler or a timer).  A
\* message whose beginTurn is refused is dropped.
Process(ss, tt, c, m, t, parent) ==
  LET began == BeginTurn(ss, c)
      r     == [NoTurn EXCEPT !.sess = c, !.id = began[c].turnId, !.msg = m,
                              !.parent = parent]
      model == ss[c].pendingEsc
  IN  IF ~CanBegin(ss, c) THEN [sess |-> ss, turn |-> tt]
      ELSE IF model # 0
      THEN AwaitRecreate([began EXCEPT ![c].pendingEsc = 0, ![c].model = model,
                                       ![c].escCount = @ + 1],
                         tt, c, t, [r EXCEPT !.pc = "escalating"])
      ELSE KeywordCheck(began, tt, c, t, r)

Run(p) == sess' = p.sess /\ turn' = p.turn

-----------------------------------------------------------------------------
(* Updates: the message handler and the commands *)

UpdateFree == update.kind = "free" /\ Quiet

\* A message to a chat with a session.
Message(m) ==
  /\ UpdateFree /\ m \in unsent /\ chat # 0
  /\ unsent' = unsent \ {m}
  /\ IF sess[chat].inFlight
     THEN /\ IF Len(sess[chat].queue) >= MaxQueue
             THEN UNCHANGED sess
             ELSE sess' = [sess EXCEPT ![chat].queue = Append(@, m)]
          /\ UNCHANGED turn
     ELSE /\ FreeTids # {}
          /\ Run(Process(sess, turn, chat, m, Pick(FreeTids), 0))
  /\ UNCHANGED <<chat, request, timers, update, replaced>>

\* A message to a chat without one: getOrCreate awaits createSession.
FirstMessage(m) ==
  /\ UpdateFree /\ m \in unsent /\ chat = 0
  /\ unsent' = unsent \ {m}
  /\ update' = [NoUpdate EXCEPT !.kind = "create", !.msg = m]
  /\ UNCHANGED <<chat, sess, turn, request, timers, replaced>>

CreateDone ==
  /\ Quiet /\ update.kind = "create"
  /\ FreeSids # {} /\ FreeTids # {} /\ FreeAgents # {}
  /\ chat' = Pick(FreeSids)
  /\ Run(Process([sess EXCEPT ![chat'] = NewSession(Pick(FreeAgents))], turn,
                 chat', update.msg, Pick(FreeTids), 0))
  /\ update' = NoUpdate
  /\ UNCHANGED <<request, timers, unsent, replaced>>

\* createSession throws: the handler ends and the message is gone.
UpdateFails ==
  /\ "createSession" \in MayFail /\ update.kind # "free" /\ Quiet
  /\ update' = NoUpdate
  /\ UNCHANGED <<chat, sess, turn, request, timers, unsent, replaced>>

\* /cancel
Cancel ==
  /\ "cancel" \in Commands /\ UpdateFree /\ chat # 0
  /\ sess[chat].inFlight \/ sess[chat].queue # <<>>
  /\ sess' = CancelledSession(sess, chat)
  /\ turn' = CancelledTurns(sess, turn, chat)
  /\ UNCHANGED <<chat, request, timers, update, unsent, replaced>>

\* destroy, as /new, /dir and the expiry sweep call it.
Destroy ==
  /\ chat # 0
  /\ sess' = Destroyed(sess, chat)
  /\ turn' = Abort(sess, turn, chat)
  /\ chat' = 0

Replace(command) ==
  /\ command \in Commands /\ UpdateFree
  /\ replaced < MaxReplacements /\ replaced' = replaced + 1

\* /new
New ==
  /\ Replace("new")
  /\ Destroy
  /\ UNCHANGED <<request, timers, update, unsent>>

\* /dir: the session is destroyed, then created again with its escalation state.
Dir ==
  /\ Replace("dir")
  /\ Destroy
  /\ update' = [NoUpdate EXCEPT !.kind = "dir", !.keep = sess[chat]]
  /\ UNCHANGED <<request, timers, unsent>>

DirDone ==
  /\ Quiet /\ update.kind = "dir"
  /\ FreeSids # {} /\ FreeAgents # {}
  /\ chat' = Pick(FreeSids)
  /\ sess' = [sess EXCEPT ![chat'] =
       [NewSession(Pick(FreeAgents)) EXCEPT !.model = update.keep.model,
          !.escCount = update.keep.escCount, !.pendingEsc = update.keep.pendingEsc]]
  /\ update' = NoUpdate
  /\ UNCHANGED <<turn, request, timers, unsent, replaced>>

\* /escalate <model>
Escalate(k) ==
  /\ "escalate" \in Commands /\ UpdateFree /\ chat # 0
  /\ sess' = [sess EXCEPT ![chat].pendingEsc = k]
  /\ UNCHANGED <<chat, turn, request, timers, update, unsent, replaced>>

\* /deescalate, which recreates the session whether or not a turn runs on it.
Deescalate ==
  /\ Replace("deescalate") /\ chat # 0
  /\ sess[chat].model # 0 \/ sess[chat].pendingEsc # 0
  /\ sess' = RecreateStart([sess EXCEPT ![chat].pendingEsc = 0, ![chat].model = 0], chat)
  /\ turn' = Abort(sess, turn, chat)
  /\ update' = [NoUpdate EXCEPT !.kind = "deescalate", !.sess = chat]
  /\ UNCHANGED <<chat, request, timers, unsent>>

DeescalateDone ==
  /\ Quiet /\ update.kind = "deescalate" /\ FreeAgents # {}
  /\ sess' = RecreateEnd(sess, update.sess, Pick(FreeAgents))
  /\ update' = NoUpdate
  /\ UNCHANGED <<chat, turn, request, timers, unsent, replaced>>

\* cleanupExpired, after the 30 minutes in which a session stayed idle.  Every
\* bounded wait is over by then: no timer is armed, no turn but one inside ask().
Expire ==
  /\ UpdateFree /\ timers = <<>> /\ chat # 0 /\ ~sess[chat].inFlight
  /\ \A t \in Live : turn[t].pc \in {"local", "request"} /\ turn[t].sess # chat
  /\ Destroy
  /\ UNCHANGED <<request, timers, update, unsent, replaced>>

\* A queued message's timer.
TimerFires ==
  /\ Quiet /\ timers # <<>> /\ FreeTids # {}
  /\ timers' = Tail(timers)
  /\ IF chat = 0 THEN UNCHANGED <<sess, turn>>
     ELSE Run(Process(sess, turn, chat, Head(timers), Pick(FreeTids), 0))
  /\ UNCHANGED <<chat, request, update, unsent, replaced>>

-----------------------------------------------------------------------------
(* processMessage after its first await *)

\* tt with turn t ended: a turn awaiting it goes on.
Ended(tt, t) ==
  [u \in Tids |-> IF u = t THEN NoTurn
                  ELSE IF tt[t].parent = u THEN [tt[u] EXCEPT !.pc = "resumed"] ELSE tt[u]]

\* The turn is begun again after recreateSession.  managed becomes a copy of the
\* chat's session; when it cannot begin, the message goes back to managed's queue
\* and processMessage returns, outside the try whose finally ends a turn.
Reacquire(ss, t, checkKeyword) ==
  IF CanBegin(ss, chat)
  THEN LET began == BeginTurn(ss, chat)
           own   == turn[t].sess
           ss2   == [began EXCEPT ![own] = began[chat]]
           r     == [turn[t] EXCEPT !.id = began[chat].turnId, !.fresh = 0]
       IN  IF checkKeyword THEN KeywordCheck(ss2, turn, chat, t, r)
           ELSE [sess |-> ss2, turn |-> [turn EXCEPT ![t] = [r EXCEPT !.pc = "init"]]]
  ELSE [sess |-> [ss EXCEPT ![turn[t].sess].queue = <<turn[t].msg>> \o @],
        turn |-> Ended(turn, t)]

\* The pending escalation's recreateSession returns, or throws and is logged.
EscalateDone(t) ==
  /\ At(t, {"escalating"})
  /\ \/ FreeAgents # {}
        /\ Run(Reacquire(RecreateEnd(sess, turn[t].fresh, Pick(FreeAgents)), t, TRUE))
     \/ "createSession" \in MayFail
        /\ Run(Reacquire(sess, t, TRUE))
  /\ UNCHANGED <<chat, request, timers, update, unsent, replaced>>

\* The keyword escalation's: a throw skips the new beginTurn.
KeywordDone(t) ==
  /\ At(t, {"keyword"})
  /\ \/ FreeAgents # {}
        /\ Run(Reacquire(RecreateEnd(sess, turn[t].fresh, Pick(FreeAgents)), t, FALSE))
     \/ "createSession" \in MayFail
        /\ turn' = [turn EXCEPT ![t].pc = "init", ![t].fresh = 0]
        /\ UNCHANGED sess
  /\ UNCHANGED <<chat, request, timers, update, unsent, replaced>>

\* Mutant: the session keeps the controller beginTurn made.
StartAskUnlinked(ss, tt, t) ==
  [sess |-> ss,
   turn |-> [tt EXCEPT ![t].pc = "local", ![t].agent = ss[tt[t].sess].agent,
                       ![t].aborted = FALSE, ![t].signalled = FALSE, ![t].rounds = 0]]

\* An ask starts: its controller becomes the active one of managed, the session
\* object the turn holds.
StartAsk(ss, tt, t) ==
  [sess |-> [ss EXCEPT ![tt[t].sess].ctrl = t],
   turn |-> [tt EXCEPT ![t].pc = "local", ![t].agent = ss[tt[t].sess].agent,
                       ![t].aborted = FALSE, ![t].signalled = FALSE, ![t].rounds = 0]]

InitDone(t) ==
  /\ At(t, {"init"})
  /\ Run(StartAsk(sess, turn, t))
  /\ UNCHANGED <<chat, request, timers, update, unsent, replaced>>

\* Telegram refuses the placeholder message: processMessage throws before its try.
InitFails(t) ==
  /\ At(t, {"init"}) /\ "streaming.init" \in MayFail
  /\ turn' = Ended(turn, t)
  /\ UNCHANGED <<chat, sess, request, timers, update, unsent, replaced>>

\* ask() issues a model request; the agent's inFlight is the latest one.  Behind
\* tool calls of an aborted request the ask ends with an error instead.
SendRequest(t) ==
  /\ At(t, {"local"}) /\ turn[t].rounds < MaxRounds /\ ~turn[t].aborted
  /\ turn' = [turn EXCEPT ![t].pc = "request", ![t].rounds = @ + 1]
  /\ request' = [request EXCEPT ![turn[t].agent] = t]
  /\ UNCHANGED <<chat, sess, timers, update, unsent, replaced>>

\* The model answers with tool calls, which ask() then executes, or with a narration,
\* after which the next request has a controller of its own.  An abort is heard only
\* until the headers of a response are there, so an aborted request may answer too.
ToolCalls(t) ==
  /\ At(t, {"request"})
  /\ \E aborted \in {turn[t].aborted, FALSE} :
       turn' = [turn EXCEPT ![t].pc = "local", ![t].aborted = aborted,
                            ![t].grace = GraceAfter(t)]
  /\ sess' = Progress(sess, t)
  /\ request' = [request EXCEPT ![turn[t].agent] = 0]
  /\ UNCHANGED <<chat, timers, update, unsent, replaced>>

\* The turn behind its ask, which leaves only the state of its controller.
AskOver(t, pc) ==
  [turn[t] EXCEPT !.pc = pc, !.aborted = FALSE, !.rounds = 0,
                  !.signalled = @ /\ pc = "waitServer"]

\* The final answer: it may carry the escalation marker, which counts while the
\* session's budget lasts and never on the retry after a refused connection.
Answer(t) ==
  /\ At(t, {"request"})
  /\ \E marker \in BOOLEAN :
       LET s == sess[turn[t].sess]
           up == marker /\ EscOn /\ ~turn[t].last /\ s.escCount < MaxEscalations
       IN  turn' = [turn EXCEPT ![t] = [AskOver(t, IF up THEN "notify" ELSE "closing")
                                          EXCEPT !.grace = GraceAfter(t)]]
  /\ sess' = Progress(sess, t)
  /\ request' = [request EXCEPT ![turn[t].agent] = 0]
  /\ UNCHANGED <<chat, timers, update, unsent, replaced>>

\* The request fails with AbortError.
Aborted(t) ==
  /\ At(t, {"request"}) /\ turn[t].aborted
  /\ turn' = [turn EXCEPT ![t] = AskOver(t, IF turn[t].pending /\ ~turn[t].last
                                            THEN "waitCompact" ELSE "closing")]
  /\ request' = [request EXCEPT ![turn[t].agent] = 0]
  /\ UNCHANGED <<chat, sess, timers, update, unsent, replaced>>

\* Any other error of ask(): a fuse, the iteration limit, a failed request.  A
\* refused connection is waited out, once.
AskFails(t) ==
  /\ At(t, {"local", "request"})
  /\ \E pc \in {"closing"} \cup (IF turn[t].pc = "request" /\ ~turn[t].last
                                 THEN {"waitServer"} ELSE {}) :
       turn' = [turn EXCEPT ![t] = AskOver(t, pc)]
  /\ request' = IF turn[t].pc = "request"
                THEN [request EXCEPT ![turn[t].agent] = 0] ELSE request
  /\ UNCHANGED <<chat, sess, timers, update, unsent, replaced>>

\* The compaction a turn waited for is over: it asks again.
Retry(t) ==
  /\ At(t, {"waitCompact"}) /\ ~turn[t].pending
  /\ Run(StartAsk(sess, turn, t))
  /\ UNCHANGED <<chat, request, timers, update, unsent, replaced>>

\* The server is back, or 60 s have passed.  The retry keeps the controller.
ServerWaited(t) ==
  /\ At(t, {"waitServer"})
  /\ \/ turn' = [turn EXCEPT ![t].pc = "local", ![t].last = TRUE, ![t].rounds = 0,
                             ![t].agent = sess[turn[t].sess].agent]
     \/ turn' = [turn EXCEPT ![t].pc = "closing"]
  /\ UNCHANGED <<chat, sess, request, timers, update, unsent, replaced>>

\* The notice is out: the message is to be run again on the next model.  Without a
\* session in the map nothing is recreated and the turn returns.
AutoEscalate(t) ==
  /\ At(t, {"notify"})
  /\ LET s     == turn[t].sess
         model == Lesser(sess[s].model + 1, NModels)
         ss    == [sess EXCEPT ![s].pendingEsc = model, ![s].model = model,
                               ![s].escCount = @ + 1]
     IN  IF chat = 0
         THEN sess' = ss /\ turn' = [turn EXCEPT ![t].pc = "resumed"]
         ELSE Run(AwaitRecreate(ss, turn, chat, t, [turn[t] EXCEPT !.pc = "autoEsc"]))
  /\ UNCHANGED <<chat, request, timers, update, unsent, replaced>>

\* The session is recreated: this turn is finished and processMessage runs the
\* message again, awaited here.  A throw goes to the catch and closes the turn.
AutoEscDone(t) ==
  /\ At(t, {"autoEsc"})
  /\ \/ /\ FreeAgents # {} /\ FreeTids # {}
        /\ LET back == RecreateEnd(sess, turn[t].fresh, Pick(FreeAgents))
               ss   == FinishTurn(back, turn[t].id)
               tt   == [turn EXCEPT ![t].fresh = 0, ![t].pc = "nested"]
           IN  IF CanBegin(ss, chat)
               THEN Run(Process(ss, tt, chat, turn[t].msg, Pick(FreeTids), t))
               ELSE Run([sess |-> ss, turn |-> [tt EXCEPT ![t].pc = "resumed"]])
     \/ /\ "createSession" \in MayFail
        /\ turn' = [turn EXCEPT ![t].pc = "closing", ![t].fresh = 0]
        /\ UNCHANGED sess
  /\ UNCHANGED <<chat, request, timers, update, unsent, replaced>>

\* Mutants: the queued message stays in the queue; the queue is not looked at.
ServeQueuePeeks(ss, current) ==
  IF chat # 0 /\ ss[chat].queue # <<>>
  THEN /\ sess' = ss
       /\ timers' = IF ss[current].state = "idle" /\ ~ss[current].inFlight
                    THEN Append(timers, Head(ss[chat].queue)) ELSE timers
  ELSE sess' = ss /\ UNCHANGED timers
ServeQueueNever(ss, current) == sess' = ss /\ UNCHANGED timers

\* The end of the finally block: the next queued message gets its timer when the
\* session `current` read by finishTurn is free, and is shifted off in any case.
ServeQueue(ss, current) ==
  IF chat # 0 /\ ss[chat].queue # <<>>
  THEN /\ sess' = [ss EXCEPT ![chat].queue = Tail(@)]
       /\ timers' = IF ss[current].state = "idle" /\ ~ss[current].inFlight
                    THEN Append(timers, Head(ss[chat].queue)) ELSE timers
  ELSE sess' = ss /\ UNCHANGED timers

\* Mutant: only the model index goes back.
BaseModelOnly(ss) == [ss EXCEPT ![chat].model = 0]

\* Back to the base model after each request.
BaseModel(ss) == [ss EXCEPT ![chat].model = 0, ![chat].escCount = 0]

\* The finally block: finishTurn, then back to the base model or on to the queue.
Finish(t) ==
  /\ At(t, {"closing", "resumed"})
  /\ LET ss == FinishTurn(sess, turn[t].id) IN
     IF chat = 0 THEN turn' = Ended(turn, t) /\ UNCHANGED <<sess, timers>>
     ELSE IF EscOn /\ ss[chat].model > 0
     THEN /\ Run(AwaitRecreate(BaseModel(ss), turn, chat, t,
                               [turn[t] EXCEPT !.pc = "deesc"]))
          /\ UNCHANGED timers
     ELSE ServeQueue(ss, chat) /\ turn' = Ended(turn, t)
  /\ UNCHANGED <<chat, request, update, unsent, replaced>>

DeescDone(t) ==
  /\ At(t, {"deesc"})
  /\ \/ FreeAgents # {}
        /\ ServeQueue(RecreateEnd(sess, turn[t].fresh, Pick(FreeAgents)), turn[t].fresh)
     \/ "createSession" \in MayFail
        /\ ServeQueue(sess, turn[t].fresh)
  /\ turn' = Ended(turn, t)
  /\ UNCHANGED <<chat, request, update, unsent, replaced>>

-----------------------------------------------------------------------------
(* The watchdog interval of a turn, armed from its first ask to its end *)

Watched == {"local", "request", "waitCompact", "waitServer", "notify", "autoEsc", "closing"}

\* No hook has fired for watchdogMs.
GoesStale ==
  /\ Quiet /\ chat # 0 /\ sess[chat].inFlight /\ ~sess[chat].stale
  /\ sess' = [sess EXCEPT ![chat].stale = TRUE]
  /\ UNCHANGED <<chat, turn, request, timers, update, unsent, replaced>>

WatchdogDue(t) ==
  /\ At(t, Watched) /\ ~turn[t].pending
  /\ chat # 0 /\ sess[chat].turnId = turn[t].id /\ sess[chat].inFlight
  /\ sess[chat].stale

WatchdogGrace(t) ==
  /\ WatchdogDue(t) /\ turn[t].grace < Grace
  /\ turn' = [turn EXCEPT ![t].grace = @ + 1]
  /\ sess' = [sess EXCEPT ![chat].stale = FALSE]
  /\ UNCHANGED <<chat, request, timers, update, unsent, replaced>>

\* Mutant: one compaction too many.
WatchdogMayCompactAgain(s) == sess[s].compacts <= MaxCompactions
WatchdogMayCompact(s) == sess[s].compacts < MaxCompactions

\* compactHistory runs while the abort is on its way.
WatchdogCompact(t) ==
  /\ WatchdogDue(t) /\ turn[t].grace >= Grace /\ WatchdogMayCompact(chat)
  /\ sess' = [sess EXCEPT ![chat].compacts = @ + 1]
  /\ turn' = [Signalled(turn, sess[chat].ctrl) EXCEPT ![t].pending = TRUE,
                                                      ![t].compacted = chat]
  /\ UNCHANGED <<chat, request, timers, update, unsent, replaced>>

WatchdogCancel(t) ==
  /\ WatchdogDue(t) /\ turn[t].grace >= Grace /\ ~WatchdogMayCompact(chat)
  /\ sess' = CancelledSession(sess, chat)
  /\ turn' = CancelledTurns(sess, turn, chat)
  /\ UNCHANGED <<chat, request, timers, update, unsent, replaced>>

\* compactHistory settles; a success also counts as progress.
CompactionDone(t) ==
  /\ Quiet /\ turn[t].pending
  /\ turn' = [turn EXCEPT ![t].pending = FALSE, ![t].compacted = 0]
  /\ \/ sess' = [sess EXCEPT ![turn[t].compacted].stale = FALSE]
     \/ UNCHANGED sess
  /\ UNCHANGED <<chat, request, timers, update, unsent, replaced>>

-----------------------------------------------------------------------------
Init ==
  /\ chat = 0
  /\ sess = [s \in Sids |-> NoSession]
  /\ turn = [t \in Tids |-> NoTurn]
  /\ request = [a \in Agents |-> 0]
  /\ timers = <<>>
  /\ update = NoUpdate
  /\ unsent = Msgs
  /\ replaced = 0

UserStep ==
  \/ \E m \in Msgs : Message(m) \/ FirstMessage(m)
  \/ Cancel \/ New \/ Dir \/ Deescalate
  \/ \E k \in 1..NModels : Escalate(k)

HandlerStep == CreateDone \/ UpdateFails \/ DirDone \/ DeescalateDone

TurnStep(t) ==
  \/ EscalateDone(t) \/ KeywordDone(t) \/ InitDone(t) \/ InitFails(t)
  \/ SendRequest(t) \/ ToolCalls(t) \/ Answer(t) \/ Aborted(t) \/ AskFails(t)
  \/ Retry(t) \/ ServerWaited(t) \/ AutoEscalate(t) \/ AutoEscDone(t)
  \/ Finish(t) \/ DeescDone(t)

WatchdogStep(t) == WatchdogGrace(t) \/ WatchdogCompact(t) \/ WatchdogCancel(t)

Next ==
  \/ UserStep \/ HandlerStep \/ Expire \/ TimerFires \/ GoesStale
  \/ \E t \in Tids : TurnStep(t) \/ WatchdogStep(t) \/ CompactionDone(t)

Spec == Init /\ [][Next]_vars

-----------------------------------------------------------------------------
(* Fairness: timers fire and every awaited call settles, except the model's *)
(* own answer: a request may hang for ever unless it is aborted.  An        *)
(* aborted one ends, with AbortError or, when the abort comes after the     *)
(* headers, with what the stream's read timeout and max_tokens leave of it. *)

Settles(t) ==
  \/ EscalateDone(t) \/ KeywordDone(t) \/ InitDone(t) \/ SendRequest(t) \/ Aborted(t)
  \/ turn[t].pc = "local" /\ AskFails(t)
  \/ turn[t].aborted /\ (ToolCalls(t) \/ Answer(t) \/ AskFails(t))
  \/ Retry(t) \/ ServerWaited(t) \/ AutoEscalate(t) \/ AutoEscDone(t)
  \/ Finish(t) \/ DeescDone(t)

FairSpec ==
  /\ Spec
  /\ WF_vars(HandlerStep) /\ WF_vars(TimerFires) /\ WF_vars(GoesStale)
  /\ \A t \in Tids : /\ WF_vars(Settles(t))
                     /\ WF_vars(WatchdogStep(t))
                     /\ WF_vars(CompactionDone(t))

-----------------------------------------------------------------------------
Asking == {t \in Tids : turn[t].pc \in {"local", "request", "waitCompact", "waitServer"}}

\* A running ask can be reached: /cancel and the watchdog act on the session the chat
\* maps to, and its active controller, turn id and inFlight flag are the ask's own. As
\* these are one, at most one ask of the chat runs, whatever the order of messages,
\* restart timers, escalations and watchdog retries.
AskIsCancellable ==
  \A t \in Asking :
    /\ chat # 0 /\ turn[t].sess = chat
    /\ sess[chat].inFlight /\ sess[chat].turnId = turn[t].id
    /\ sess[chat].ctrl = t

\* A session in flight has the live turn whose finally will clear the flag; without
\* one, every later message would be queued behind nothing.
InFlightOwned ==
  chat # 0 /\ sess[chat].inFlight =>
    \E t \in Live : turn[t].sess = chat /\ turn[t].id = sess[chat].turnId

\* Between requests the session is back on the base model with its whole escalation
\* budget ("Auto-deescalate back to base model after each request").
IdleOnBaseModel ==
  chat # 0 /\ Live = {} /\ UpdateFree => sess[chat].model = 0 /\ sess[chat].escCount = 0

\* The places a message is held in: unsent, with the update handler, in the chat's
\* queue, behind a timer, or in a turn that has not handed it to another.
Places(m) ==
  (IF m \in unsent THEN {<<"unsent", 0>>} ELSE {})
  \cup (IF update.msg = m THEN {<<"update", 0>>} ELSE {})
  \cup (IF chat = 0 THEN {}
        ELSE {<<"queue", i>> : i \in {j \in DOMAIN sess[chat].queue : sess[chat].queue[j] = m}})
  \cup {<<"timer", i>> : i \in {j \in DOMAIN timers : timers[j] = m}}
  \cup {<<"turn", t>> : t \in {u \in Live : /\ turn[u].msg = m
                                           /\ turn[u].pc \notin {"nested", "resumed"}}}

\* No message is worked on twice: requeueing after a failed escalation, dequeueing,
\* the restart timers and the nested re-run never leave two copies of it.
NoDuplicateWork == \A m \in Msgs : \A p, q \in Places(m) : p = q
=============================================================================

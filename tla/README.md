# Formal models of IdleHands

This directory holds TLA+ models of the parts of IdleHands whose behaviour depends on
the order of things: chat turns and their sessions, the tool loop of an agent and its
conversation, the client of the model server, the runs of Anton, and the files several
processes share. TLC checks the models on small instances; TLAPS proves nearly every
safety property that TLC checks, for every value of the constants. Paths below are relative to `src/src/`
unless they start with `docs/`.

1. [Inventory](#1-inventory) of the system, and how its parts interact
2. [Modules](#2-modules) and how they correspond to the code
3. [Runs](#3-runs): what each checks, its bounds, its fairness
4. [Proofs](#4-proofs)
5. [Where code and documents disagree](#5-where-code-and-documents-disagree)
6. [What is left out](#6-what-is-left-out)
7. [What comes next](#7-what-comes-next)

How to run: `tlc -workers 2 -config Hosts.cfg MCHosts` (section 3 names the module of
each `.cfg`), and `tlapm Hosts_proofs.tla`.

## 1. Inventory

IdleHands is one Node.js process per front end. JavaScript runs to the next `await`
without interruption, so what can interleave are the pieces of code between awaits:
of handlers, turns, timers and intervals. Several processes meet in lock files, in the
files and the database under `~/.idlehands`, in git, and on the hosts that run models.

| Component | State | Operations | What is hard | What makes it correct |
|---|---|---|---|---|
| Session manager `bot/session-manager.ts` | chats to sessions; per session `inFlight`, turn id, controller, queue, escalation state | begin, finish, cancel, recreate, destroy, `/dir`, expiry | turns outlive the session they began on; two operations await in the middle | one ask per chat; a session in flight has an owner |
| Telegram turns `bot/telegram.ts`, `bot/commands.ts` | locals of `processMessage`, restart timers | message, watchdog, retry, escalation, `finally`, commands | all of them race | every turn ends, queues drain, an ask can be cancelled |
| Discord bot `bot/discord.ts` | one mutable object per chat | the same, with another handling of sessions | a turn's object is remade under it | an older turn does not end a newer one; messages are handled |
| Confirmations `bot/confirm-*.ts` | batches, open prompts | ask, tap, time out, fail to send | a timeout races a tap | answered once, approved with consent, never left open |
| Progress `progress/*.ts`, streaming messages | version to show, back-off, edits in flight | tick, edit, refuse, finalize | edits overlap | the last text of a turn stands |
| Agent session `agent.ts` | `messages`, loop detection, exec cache, controller | `ask`, `cancel`, `compactHistory`, `reset`, `spawn_task`, plan steps | compaction, failing tools, sub-agents between any two awaits | calls keep their results; an ask ends; sub-agents one at a time |
| Context budget `history.ts` | none | `enforceContextBudget` | what the loops drop and when they stop | exchanges whole; last answer kept |
| Model client `client.ts` | content mode, 503 counter, rate limit | chat, stream, retry, fall back | retries × fall-back × switch; cut streams | a body fits its mode; an answer is what was sent; a call ends |
| Tool servers `mcp.ts`, `lsp.ts`, `jsonrpc.ts` | transports, pending requests, registry | connect, call, time out, restart, enable | late answers, restarts beside calls, requests of the server | a call gets its own answer, or none |
| `exec` and file tools `tools.ts` | process group, throttled output; backups | run, abort, kill, write, `/undo` | exit, kill, timer and pipe in any order | output shown to its end; what is replaced is kept |
| Replay `replay.ts` | contents, index | checkpoint, rotate, rewind | crashes; several writers | what is listed can be brought back |
| Vault `vault.ts`, indexer `indexer.ts` | a SQLite file | note, archive, review, prune, index, recover | several processes; pruning over kinds | reviews are not pruned for other rows' sake |
| Anton worklist `anton/parser.ts` | the markdown file | find runnable, tick, tick ancestors, insert | parents, given-up tasks, shared keys | no task waits for ever; ticks are earned |
| Anton controller `anton/controller.ts`, `git.ts` | retries, skipped, attempts; tree, index, commit | a run, an attempt | stop, crash, roll-back and commit in any order | a run ends; ticked work is there |
| Verification `anton/verifier.ts` | layers and their results | commands, reviewer | timeouts; which directory | passed means: every command passed |
| Anton lock `anton/lock.ts` | the lock file | acquire, heartbeat, release | stale locks, crashes, torn writes | one holder |
| Anton in chats `bot/commands.ts`, `bot/discord.ts`, `cli/commands/anton.ts` | flags and signal of a session object | start, stop, status | flags set before awaits; sessions lost | a run can be stopped from its chat |
| Runtime executor `runtime/executor.ts`, `planner.ts` | runtime lock, active-runtime record, hosts | plan, execute, roll back | reclaimed locks; stale records; crashes | one executor; the record tells what is served |
| Runtime configuration `runtime/store.ts`, `cli/runtime-cmds.ts` | `runtimes.json` | add, edit, remove | read, ask, write, without a lock | a command changes nothing but what is its own, or was changed beside it |
| Upgrade `upgrade.ts` | installation, backup | upgrade, auto-rollback, rollback | a process dies at any step | what is rolled back to is whole |
| Headless `cli/oneshot.ts` | the tree | ask, diff, reset | a step fails after the edits; what git's commands reach | success means a tree as clean as `git clean` gets it |
| Terminal UI `tui/*.ts` | one turn, commands, one prompt | submit, watchdog, commands, confirm | a prompt for two askers | the input comes back |
| Line interface `index.ts`, `cli/build-repl-context.ts` | one readline, watch mode, limits lent | read, ask, shell, watch, shut down | watch mode beside the user | limits are given back; no change is forgotten |
| Plugins `hooks/*.ts` | handlers per event, granted capabilities | load, register, set up, add handlers, dispatch | dispatches overlap, handlers come late, any of them throws | no redacted field is seen ungranted; one failure stays one |
| Session files, configuration, set-up, benchmarks, Anton prompts, lens summaries, safety tables | files, settings, the terminal | | mostly I/O, parsing, formatting | |

How they interact. A front end (bot, terminal, line) turns input into a turn, which calls
`ask()` of its session. `ask` compacts the conversation (`history.ts`), sends it
(`client.ts`), runs tools (`tools.ts`, tool servers, sub-agents), which ask the user through
the front end's confirmation provider and archive to the vault. `/anton` starts a run,
which takes the lock, calls `ask` for each attempt, verifies and commits. A model that is
switched by `/switch` or `idlehands select` is planned from the runtime configuration.
A caller is modelled against what the callee's model shows of it: an ask ends
(`AskEnds`), a request ends (`RequestsEnd`), a prompt ends (`PromptsEnd`), a command
ends, and a lock is acquired or refused (`CommandsEnd`).

`PROJECT.json` lists each component with what is modelled of it, and under `hazards` the
places in this code where a mistake would be hard to find by testing, with the properties
that watch each.

## 2. Modules

| Module | Models | Checked in |
|---|---|---|
| `BotTurns` | turns, queue, escalation, watchdog, commands of a Telegram chat | `MCBotTurns` |
| `DiscordTurns` | the same for Discord, whose sessions are kept otherwise | itself |
| `History` | messages and `enforceContextBudget` as an operator | through the next two |
| `ContextBudget` | `enforceContextBudget` as the loops it runs | `MCContextBudget`, `MCRequests` |
| `AgentLoop` | `ask()`, `cancel`, `compactHistory`, `reset` | `MCAgentLoop` |
| `ModelClient` | `chat`, `chatStream`, retries, event stream | `MCModelClient`, `MCRequests` |
| `Worklist`, `AntonRun` | the worklist; `runAnton` and the work tree | `MCAntonRun` |
| `LockFile`, `AntonChats`, `RuntimeExec`, `RuntimeStore`, `ExecTool` | Anton's lock; its runs in chats; the model server; its configuration; `exec` | `MCHosts` |
| `FileEdits`, `Vault`, `Upgrade`, `OneShot`, `Verification` | edits, backups and checkpoints; the vault; upgrade and rollback; `--diff-only`; a task's verification | `MCStores` |
| `Approval`, `Confirm` | what a confirmation provider promises; both bots' providers | `MCPartners` |
| `ProgressStream`, `ToolServers`, `TuiTurns`, `SubAgents`, `ReplTurns`, `Hooks` | progress messages; MCP and LSP; terminal UI; delegated tasks; line interface with watch mode; plugins | `MCPartners` |
| `..._proofs` | theorems and their proofs | |

`AgentLoop` and `ContextBudget` extend `History`; `AntonRun` extends `Worklist`; `Confirm`
is shown to implement `Approval`. `MCRequests`, `MCHosts`, `MCStores` and `MCPartners` hold
several models that share no state in what is checked: the initial state chooses one
`part`, which runs while the others stand still, since their product would show no more
than their sum. An action is the code between two awaits, or one file operation where
processes share files; a `pc`, `at` or `phase` names the await or operation. Each
module's header lists those places. Every definition that models code has its lines in
`PROJECT.json` under `map`. Definitions marked "Mutant" are plausible mistakes in the
definition that follows; each is used to see that a property notices it. *Ghost*
variables below are only there for properties to speak about.

**BotTurns.** `sess` holds the session *objects*, destroyed ones too, since a turn keeps
its reference (`managed`) after `/new` deletes the map's entry; `chat` is that entry. Ids
are reused when nothing refers to an object any more. `request[a]` is the `inFlight`
controller of agent `a`, `sess[s].ctrl` the session's: an abort reaches an ask through
either, and only inside a model request. `Message`, `FirstMessage`, `CreateDone` are the
handler; `Process` to `InitFails` `processMessage` up to the ask; `SendRequest` to
`AskFails` the ask as the bot sees it; `Retry`, `ServerWaited`, `AutoEscalate`,
`AutoEscDone` what may follow it; `Finish`, `DeescDone`, `ServeQueue`, `TimerFires` the
`finally`, the way back to the base model and the queue; `Watchdog...` the interval. Progress hooks of
streamed tokens are folded into the model's answer, so that a model that streams for ever
is one that hangs.

**DiscordTurns.** A chat's session is one object whose AgentSession is remade while turns
hold it. `Of(m)` is the object of message `m`. `Finally` takes precedence, as the code runs it
without an await. A nested turn that cannot begin, because its `recreateSession` threw and left the
session resetting, returns into the turn that awaits it (`Caller`), whose `finally` runs then. Slash commands (`Interaction`) find sessions and make none; `Dir` is a
text command. Ghost: `failed`.

**AgentLoop.** A response is nothing, a narration, an answer, or a batch of calls from
`Batches`. `ToolCalls` has every check between the response and the first call: counting,
vault context, loop breaks, the decision to reuse cached output, the cap on reads, the order of a
parallel batch. `ToolsDone` adds results and notes. `broken` (ghost) has the exchanges
the code cuts short. Awaits of hooks and the vault are folded into the step around them.

**ModelClient.** A call's `pc` is `delay`, `fetch`, `backoff` or `body`. `Respond` is
what comes back: headers, a status, a stream frame, silence, an abort. A stream is a
sequence of frames of text and pieces of tool calls; a body is what of tools, tool messages
and descriptions it holds. `client` has what outlives a call.

**Worklist and AntonRun.** A worklist is a sequence of lines (text, depth, ticked) in document
order; parents follow from depth, keys from depth, text and the ordinal among siblings.
`id` is a number no code has. `file`, `index` and `head` are the worklist now, as staged and as
committed; `edits` the lines whose work is in the tree only, `newfiles` that files are untracked, `staged`
that the index holds other work than the commit; `place` whether the worklist is tracked.
`commitAll` stages before it commits, so a refused commit (`CommitFails`) leaves everything in the index, and the next
`git checkout -- .` (`RolledBack`) restores that. A git command does its work or fails before it. What the agent does in
an attempt is `Work`, any number of times. Ghosts: `passed`, `undone`.

**LockFile.** One action per file operation of `acquireAntonLock`, the heartbeat and
`releaseAntonLock`. Opening a file to write empties it (`TouchOpens`, `Create`); the content
comes with the next action. `Pid` lets runs share a process, as the chats of a bot do.
Age is one bit (`aged`): the start is more than an hour ago, or the lock was left and has had
no heartbeat for two minutes. Ghost: `shaken`.

**AntonChats.** `session[c]` is the object a chat maps to, `flags[o]` its `antonActive`
and `antonAbortSignal`; `at[r]` where a run is. The front end is chosen: Telegram, Discord, or
the terminal with one object. Ghosts: `aborted`, and `given`, the objects of which the
property cannot speak (section 3).

**RuntimeExec.** `Take` to `TakeForced` are `acquireRuntimeLock`; the steps of a plan come from
the record the process read, on hosts where a stop command kills any server, a start
leaves one in the background that fails where another listens, and a probe is answered
for whatever is loaded. A plan comes from `select` (`CliSelects`), the bot's `/switch` (`BotSwitches`) or
the recovery Anton does before an attempt (`AntonRecovers`, in the processes `Antons`). When the lock was refused or a step failed and the plan was
to reuse what runs, `select` plans again with a forced restart from the record it first read (`ReturnsNotOk`). What
the set-up wizard starts is a `select` whose question is answered with no. Ghosts: `taken`, `clean`.

**RuntimeStore.** A command holds what it read in `mine` while it talks to the user, and
writes it whole with one list changed, after `validateRuntimes`. Ghost: `since[p]`, what others
changed in the file after process `p` read it.

**ExecTool.** Output is a run of numbered pieces: `written` by the command, `read` from
the pipe, `buffer`ed, `shown`. The process group, a process that left it, a pty, the timer, the abort and
`close` are separate. **FileEdits**: a file's content is a version; `pc[w]` walks through
read, backup, rename, contents, index, rotation. **Vault**: rows with kind, key and age order (`id`);
`Databases` counts the file at the path and those set aside as corrupt. **Upgrade**:
`tarball` and `note` are the rollback directory, `installed` what is there; `Dies` may come after any step.
**OneShot**: a tree is the set of what differs, by what git makes of it: the user's own, tracked, staged,
untracked, untracked where `git clean -fd` does not get to (`beyond`: above the directory of the run, or a
repository of its own), ignored, committed. git has its default settings. **Verification**: the layers, with commands that fail, time out and go on.

**Approval and Confirm.** `Approval` has two variables: what a request was answered, and
whether the user consented. In `Confirm` a message is known by the set of requests it
asks; `front` chooses Telegram, which gathers 100 ms of requests, or Discord.
`Providers` are those of one chat: a session that is made anew leaves its old provider's
prompts open, and the taps reach the new one.

**ProgressStream.** A text is a version of the progress or `Final`. `Tick` does not wait
for the edit before; `EditDone` and `EditRefused` end edits in flight in any order. **ToolServers**:
`link[t]` are transports, `call[c]` calls; an answer carries the id of what was asked; so may a
request of the server's own (`ServerAsks`), which both clients take for an answer without a result.
**TuiTurns**: the turn and the commands are `Runners`; one promise is remembered by the
provider. **SubAgents**: `promise` is the chain `enqueueSubTask` waits on, `order` (ghost)
who joined it. **ReplTurns**: the loop, the runs of watch mode and Ctrl-R share one
readline; `limit` is `max_iterations`, lent to a watch run. **Hooks**: `stage` is how far
`createSession` is; `emits` are the dispatches, each at one handler of the very list that
registrations append to. `Fields` are what of an event
speaks of user, model or tools, `Redacted` those that `redactPayload` blanks; `Shown` is the rest. Ghosts: `seen`, the
fields each plugin got, and `unset`.

Common abstractions: wording, rendering and logging; awaits that touch nothing others see
are folded into the neighbouring step; times are the events they bring about (a timer
fires, a lock is old). The event loop's fairness is in section 3.

## 3. Runs

| Run | Module, cfg | Result | Distinct states |
|---|---|---|---|
| `bot_turns` | `MCBotTurns`, `BotTurns.cfg` | pass | 77 thousand |
| `bot_reset` | `MCBotTurns`, `BotReset.cfg` | pass | 574 thousand |
| `discord` | `DiscordTurns`, `Discord.cfg` | pass | 433 thousand |
| `agent_loop` | `MCAgentLoop`, `AgentLoop.cfg` | pass | 451 thousand |
| `requests` | `MCRequests`, `Requests.cfg` | pass | 265 thousand |
| `anton_run` | `MCAntonRun`, `AntonRun.cfg` | pass | 226 thousand |
| `hosts` | `MCHosts`, `Hosts.cfg` | pass | 152 thousand |
| `stores` | `MCStores`, `Stores.cfg` | pass | 2.1 million |
| `partners` | `MCPartners`, `Partners.cfg` | pass | 155 thousand |
| `bot_shared`, `client_switch`, `verified_elsewhere` | `BotShared.cfg`, `ClientSwitch.cfg`, `Verified.cfg` | violated, section 5 | |

Deadlock is not checked: users stop, calls are over, processes die for good.

**bot_turns.** Three messages, one asking for escalation by keyword; one escalation
model, a queue of one, one compaction, `/cancel` and `/escalate` at any time. Three
messages are needed for one to run, one to wait and one to come between the end of the turn and
the timer of the next. `AskIsCancellable`, `InFlightOwned` and `IdleOnBaseModel` relate the session to its turns; `TurnEnds`
and `QueueDrains` say that neither is stuck though the model may hang.

**bot_reset.** The commands that replace or recreate a session under a running turn, and
calls that throw; one replacement, two messages: more repeats the same overlap of an old and a new
session. Most properties of `bot_turns` do not hold here; what does is that no
message is worked on twice (`NoDuplicateWork`).

**discord.** Two messages, two session objects, one command of any kind, one escalation,
one compaction, failing calls. Two messages suffice for an older and a newer turn, whose
`finally` blocks are what can go wrong (`OwnTurn`). `MessagesEnd` says that every message is handled
in the end, or dropped; it excepts a session that could not be created or remade
(the code leaves it in flight or resetting).

**agent_loop.** Two asks of two iterations, a compaction or reset between them; batches of two
reads (the cap of one cuts one), a command with a *ghost* (the same command without
arguments, as a server's parser may split it), and an edit before both. Enough for
an exchange to be compacted behind a newer one, for the fuses (2 and 1) to burn, and for a
command to repeat across an edit. `ExchangesWhole` excepts `broken` exchanges: cut short by a failed
edit or an error, or split by vault context. `AskEnds`.

**requests.** Part `budget`: all well-formed conversations of at most five messages, with
and without system prompt, so that there are two exchanges or an exchange and an
answer on both sides of the tail; tails of 1, 3 and the forced 2. `PairsKept`, `AnswerKept`, and `LoopsAgree`: the loops
compute the operator `AgentLoop` uses. Part `client`: two calls of three attempts, streams of
up to six frames with two tool calls whose pieces interleave, a busy limit of two, every status,
timeouts and aborts. Two calls show what the first leaves in the client.
`BodyFitsMode`, `AnswerIsWhatWasSent`. `RequestsEnd` for both parts; the client's switches
are capped by `MaxSwitches` in it, because `SwitchesOnce` (section 5) is false.

**anton_run.** Two runs on a task with a subtask; a task may be decomposed into one more;
one retry, two counted attempts, four tasks. A second worklist has two tasks of
one key, of which the later has a subtask. `Options` are the bot's defaults and two
configurations in which every option but one takes its other value. Two runs are needed for what a crash,
a stop or a refused commit leaves to the next. `TicksAreEarned` allows the tick of a parent
with its last child, and excepts lines that share their key: `find` returns the first, which may be a task
that was given up (`docs/anton.md:29` says that items are ticked only after verification). `TicksHaveWork` says the tick of
a task is rolled back with its work, though a refused commit may have staged one, the other or both, where keys tell the lines apart; `NothingLeftBehind` speaks of runs that may skip tasks.

**hosts.** *Lock*: three runs, two of one process, three starts, one crash. `Exclusive`
holds until `shaken`: a lock is reclaimed as stale, or a heartbeat outlives its
run. Two processes then exclude each other no more, and the model shows it. *Server*: a
terminal and a bot that also runs Anton, two models on two hosts, one crash, two selects. `OneExecutor` holds until a lock is
removed by another than its holder (`taken`), `RecordTrue` while every plan is executed on the record it was
made from and nothing fails (`clean`). *Chats*: two chats, two runs, two objects. `StopReaches` excepts the objects
`given`: of runs given up as stale, of two starts at once, of a chat that lost the
session before the flag was set. *Configuration*: two editors with five commands, two
hosts, a backend and a model. `OwnChanges`: a command that saves an old copy takes back what another saved
meanwhile, and the property says that it takes back nothing else: besides that, a step adds entries, or removes one. *exec*: three pieces
of output, caps of two and one. `OutputShown`. `CommandsEnd`: locks are acquired or
refused, and nobody reclaims one after the other for ever; a call of `exec` ends, except for
a process that left the group and keeps the pipe, or one in a pty that ignores its signal.
The run leaves out (`TornWrites`) a crash between the opening of Anton's lock and its
writing, see section 5. `MaxEnds`: one process or server ends by itself.

**stores.** *Files*: two sessions, a backup limit and a checkpoint limit of one, so that rotation meets a
writer. `ReplacedIsKept` excepts a file that changed since its backup; `CheckpointsStay` excepts
checkpoints made beside each other (`beside`), and asks for the newest to be listed
where nothing crashed. *Vault*: two processes, one project, one kept entry. `ReviewsStay`. *Upgrade*: three releases, four
runs, each of which may die. `RollbackIsWhole`. *One-shot*: `TreeRestored` excepts
what was created where `git clean` does not get to (section 5). *Verification*:
`PassIsChecked`, where the process runs in the project's directory. Four upgrade runs are
what it takes to back up, die, upgrade again and roll back.

**partners.** *Confirm*: two requests, one with a diff, two providers. `Approvals`.
*Progress*: three versions, back-off of two. `AnswerStands` excepts a deleted message, an edit
still in flight, and a refusal after which the code tries nothing else. *Servers*: an
LSP, two calls, three transports (two restarts). `AnswersOwn`: an answer is that of the call's own request, or the empty one of a
request its server made (section 5), and never another call's. *Terminal*: two
submits, two commands, two compactions. *Tasks*: an ask and two plan steps, three
calls. `DelegatesInTurn`. *Line*: three lines, two changes, two watch
runs, two signals. `WatchModeHolds`: limits are restored and no change is forgotten. *Plugins*: one
that asks to read tool results and one that asks for nothing, each allowance, the start of a session, results and streams of tools,
two dispatches beside each other, two handlers of an event and so one that is added late.
`PluginsContained` speaks of the fields that are redacted, and excepts a setup that throws. `WaitsEnd`:
prompts, tool calls and the terminal's input come to an end; it excepts a prompt in the terminal that
another replaced. HTTP transports are in the model (constant `Http`), but the run has none.

**Fairness.** All of it is weak but for one action.
*BotTurns, Discord*: timers fire, handlers go on and every awaited call settles: HTTP
calls fail when the connection does, commands are killed after at most 120 s
(`tools.ts:1325`), tool servers and prompts have timeouts of their own, the wait for a server
ends after 60 s. Hooks of plugins are assumed to return. A model request may hang for
ever: only an aborted one must fail. The watchdog is an interval and runs. Users are not
fair.
*AgentLoop*: every await settles, as a request is aborted after the lesser of
`response_timeout` and what is left of the session's time (`agent.ts:2333`).
*ContextBudget, ModelClient*: synchronous code returns; each attempt has a connection
and a read timeout, so something responds.
*AntonRun*: the controller's own steps; what the agent does, stops and crashes need not happen.
*LockFile*: file operations end, and so does a run (`RunEnds`). *RuntimeExec*: commands end or time
out; a user who is asked answers. *ExecTool*: timers fire, pipes are read, `close` comes.
*ToolServers*: request timers fire, and nothing else is needed. *TuiTurns*: aborted asks return,
commands end (those of the shell are killed after 30 s), a user answers the one prompt on his screen.
*Confirm*: as `Promise` timers fire; the timeout has *strong* fairness, because on Discord it
does not run while a diff is being sent: a user who asks for the diff again and again
switches it off and on, but the deadline is fixed when the prompt is sent. The stores,
`ProgressStream`, `SubAgents`, `ReplTurns` and `Hooks` are checked for safety only and need none.

## 4. Proofs

What is proved holds for every value of the constants that satisfies the named
assumptions (`..Assumption`), which give types, and say that a conversation passed to the
budget is well formed and that lines of a worklist are numbered within its length. TLC
evaluates them in every run. A theorem that needs more says so in its statement (`ASSUME`), and here.
Each `..._proofs` module extends the components it is about, so its theorems name the
very properties the runs check. 16 thousand obligations, about twelve minutes for all.

**BotTurns_proofs** (4303 obligations): `AskCanBeCancelled`, `FlightIsOwned`, `BackOnBaseModel`, from
`TurnsInvariant`. None of the three is inductive: that a session in flight has its turn
says nothing of the turns that a nested `processMessage` awaits, or of the messages between a turn and
its timer. `TurnInv` adds that of all turns of the chat but one nothing is left to do before that one
returns (`OneFront`), what the one at the front has of the session at each of its awaits
(`Stands`: its id is the session's, the controller and the request in flight are its own),
and that a used budget or another model has a turn that will restore it (`Tidy`). The hypotheses are
those of the run `bot_turns`: `OwnCommands`, the commands are `/cancel` and `/escalate`; for
the last two theorems also `MayFail = {}`, sessions can be created and placeholders sent.
They are needed: `/new`, `/dir` and `/deescalate` replace or remake the session under a turn, and the run
`bot_shared` (section 5) shows two asks on one agent after it; a placeholder that cannot be sent leaves a session
in flight that nobody owns.

`WorkedOnOnce`, from `EveryMessageOnce`, has no such hypothesis: every command may come and every
call may fail. Sessions are then no guide to where a message is, so `OnceInv` follows the
messages themselves. The queue of the chat, the timers, the update being handled and what is unsent
share no message (`Apart`). The turns of one message stand in a line, each started by the
one before it, and all but the last wait for a call (`InLine`: a rank decreases towards the
first). A message with a turn is nowhere else, but for the one case in which it is: a nested turn
that could not begin gives it back to the queue as it ends, and the caller that goes on
then does not take it up again (`Alone`). It assumes that `NoMsg` is no message
(`BotAssumption`). The lemmas `OnceStays`, `OnceStarts`, `OnceNests`, `OnceEnds` and `OnceResumes` say this of
turns and places alone; the lemmas about the actions say which of the five each one is.

**DiscordTurns_proofs** (1468): `TurnsAreTheirOwn`, from `DiscordInvariant`, for every
command and every failure. A `finally` block may run at any time after its turn was
overtaken, so the invariant says where a message may be: it stands in the queue of
its own session, once, and nowhere else while it does (`QueueOf`); a turn's depth is that of its
session or an older one, also after a nested turn returned into it; a session in flight has a last turn that goes on, unless its agent is being remade (`Own`).

**AgentLoop_proofs** (2330): `ExchangesAreWhole`, from `AgentInvariant`; `AgentTypes`. The
contract alone is not inductive, since compaction installs what it computed before an
await and results join after many. The invariant adds that the snapshots that wait for the vault
keep the contract too, and that the one of `compactHistory` waits only while no ask
runs (`Snapshots`); and that while tools run the conversation ends in the message that asked for
them, with as many calls as there are results collected and calls to run (`InProgress`).
The lemmas underneath say what the operators do: `Sub` puts the message of rank *q* at *q*
(`SubIs`) and neighbours stay neighbours (`RanksInARow`); what is kept whole or
dropped whole stays whole (`WholeAnswers`); the budget keeps or drops exchanges whole
(`EnforcedIsWhole`, by well-founded induction over its two loops). In `EnforcedIsWhole` the
conversation need not be well formed. Hypotheses (`Alone`, those of the run): compaction in its `auto` and `force` modes, and nothing
but the ask itself changes its conversation while it runs (section 6). `AgentTypes` needs neither.

**Requests_proofs** (1114). *Budget*: `PairsAreKept`, `AnswerIsKept`, `BudgetTypes`, from `BudgetInvariant`.
The second loop drops single messages, and could drop a call and leave its results. The invariant adds
`NoExchangeDroppable`: when the second loop starts, no message it can reach belongs to
an exchange, since the first loop ran until there was none. In a well-formed conversation the
oldest droppable group starts at a call, is the call with all its results, and never holds the
protected answer. `LoopsGiveEnforced`: at each iteration, what the recursive
functions of `History` give for the positions that are left is what they gave at first.
*Client*: `BodiesFit` and `AnswersAreWhatWasSent`, from `ClientInvariant`, which relates the
frames read so far to the answer collected (`Collects`). `BodiesFit` assumes that the conversation has a
system message, `Has("system")`, as the constructor and `reset()` of `agent.ts` see to; without one content mode has
nowhere to describe the tools.

**AntonRun_proofs** (1747): `NothingIsLeftBehind`, `RunTypes`, from `RunInvariant`; `TicksKeepWork`
and `EveryTickIsEarned`, from `WorkInvariant`. For worklists of any
size, nesting and collision of keys, if a task is pending one is runnable (`RunnableProgress`):
the pending line that comes first cannot wait, because a line waits for the *first* line
with its parent's key, which is not after the parent and so before the line.
`WorkInv` adds that lines keep their identity through ticks and insertions, that an attempt is at an open line
(`AtOpenLine`), that the index has no line and no tick that the work tree lacks (`Behind`),
and that what is ticked in the index is not work that a roll-back of the tree could take (`TicksHaveCommits`). What
`autoCompleteAncestors` ticks is found by following its climb (`IsClimb`) line by line.

**Hosts_proofs** (2029). *Anton's lock*: `LockIsExclusive` from `LockInvariant`: a run that is about to fill
the file it created excludes nobody by its `pc` alone, so while nothing is `shaken` the
holder is named in the file, the one named holds it or died, a heartbeat is its
holder's, and nobody is about to remove a lock. *Model server*: `ExecutorsDoNotOverlap` from `ExecInvariant` (the lock
names who executes) and `RecordIsTrue` from `CleanInvariant`: what is served, in terms of the
steps left of the plan in execution (`Truly`). *Chats*: `RunsAreReached` from `ChatsInvariant`: a run
that has begun is the one its object names, or was told to stop when its chat lost the
object; outside `given` an object has one run. *Configuration*: `OnlyOverlapsUndo`: while a command
is under way, what differs between the file and the copy it holds was changed by others since it read (`Knows`).
*exec*: `OutputIsShown` from `OutputInvariant`: the buffer is the end of what was read,
what was shown rises and ends before it.

**Stores_proofs** (1349). *Files*: `ReplacedIsBackedUp` from the latest backup being the file's
(`BackedUp`); `CheckpointsAreKept` from `CheckpointInvariant`: contents come before the line in the index, and
the index is the end of the order of checkpoints. *Vault*: `ReviewsAreKept` from
`VaultInvariant` (rows are finitely many and numbered once), with the lemma that the
newest *n* of a set leave out only what has *n* newer ones. *Upgrade*: `RollbacksAreWhole`: an archive has its
name only after it was packed; it assumes that the latest release is a number, `Latest \in Nat`. *One-shot*, *verification*:
`TreeIsRestored`, `VerdictIsEarned`, from what each step has behind it.

**Partners_proofs** (2046). `ConfirmKeepsPromise` is the refinement: initial states of `Confirm`
are those of `Approval`, and each step maps to a step or a stutter. Answers come
in batches, so `ConfirmInv` adds that no request is in two messages or batches, that
whatever can still be decided is pending, and that a message decided for "approved" has consent.
`AnswersAreOwn`: ids are never used again, so what a server was asked under an id that still
waits was asked by the one that waits (`IdsAreOwn`), and a request of the server's own settles at most the call that waits under its id; it assumes that `Configured` is a sequence of servers and
`Lsp` some of them. `PluginsAreContained`: every handler in
every list has capabilities its plugin may have, as has what `setup` keeps for later, and a dispatch is
at a handler of a list that only grows. `TasksTakeTurns`: the queue is a chain of promises
of which the first is resolved. `LastTextStands`: once the turn is over the edit loop is off
and no older edit in flight is unaccounted for. `WatchModeIsKept`: runs of watch mode exclude each other.

Only model-checked. Liveness is out of the prover's reach: `TurnEnds`, `QueueDrains`, `MessagesEnd`, `AskEnds`,
`RequestsEnd`, `RunEnds`, `CommandsEnd`, `WaitsEnd`. Of the safety properties that the passing runs check,
every one is proved.

## 5. Where code and documents disagree

Three runs look for a state that a comment or document rules out, and TLC finds it.
`PROJECT.json` quotes the lines.

- `bot_shared`: turn ids start over with a new session, so the end of a turn that `/new`
  left behind frees the new session while it runs; a further message starts a second ask
  on the same agent.
- `client_switch`: when a template error persists after the switch to content mode,
  the call that switched starts a new one, whose guard is new too: it switches again,
  without pause or end.
- `verified_elsewhere`: verification detects commands in the project's directory and runs them in
  that of the process. A task passes on the build of another directory.

Three more contradict a line; the models have them, and the properties above except them:

- `cli/args.ts:218` says that `--diff-only` restores a clean tree. `git clean -fd` cleans below the directory of the
  run and passes over repositories inside of it: what the agent created elsewhere stays, with exit code 0.
- `docs/guide/hooks.md:91` says that what a plugin has no capability for is redacted "instead of exposing raw data". Without
  `read_tool_results`, `redactPayload` blanks `result.result`, while `execOutput`, `searchMatches`, `diff` and `summary` of the same event reach every plugin (`hooks/manager.ts:72`).
- `mcp.ts:174` and `lsp.ts:306` look a message's id up among the requests that wait whether or not it has a `method`: a
  request of the server's own with such an id answers a call, with nothing.

Other things the models show, which no line of the repository denies:

- `recreateSession` empties the queue of messages that were answered "Queued".
- Whether a command is answered from the exec cache is decided before the edits of its own batch run.
- Vault context pushed between a call and its results splits the exchange for a later
  compaction.
- A parent task is ticked with its last child although its own attempts failed; and an
  attempt that throws is not rolled back, so its edits go into the next commit.
- Two Anton runs that both find a stale lock can remove each other's fresh one; a lock
  older than an hour is stale although its heartbeat is fresh.
- A process that dies between opening Anton's lock and writing it leaves an empty file,
  on which every later `acquireAntonLock` calls itself without end (`TornWrites = TRUE`).
- A plugin whose `setup` throws aborts `createSession` in non-strict mode too; in strict mode a
  failing handler of `tool_stream` is a rejection nobody catches, and ends the process.
- A refused commit leaves its work staged, ticks included, and later roll-backs restore the tree from there.
- `/switch` and an Anton run's recovery answer the question whether to take the runtime lock over with yes: they
  take it from a living process that executes.
- A prompt in the terminal UI that a second one replaces is never answered; in the line
  interface a second `rl.question` loses one of the two.

And some met while reading, outside the models: `/model <endpoint> <name>` takes the name
from the wrong part; `/deescalate` keeps the escalation's endpoint; `setModel` keeps the context
window of the model before when the new one reports none; the paths backed up before `apply_patch`
have `a/` and `b/` stripped whatever `strip` says; language servers share the document
versions of one URI.

## 6. What is left out

Of the modelled components, `PROJECT.json` says for each what is missing. The main points: the capacity of the
session map; routing of Discord agents to channels; change of model and endpoint of a session;
phase headings and continuation lines of worklists; dry runs and branch names; reading and listing tools and the
text of patches; search and ranking of the vault; ssh and templates of the runtime; framing of JSON-RPC; key handling of the terminal UI.

In `AgentLoop`, a compaction or reset *during* an ask is a step of the model (constant
`Concurrent`), but the run takes it between asks only: what such a step does to the
exchange in progress is not the subject of a property. `hard` compaction, which keeps the system
prompt and the last two messages, is there in the same way. Liveness of `ReplTurns` is not checked:
its graph is too large for it.

Not modelled at all: session files and most slash commands (one file, one writer), configuration, set-up wizard and service files,
benchmarks, the prompts and reports of Anton, the summaries of lens, the pattern tables of `safety.ts`.
They are text, settings and terminal output, where unit tests reach and interleaving does not.

## 7. What comes next

- The refinement of an abstract chat (messages begin, are asked once, end) by both bots, where no session is reset.
- A property for `Concurrent` compaction that states what an ask may lose.
- The change of model and endpoint in a session; the documents language servers hold.

------------------------------ MODULE ReplTurns ------------------------------
(***************************************************************************)
(* The line interface (main in src/src/index.ts and the context it builds, *)
(* src/src/cli/build-repl-context.ts): the loop that reads and does the    *)
(* user's lines, and beside it the runs of watch mode, which repeat his    *)
(* last task when a file changes, on the same session, the same config and *)
(* the same readline.  Everybody asks the user through rl.question, of     *)
(* which one can be open: a second one is never answered.                  *)
(*                                                                         *)
(* does[a] is what actor a (the loop, a run of watch mode, the search of   *)
(* Ctrl-R) does:                                                           *)
(*   free                  no run, no search                               *)
(*   prompt, reading       the loop is about to read a line; it reads one  *)
(*   asking, confirm       session.ask; a tool of it asks the user         *)
(*   offer, message        "Commit these changes?", "Commit message:"      *)
(*   shell, leaving, out   a shell line; /quit; the loop has ended         *)
(*   query                 the search's question                           *)
(*   lost                  awaits a question that will not be answered     *)
(***************************************************************************)
EXTENDS Integers

CONSTANTS
  Watchers,     \* names for runs of watch mode that could go on at a time
  Base,         \* config.max_iterations
  Limits,       \* --max of /watch
  MaxLines, MaxChanges, MaxSignals  \* bounds: lines, changes of files, SIGINTs

\* The names of the actors are not taken for each other.
ASSUME ReplAssumption == Watchers \cap {"loop", "search", "none"} = {}

VARIABLES
  does,
  question,    \* whose question is open, or "none"
  ended,      \* readline was closed: what is asked now throws
  active,      \* watchActive
  watched,     \* are there watchers of files?
  limit,       \* watchMaxIterationsPerTrigger
  timer,       \* watchDebounceTimer is set
  running, queued,   \* watchRunInFlight, watchRunQueued
  iterations,  \* config.max_iterations
  prior,       \* prior[w]: priorMaxIterations of the run w
  runnable,    \* is there a lastRunnableInput?
  sigints,     \* sigintCount
  proc,        \* the process: "up", "saving", "closing" (shutdown), "exited"
  unrun,       \* history: a change that no run of watch mode began after
  lines, changes, signals

watchvars == <<active, watched, limit, timer, running, queued, iterations, prior, unrun>>
bounds == <<lines, changes, signals>>
rvars == <<does, question, ended, watchvars, runnable, sigints, proc, bounds>>

Actors == {"loop", "search"} \cup Watchers
Up == proc # "exited"
Does(a, places) == Up /\ does[a] \in places

-----------------------------------------------------------------------------
(* rl.question *)

\* A second question only prints the prompt of the first again.
Question(a, place) ==
  /\ ~ended
  /\ IF question = "none"
     THEN question' = a /\ does' = [does EXCEPT ![a] = place]
     ELSE does' = [does EXCEPT ![a] = "lost"] /\ UNCHANGED question

\* The user's line answers it.
Answers(a, place) ==
  /\ question = a /\ question' = "none"
  /\ does' = [does EXCEPT ![a] = place]

-----------------------------------------------------------------------------
(* Watch mode *)

StopWatchMode ==
  /\ timer' = FALSE /\ watched' = FALSE /\ queued' = FALSE /\ active' = FALSE
  /\ unrun' = FALSE
  /\ UNCHANGED <<limit, running, iterations, prior>>

\* Watching may fail after some paths are watched: their changes then lead to nothing.
StartWatchMode(l, ok) ==
  /\ timer' = FALSE /\ queued' = FALSE /\ unrun' = FALSE
  /\ watched' = TRUE /\ active' = ok /\ limit' = l
  /\ UNCHANGED <<running, iterations, prior>>

\* A file under a watched path changes, by whomever: the tools of the run that follows,
\* too. Each change starts the 500 ms again.
Change ==
  /\ Up /\ watched /\ changes < MaxChanges
  /\ changes' = changes + 1
  /\ timer' = TRUE /\ unrun' = active
  /\ UNCHANGED <<does, question, ended, active, watched, limit, running, queued, iterations,
                 prior, runnable, sigints, proc, lines, signals>>

\* Math.max(1, Math.min(n, l))
Capped(n, l) == IF n < 1 \/ l < 1 THEN 1 ELSE IF n < l THEN n ELSE l

\* Mutant of RunRefused: runs go on beside each other.
RunRefusedNever == FALSE

RunRefused == running

\* runWatchPrompt, called when its caller has made `places` of does, and `n` of
\* config.max_iterations.
RunWatchPrompt(w, places, n) ==
  /\ places[w] = "free"
  /\ does' = [places EXCEPT ![w] = "asking"]
  /\ running' = TRUE /\ queued' = FALSE /\ unrun' = FALSE
  /\ prior' = [prior EXCEPT ![w] = n] /\ iterations' = Capped(n, limit)
  /\ UNCHANGED <<active, watched, limit>>

\* The 500 ms are over.
Debounced ==
  /\ Up /\ timer /\ timer' = FALSE
  /\ IF active /\ ~RunRefused
     THEN \E w \in Watchers : RunWatchPrompt(w, does, iterations)
     ELSE /\ queued' = (queued \/ active)
          /\ UNCHANGED <<does, active, watched, limit, running, iterations, prior, unrun>>
  /\ UNCHANGED <<question, ended, runnable, sigints, proc, bounds>>

\* Mutant: what was queued while a run went on is forgotten.
FinishWatchForgets(w) ==
  /\ running' = FALSE /\ queued' = FALSE /\ iterations' = prior[w]
  /\ does' = [does EXCEPT ![w] = "free"]
  /\ UNCHANGED <<active, watched, limit, timer, prior, unrun>>

\* The finally block of a run: what was queued runs at once.
FinishWatch(w) ==
  IF queued
  THEN /\ RunWatchPrompt(w, [does EXCEPT ![w] = "free"], prior[w])
       /\ UNCHANGED timer
  ELSE /\ running' = FALSE /\ iterations' = prior[w]
       /\ does' = [does EXCEPT ![w] = "free"]
       /\ UNCHANGED <<active, watched, limit, timer, queued, prior, unrun>>

-----------------------------------------------------------------------------
(* A turn of the loop or of watch mode: runAgentTurnWithSpinner, maybeOfferAutoCommit *)

\* A tool wants to be confirmed (TerminalConfirmProvider); decisions it remembers ask nothing.
Asks(a) ==
  /\ Does(a, {"asking"}) /\ Question(a, "confirm")
  /\ UNCHANGED <<ended, watchvars, runnable, sigints, proc, bounds>>

\* Yes, no, or "diff", after which the next question follows at once.
Confirmed(a) ==
  /\ Does(a, {"confirm"})
  /\ Answers(a, "asking") \/ UNCHANGED <<does, question>>
  /\ UNCHANGED <<ended, watchvars, runnable, sigints, proc, bounds>>

Finish(a) ==
  IF a = "loop" THEN does' = [does EXCEPT !["loop"] = "prompt"] /\ UNCHANGED watchvars
                ELSE FinishWatch(a)

\* The turn is over: the ask threw, there is nothing to offer, or readline is closed.
TurnEnds(a) ==
  /\ Does(a, {"asking"}) /\ Finish(a)
  /\ UNCHANGED <<question, ended, runnable, sigints, proc, bounds>>

\* Two files or more are changed.
Offer(a) ==
  /\ Does(a, {"asking"}) /\ Question(a, "offer")
  /\ UNCHANGED <<ended, watchvars, runnable, sigints, proc, bounds>>

\* "edit" asks for the message; else git runs or does not.
Message(a) ==
  /\ Does(a, {"offer"}) /\ question = a
  /\ does' = [does EXCEPT ![a] = "message"]
  /\ UNCHANGED <<question, ended, watchvars, runnable, sigints, proc, bounds>>

Offered(a) ==
  /\ Does(a, {"offer", "message"}) /\ question = a /\ question' = "none"
  /\ Finish(a)
  /\ UNCHANGED <<ended, runnable, sigints, proc, bounds>>

-----------------------------------------------------------------------------
(* The loop *)

\* readUserInput, or, once readline is closed, the end of the loop.
Prompt ==
  /\ Does("loop", {"prompt"}) /\ Question("loop", "reading")
  /\ UNCHANGED <<ended, watchvars, runnable, sigints, proc, bounds>>

LoopEnds ==
  /\ Does("loop", {"prompt"}) /\ ended
  /\ does' = [does EXCEPT !["loop"] = "out"] /\ StopWatchMode
  /\ UNCHANGED <<question, ended, runnable, sigints, proc, bounds>>

Line(place) ==
  /\ Does("loop", {"reading"}) /\ lines < MaxLines /\ lines' = lines + 1
  /\ Answers("loop", place)
  /\ UNCHANGED <<ended, sigints, changes, signals>>

\* A task, or a custom command that stands for one.
Task == Line("asking") /\ runnable' = TRUE /\ UNCHANGED <<watchvars, proc>>

\* /edit: an editor that gives a prompt, or none.
Edit ==
  \/ Line("asking") /\ runnable' = TRUE /\ UNCHANGED <<watchvars, proc>>
  \/ Line("prompt") /\ UNCHANGED <<watchvars, runnable, proc>>

\* !command
Shell == Line("shell") /\ UNCHANGED <<watchvars, runnable, proc>>

\* It ends, is killed after its time or by SIGINT.
ShellEnds ==
  /\ Does("loop", {"shell"}) /\ does' = [does EXCEPT !["loop"] = "prompt"]
  /\ UNCHANGED <<question, ended, watchvars, runnable, sigints, proc, bounds>>

\* /watch, which wants a task to repeat.
Watch ==
  /\ Line("prompt")
  /\ \/ active /\ StopWatchMode
     \/ runnable /\ \E l \in Limits, ok \in BOOLEAN : StartWatchMode(l, ok)
  /\ UNCHANGED <<runnable, proc>>

\* /quit
Quit == Line("leaving") /\ proc' = "saving" /\ UNCHANGED <<watchvars, runnable>>

-----------------------------------------------------------------------------
(* Keys and signals *)

\* Ctrl-R: the prompt, if it is open, stays so, and the search is not seen.
Search ==
  /\ Does("search", {"free"}) /\ signals < MaxSignals /\ signals' = signals + 1
  /\ question = "none" /\ Question("search", "query")
  /\ UNCHANGED <<ended, watchvars, runnable, sigints, proc, lines, changes>>

Searched ==
  /\ Does("search", {"query"}) /\ Answers("search", "free")
  /\ UNCHANGED <<ended, watchvars, runnable, sigints, proc, bounds>>

\* Ctrl-C in the terminal, Ctrl-D, or the end of input: readline closes and rejects its
\* open question. A tool that could not ask fails, an offer ends its turn.
InputEnds ==
  /\ Up /\ ~ended /\ ended' = TRUE /\ question' = "none"
  /\ IF question \in Actors /\ does[question] \in {"offer", "message"}
     THEN Finish(question)
     ELSE /\ does' = [a \in Actors |->
               IF a # question THEN does[a]
               ELSE CASE does[a] = "reading" -> "prompt" [] does[a] = "confirm" -> "asking"
                      [] OTHER -> "free"]
          /\ UNCHANGED watchvars
  /\ UNCHANGED <<runnable, sigints, proc, bounds>>

\* The handler of SIGINT: a shell line, watch mode, or the ask; the second ends it all.
Interrupt ==
  /\ Up /\ signals < MaxSignals /\ signals' = signals + 1
  /\ CASE does["loop"] = "shell" -> UNCHANGED <<watchvars, sigints, proc>>
       [] does["loop"] # "shell" /\ active -> StopWatchMode /\ UNCHANGED <<sigints, proc>>
       [] OTHER -> /\ sigints' = sigints + 1 /\ UNCHANGED watchvars
                   /\ proc' = IF sigints > 0 THEN "closing" ELSE proc
  /\ UNCHANGED <<does, question, ended, runnable, lines, changes>>

\* 1.5 s later; the ask, cancelled, ends as TurnEnds has it.
Forgotten ==
  /\ Up /\ sigints > 0 /\ sigints' = 0
  /\ UNCHANGED <<does, question, ended, watchvars, runnable, proc, bounds>>

\* SIGTERM
Terminate ==
  /\ proc = "up" /\ signals < MaxSignals /\ signals' = signals + 1 /\ proc' = "saving"
  /\ UNCHANGED <<does, question, ended, watchvars, runnable, sigints, lines, changes>>

\* shutdown: the conversation is saved, as it is just now.
SaveCurrentSession ==
  /\ proc = "saving" /\ proc' = "closing"
  /\ UNCHANGED <<does, question, ended, watchvars, runnable, sigints, bounds>>

\* Watch mode is stopped, the session closed, the process left.
Shutdown ==
  /\ proc = "closing" /\ proc' = "exited" /\ ended' = TRUE
  /\ StopWatchMode
  /\ UNCHANGED <<does, question, runnable, sigints, bounds>>

-----------------------------------------------------------------------------
ReplInit ==
  /\ does = [a \in Actors |-> IF a = "loop" THEN "prompt" ELSE "free"]
  /\ question = "none" /\ ended = FALSE
  /\ active = FALSE /\ watched = FALSE /\ limit \in Limits /\ timer = FALSE
  /\ running = FALSE /\ queued = FALSE
  /\ iterations = Base /\ prior = [w \in Watchers |-> Base]
  /\ runnable = FALSE /\ sigints = 0 /\ proc = "up" /\ unrun = FALSE
  /\ lines = 0 /\ changes = 0 /\ signals = 0

Dispatch == Task \/ Edit \/ Shell \/ ShellEnds \/ Watch \/ Quit

Turn(a) ==
  Asks(a) \/ Confirmed(a) \/ TurnEnds(a) \/ Offer(a) \/ Message(a) \/ Offered(a)

ReplNext ==
  \/ Change \/ Debounced
  \/ \E a \in Actors \ {"search"} : Turn(a)
  \/ Prompt \/ LoopEnds \/ Dispatch
  \/ Search \/ Searched \/ InputEnds \/ Interrupt \/ Forgotten \/ Terminate
  \/ SaveCurrentSession \/ Shutdown

ReplSpec == ReplInit /\ [][ReplNext]_rvars

-----------------------------------------------------------------------------
\* Watch mode lowers config.max_iterations for its run only: however runs, queued runs,
\* errors and /watch follow each other, the user's value comes back.
IterationsRestored ==
  IF \E w \in Watchers : does[w] # "free"
  THEN /\ \A w \in Watchers : does[w] # "free" => prior[w] = Base
       /\ iterations \in {Capped(Base, l) : l \in Limits}
  ELSE iterations = Base

\* A change that no run began after is not forgotten while watch mode is on: the timer
\* will fire, or the run that goes on will be followed by another.
ChangesWait == unrun => timer \/ (running /\ queued)

\* Runs of watch mode follow each other (runWatchPrompt), and both hold.
WatchModeHolds == IterationsRestored /\ ChangesWait
=============================================================================

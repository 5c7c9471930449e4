------------------------------ MODULE TuiTurns -------------------------------
(***************************************************************************)
(* The terminal interface (src/src/tui/controller.ts, confirm.ts,          *)
(* branch-picker.ts, command-handler.ts): one session, the message whose   *)
(* turn runs, its watchdog, and the slash and shell commands, which are    *)
(* not counted by `inFlight` and go on beside a turn that starts after     *)
(* them.  Turn and commands both ask the user through one                  *)
(* TuiConfirmProvider, which remembers one promise.                        *)
(*                                                                         *)
(* Runners are the turn, "ask", and the commands.  A decision the provider *)
(* remembers asks nothing, and what the user decides changes nothing here. *)
(***************************************************************************)
EXTENDS Integers

CONSTANTS
  Commands,        \* slash and shell commands the user may give
  Approvers,       \* those of them whose tools may ask: /approve
  Inputs,          \* bound: messages the user submits
  MaxCompactions,  \* watchdog_max_compactions
  MaxGrace,        \* watchdog_idle_grace_timeouts
  MaxProgress      \* bound: events of progress in a turn (the agent's iterations)

VARIABLES
  inFlight,   \* this.inFlight
  phase,      \* of the turn: "idle", "asking", or "waiting" for a compaction
  aborted,    \* has the attempt's signal fired?
  watchdog,   \* its compactions and grace windows, is a compaction pending?
  progress,   \* events the turn can still have
  command,    \* command -> "new", "running" or "done"
  shown,      \* state.confirmPending: keys go to the prompt
  resolver,   \* resolveConfirm: the runner it resolves, or "none"
  waiters,    \* runners that await their confirm()
  inputs,     \* messages submitted
  cleaned     \* cleanup was called

tvars == <<inFlight, phase, aborted, watchdog, progress, command, shown, resolver,
           waiters, inputs, cleaned>>

Runners == {"ask"} \cup Commands

Fresh == [compactions |-> 0, grace |-> 0, pending |-> FALSE]

TuiInit ==
  /\ inFlight = FALSE /\ phase = "idle" /\ aborted = FALSE
  /\ watchdog = Fresh /\ progress = 0
  /\ command = [c \in Commands |-> "new"]
  /\ shown = FALSE /\ resolver = "none" /\ waiters = {}
  /\ inputs = 0 /\ cleaned = FALSE

\* A key of the main screen: while a prompt is shown it takes every key.
Typing == ~cleaned /\ ~shown

-----------------------------------------------------------------------------
(* submitInput *)

Submit ==
  /\ Typing /\ ~inFlight /\ inputs < Inputs
  /\ inFlight' = TRUE /\ phase' = "asking" /\ aborted' = FALSE
  /\ watchdog' = Fresh /\ progress' = MaxProgress /\ inputs' = inputs + 1
  /\ UNCHANGED <<command, shown, resolver, waiters, cleaned>>

\* A command is refused while a turn runs, and counts for nothing itself.
Command(c) ==
  /\ Typing /\ ~inFlight /\ command[c] = "new"
  /\ command' = [command EXCEPT ![c] = "running"]
  /\ UNCHANGED <<inFlight, phase, aborted, watchdog, progress, shown, resolver, waiters,
                 inputs, cleaned>>

\* It returned, or its error was shown.
CommandEnds(c) ==
  /\ command[c] = "running" /\ c \notin waiters
  /\ command' = [command EXCEPT ![c] = "done"]
  /\ UNCHANGED <<inFlight, phase, aborted, watchdog, progress, shown, resolver, waiters,
                 inputs, cleaned>>

\* A token, a tool call or a tool's result.
Progress ==
  /\ phase = "asking" /\ "ask" \notin waiters /\ progress > 0
  /\ progress' = progress - 1
  /\ watchdog' = [watchdog EXCEPT !.grace = 0]
  /\ UNCHANGED <<inFlight, phase, aborted, command, shown, resolver, waiters, inputs,
                 cleaned>>

\* session.ask returned or threw; an abort while the watchdog compacts is tried again.
AskEnds(how) ==
  /\ phase = "asking" /\ "ask" \notin waiters
  /\ how = "aborted" => aborted
  /\ IF how = "aborted" /\ watchdog.pending
     THEN phase' = "waiting" /\ UNCHANGED inFlight
     ELSE phase' = "idle" /\ inFlight' = FALSE
  /\ UNCHANGED <<aborted, watchdog, progress, command, shown, resolver, waiters, inputs,
                 cleaned>>

Retry ==
  /\ phase = "waiting" /\ ~watchdog.pending
  /\ phase' = "asking" /\ aborted' = FALSE
  /\ UNCHANGED <<inFlight, watchdog, progress, command, shown, resolver, waiters, inputs,
                 cleaned>>

\* Ctrl+C or /cancel. Between two attempts it aborts the one that has ended.
Cancel ==
  /\ Typing /\ inFlight
  /\ aborted' = TRUE
  /\ UNCHANGED <<inFlight, phase, watchdog, progress, command, shown, resolver, waiters,
                 inputs, cleaned>>

-----------------------------------------------------------------------------
(* The watchdog *)

\* Mutant: a compaction is not counted.
TimesOutUncounted ==
  /\ inFlight /\ ~watchdog.pending
  /\ IF watchdog.grace < MaxGrace
     THEN watchdog' = [watchdog EXCEPT !.grace = @ + 1] /\ UNCHANGED aborted
     ELSE /\ aborted' = TRUE
          /\ watchdog' = IF watchdog.compactions < MaxCompactions
                         THEN [watchdog EXCEPT !.pending = TRUE]
                         ELSE watchdog
  /\ UNCHANGED <<inFlight, phase, progress, command, shown, resolver, waiters, inputs,
                 cleaned>>

\* No progress for its time: a grace window, a compaction with an abort, or an abort. It
\* goes on while a prompt waits for the user.
TimesOut ==
  /\ inFlight /\ ~watchdog.pending
  /\ IF watchdog.grace < MaxGrace
     THEN watchdog' = [watchdog EXCEPT !.grace = @ + 1] /\ UNCHANGED aborted
     ELSE /\ aborted' = TRUE
          /\ watchdog' = IF watchdog.compactions < MaxCompactions
                         THEN [watchdog EXCEPT !.pending = TRUE, !.compactions = @ + 1]
                         ELSE watchdog
  /\ UNCHANGED <<inFlight, phase, progress, command, shown, resolver, waiters, inputs,
                 cleaned>>

\* compactHistory returned or failed. Of an attempt that has not noticed its abort by
\* then, the error ends the turn.
CompactionEnds ==
  /\ watchdog.pending
  /\ watchdog' = [watchdog EXCEPT !.pending = FALSE]
  /\ UNCHANGED <<inFlight, phase, aborted, progress, command, shown, resolver, waiters,
                 inputs, cleaned>>

-----------------------------------------------------------------------------
(* TuiConfirmProvider *)

Asking(r) ==
  /\ r \notin waiters
  /\ IF r = "ask" THEN phase = "asking" /\ progress > 0
                  ELSE r \in Approvers /\ command[r] = "running"

\* confirm: the prompt replaces the one shown, if one is.
Confirm(r) ==
  /\ Asking(r)
  /\ shown' = TRUE /\ resolver' = r /\ waiters' = waiters \cup {r}
  /\ UNCHANGED <<inFlight, phase, aborted, watchdog, progress, command, inputs, cleaned>>

\* y, n or Ctrl+C: resolve.
Resolve ==
  /\ ~cleaned /\ shown /\ resolver # "none"
  /\ waiters' = waiters \ {resolver} /\ resolver' = "none" /\ shown' = FALSE
  /\ progress' = IF resolver = "ask" THEN progress - 1 ELSE progress
  /\ UNCHANGED <<inFlight, phase, aborted, watchdog, command, inputs, cleaned>>

\* Ctrl+D, /quit, Ctrl+C twice, or an error nobody caught.
Quit ==
  /\ ~cleaned /\ cleaned' = TRUE
  /\ UNCHANGED <<inFlight, phase, aborted, watchdog, progress, command, shown, resolver,
                 waiters, inputs>>

-----------------------------------------------------------------------------
AskReturns == \E how \in {"ended", "aborted"} : AskEnds(how)

TuiNext ==
  \/ Submit \/ Progress \/ AskReturns \/ Retry \/ Cancel
  \/ TimesOut \/ CompactionEnds
  \/ Resolve \/ Quit
  \/ \E c \in Commands : Command(c) \/ CommandEnds(c)
  \/ \E r \in Runners : Confirm(r)

\* The model may never answer: only an attempt that is aborted must end. The user answers
\* a prompt in the end; a command ends (the shell's are killed after 30 s).
TuiFair ==
  /\ WF_tvars(aborted /\ AskReturns) /\ WF_tvars(Retry)
  /\ WF_tvars(TimesOut) /\ WF_tvars(CompactionEnds) /\ WF_tvars(Resolve)
  /\ \A c \in Commands : WF_tvars(CommandEnds(c))

-----------------------------------------------------------------------------
(* Properties *)

\* A prompt that another has taken the place of.
Replaced == waiters \ {resolver} # {}

\* The turn of every message ends and the input is free again, however long the model is
\* silent and whatever commands run beside it: the watchdog's patience is finite, and
\* only a prompt that another one replaced (or the end of the program) can keep it.
InputIsFree == inFlight ~> (~inFlight \/ cleaned \/ Replaced)
=============================================================================

------------------------------ MODULE ExecTool ------------------------------
(***************************************************************************)
(* One call of the exec tool (exec, execWithPty and makeExecStreamer in    *)
(* src/src/tools.ts; the tiers of checkExecSafety in src/src/safety.ts):   *)
(* the policy, the process group and what can end it, and the output on    *)
(* its way to the user.  Output is a run of numbered pieces; `buffer` has  *)
(* those read and not yet shown, of which only the last MaxBuffer are      *)
(* kept and the last MaxChunk of those shown.                              *)
(***************************************************************************)
EXTENDS Integers, Sequences

CONSTANTS
  Pieces,      \* bound: pieces of output
  MaxBuffer,   \* toolStreamMaxBufferChars
  MaxChunk,    \* toolStreamMaxChunkChars
  Escapes      \* whether a descendant may leave the group with the pipe open

\* makeExecStreamer raises both caps: to 80, and to the cap of a chunk.
ASSUME ExecAssumption ==
  MaxChunk \in Nat \ {0} /\ MaxBuffer \in Nat \ {0} /\ MaxChunk <= MaxBuffer

VARIABLES
  phase,     \* policy, asking, spawning, running, then a way to end
  tier,      \* of checkExecSafety: free, cautious, forbidden
  noConfirm, \* --no-confirm, or yolo
  canAsk,    \* ctx.confirm is there
  pty,       \* an interactive sudo: execWithPty, which shows everything itself
  stopped,   \* ctx.signal.aborted
  heard,     \* the abort came while onAbort listened
  group,     \* the process group: none, alive, killed, ended
  escaped,   \* a process outside of the group holds the pipe
  killed,
  written, read,   \* pieces the command wrote, and those `data` brought
  buffer, shown,   \* outBuf; the pieces the user saw
  due              \* the streamer's timer is set

xvars == <<phase, tier, noConfirm, canAsk, pty, stopped, heard, group, escaped, killed,
           written, read, buffer, shown, due>>
policyvars == <<tier, noConfirm, canAsk, pty>>
outvars == <<written, read, buffer, shown, due>>

Over == {"blocked", "refused", "failed", "returned"}
Last(s, n) == IF Len(s) <= n THEN s ELSE SubSeq(s, Len(s) - n + 1, Len(s))

-----------------------------------------------------------------------------
(* Policy *)

\* Out of the directory, in the background, forbidden, a protected delete; or
\* cautious with nobody to ask.
Blocks ==
  \/ tier = "forbidden"
  \/ tier = "cautious" /\ ~noConfirm /\ ~canAsk

Policy ==
  /\ phase = "policy"
  /\ phase' = IF Blocks THEN "blocked"
              ELSE IF tier = "cautious" /\ ~noConfirm THEN "asking" ELSE "spawning"
  /\ UNCHANGED <<policyvars, stopped, heard, group, escaped, killed, outvars>>

\* The answer to the confirmation; the signal is not looked at again.
Confirmed ==
  /\ phase = "asking"
  /\ phase' \in {"refused", "spawning"}
  /\ UNCHANGED <<policyvars, stopped, heard, group, escaped, killed, outvars>>

\* A dry run, sudo without a terminal or a pty, a shell that does not start.
FailsToSpawn ==
  /\ phase = "spawning"
  /\ phase' = "failed"
  /\ UNCHANGED <<policyvars, stopped, heard, group, escaped, killed, outvars>>

\* The listener is added to a signal that may have fired already: it is not told.
Spawn ==
  /\ phase = "spawning"
  /\ phase' = "running" /\ group' = "alive"
  /\ UNCHANGED <<policyvars, stopped, heard, escaped, killed, outvars>>

-----------------------------------------------------------------------------
(* What ends the command *)

\* Mutant of Kill: the shell is gone, what it started is not.
KillShellOnly == killed' = TRUE /\ UNCHANGED group

\* SIGKILL to the group; SIGHUP to what runs in a pty, which may ignore it.
Kill ==
  /\ killed' = TRUE
  /\ IF group = "alive" THEN group' \in {"killed"} \union (IF pty THEN {"alive"} ELSE {})
     ELSE UNCHANGED group

\* The abort of the ask, at any time.
Abort ==
  /\ ~stopped /\ phase \notin Over
  /\ stopped' = TRUE
  /\ \/ phase = "running" /\ heard' = TRUE /\ Kill
     \/ phase # "running" /\ UNCHANGED <<heard, killed, group>>
  /\ UNCHANGED <<phase, policyvars, escaped, outvars>>

\* killTimer, at most 120 s after the spawn.
TimesOut ==
  /\ phase = "running" /\ ~killed
  /\ Kill
  /\ UNCHANGED <<phase, policyvars, stopped, heard, escaped, outvars>>

Ends ==
  /\ group = "alive"
  /\ group' = "ended"
  /\ UNCHANGED <<phase, policyvars, stopped, heard, escaped, killed, outvars>>

Escape ==
  /\ Escapes /\ group = "alive" /\ ~escaped
  /\ escaped' = TRUE
  /\ UNCHANGED <<phase, policyvars, stopped, heard, group, killed, outvars>>

-----------------------------------------------------------------------------
(* Output: child.stdout 'data', push, flush, done *)

Write ==
  /\ group = "alive" /\ written < Pieces
  /\ written' = written + 1
  /\ UNCHANGED <<phase, policyvars, stopped, heard, group, escaped, killed, read, buffer,
                 shown, due>>

Show(pieces) == shown' = shown \o Last(pieces, MaxChunk) /\ buffer' = <<>>

\* push: with a timer already set, none is added.
Data ==
  /\ phase = "running" /\ ~pty /\ read < written
  /\ read' = read + 1
  /\ buffer' = Last(Append(buffer, read + 1), MaxBuffer) /\ due' = TRUE
  /\ UNCHANGED <<phase, policyvars, stopped, heard, group, escaped, killed, written, shown>>

\* onData of a pty writes to the terminal at once.
PtyData ==
  /\ phase = "running" /\ pty /\ read < written
  /\ read' = read + 1
  /\ Show(<<read + 1>>)
  /\ UNCHANGED <<phase, policyvars, stopped, heard, group, escaped, killed, written, due>>

\* The timer: flush(false), at least an interval after the flush before.
Flush ==
  /\ due
  /\ due' = FALSE
  /\ Show(buffer)
  /\ UNCHANGED <<phase, policyvars, stopped, heard, group, escaped, killed, written, read>>

\* Mutant of Done: the timer is cleared and the rest is not flushed.
DoneUnflushed == due' = FALSE /\ UNCHANGED <<shown, buffer>>

Done == Show(buffer) /\ due' = FALSE

\* 'close': the process is gone and its pipes are at the end.
Close ==
  /\ phase = "running" /\ ~pty /\ group \in {"ended", "killed"} /\ read = written
  /\ ~escaped
  /\ phase' = "returned"
  /\ Done
  /\ UNCHANGED <<policyvars, stopped, heard, group, escaped, killed, written, read>>

\* onExit, which waits for no pipe.
PtyExit ==
  /\ phase = "running" /\ pty /\ group \in {"ended", "killed"} /\ read = written
  /\ phase' = "returned"
  /\ UNCHANGED <<policyvars, stopped, heard, group, escaped, killed, outvars>>

-----------------------------------------------------------------------------
CallInit ==
  /\ tier \in {"free", "cautious", "forbidden"}
  /\ noConfirm \in BOOLEAN /\ canAsk \in BOOLEAN /\ pty \in BOOLEAN
  /\ stopped = FALSE /\ heard = FALSE /\ group = "none" /\ escaped = FALSE /\ killed = FALSE
  /\ written = 0 /\ read = 0 /\ buffer = <<>> /\ shown = <<>> /\ due = FALSE

ExecInit == phase = "policy" /\ CallInit

ExecNext ==
  \/ Policy \/ Confirmed \/ FailsToSpawn \/ Spawn \/ Abort \/ TimesOut \/ Ends \/ Escape
  \/ Write \/ Data \/ PtyData \/ Flush \/ Close \/ PtyExit

ExecSpec == ExecInit /\ [][ExecNext]_xvars

\* Prompts end (PromptsEnd of Confirm), timers fire, pipes are read, 'close' comes.
ExecFair ==
  /\ WF_xvars(Policy) /\ WF_xvars(Confirmed) /\ WF_xvars(FailsToSpawn \/ Spawn)
  /\ WF_xvars(TimesOut) /\ WF_xvars(Data \/ PtyData) /\ WF_xvars(Close \/ PtyExit)

-----------------------------------------------------------------------------
\* What the user saw is in the order it was written, and when exec returns he has
\* seen the last of it, whatever the throttle, the caps and a kill did.
OutputShown ==
  /\ \A i, j \in 1..Len(shown) : i < j => shown[i] < shown[j]
  /\ phase = "returned" /\ written > 0 => shown # <<>> /\ shown[Len(shown)] = written

\* A call of exec ends, whatever the command does, unless a process that left the
\* group keeps its pipe, or one in a pty ignores its signal.
ExecEnds == <>(phase \in Over \/ escaped \/ (pty /\ killed))
=============================================================================

------------------------------ MODULE AntonRun ------------------------------
(***************************************************************************)
(* runAnton (src/src/anton/controller.ts): the loop that takes a worklist  *)
(* task by task through an agent session and its verification, with the    *)
(* git work tree it runs in.                                               *)
(*                                                                         *)
(* run.pc is where the controller is:                                      *)
(*   start    lock held, before the first parse       loop    the loop head *)
(*   ask      session.ask and the verification of its answer               *)
(*   commit   the task is ticked, commitAll is next                        *)
(*   end      the loop is left      done, threw   the run is over          *)
(***************************************************************************)
EXTENDS Worklist

CONSTANTS
  Lists,        \* the worklists a run may start on
  Subtasks,     \* the lists of texts a task may be decomposed into
  Configs,      \* the configurations of a run
  MaxRetries,   \* maxRetriesPerTask
  MaxIterations,
  MaxTasks,     \* maxTotalTasks
  MaxDepth,     \* maxDecomposeDepth
  MaxRuns       \* bound: runs in a behaviour

\* place: the worklist is tracked by git, untracked, or out of its reach (outside the
\* repository, or ignored). The project's directory is the root of the work tree.
Config == [skipOnFail : BOOLEAN, autoCommit : BOOLEAN, cleanOnFail : BOOLEAN,
           decompose : BOOLEAN, allowDirty : BOOLEAN,
           place : {"tracked", "untracked", "outside"}]

ASSUME AntonAssumption ==
  /\ Lists \subseteq Seq(Line) /\ Subtasks \subseteq Seq(Texts)
  /\ \A f \in Lists : \A i \in DOMAIN f : f[i].id = i
  /\ Configs \subseteq Config
  /\ {MaxRetries, MaxIterations, MaxTasks, MaxDepth, MaxRuns} \subseteq Nat

VARIABLES
  config,
  file,      \* the worklist, in the work tree
  head,      \* the worklist as last committed
  index,     \* the worklist as last staged
  staged,    \* does the index hold other changes that are not committed?
  place,     \* config.place, or what git made of it: "added" to the index only, "deleted"
  edits,     \* tasks, by id, with changes of files that are not staged
  newfiles,  \* are there files that git does not track?
  run,       \* the locals of runAnton
  runs,
  lines,     \* lines written so far (history variable)
  passed,    \* tasks, by id, that passed their last verification (history variable)
  undone,    \* passed tasks whose work was rolled back (history variable)
  alike      \* two lines of the worklist have, or had, one key (history variable)

git == <<head, index, staged, place, edits, newfiles>>
ghosts == <<lines, passed, undone, alike>>
vars == <<config, file, git, run, runs, ghosts>>

Key == [text : Texts, depth : Nat, nth : Nat]
NoKey == [text |-> "", depth |-> 0, nth |-> 0]

Fresh == [pc |-> "start", key |-> NoKey, id |-> 0, cancelled |-> FALSE, recovered |-> FALSE,
          retries |-> [k \in {} |-> 0], skipped |-> {}, iterations |-> 0,
          failed |-> FALSE, stop |-> "none",
          aborted |-> FALSE,  \* abortSignal
          spent |-> FALSE]    \* totalTimeoutSec or maxTotalTokens is used up
Threw == [Fresh EXCEPT !.pc = "threw"]

In(pcs) == run.pc \in pcs
Ended == {"done", "threw"}

Retries(k) == IF k \in DOMAIN run.retries THEN run.retries[k] ELSE 0
WithRetries(k, n) == [j \in DOMAIN run.retries \cup {k} |-> IF j = k THEN n ELSE run.retries[j]]

\* git diff HEAD
Dirty ==
  \/ staged \/ edits # {} \/ place = "added"
  \/ place = "tracked" /\ file # head

-----------------------------------------------------------------------------
(* Before the loop *)

Begin ==
  /\ In({"start"}) /\ place # "deleted"
  /\ config.allowDirty \/ ~Dirty
  /\ run' = [run EXCEPT !.pc = "loop"]
  /\ UNCHANGED <<config, file, git, runs, ghosts>>

\* The work tree is dirty, or the preflight or the branch fails.
BeginFails ==
  /\ In({"start"})
  /\ run' = Threw
  /\ UNCHANGED <<config, file, git, runs, ghosts>>

-----------------------------------------------------------------------------
(* The loop *)

\* Mutant: the limits are looked at after one iteration more.
OutOfLimitsLate ==
  run.aborted \/ run.iterations > MaxIterations \/ run.spent \/ Len(file) > MaxTasks

OutOfLimits ==
  run.aborted \/ run.iterations >= MaxIterations \/ run.spent \/ Len(file) > MaxTasks

NextLine == Next1(file, run.skipped)
NextKey == Keys(file)[NextLine]
OutOfRetries == Retries(NextKey) >= MaxRetries

AtTask == In({"loop"}) /\ place # "deleted" /\ Runnable(file, run.skipped) # {} /\ ~OutOfLimits

LoopEnds ==
  /\ In({"loop"}) /\ place # "deleted"
  /\ \/ Runnable(file, run.skipped) = {}
     \/ OutOfLimits
     \/ AtTask /\ OutOfRetries /\ ~config.skipOnFail
  /\ run' = [run EXCEPT !.pc = "end"]
  /\ UNCHANGED <<config, file, git, runs, ghosts>>

Skip ==
  /\ AtTask /\ OutOfRetries /\ config.skipOnFail
  /\ run' = [run EXCEPT !.skipped = @ \cup {NextKey},
                        !.retries = WithRetries(NextKey, Retries(NextKey) + 1)]
  /\ UNCHANGED <<config, file, git, runs, ghosts>>

StartTask ==
  /\ AtTask /\ ~OutOfRetries
  /\ run' = [run EXCEPT !.pc = "ask", !.key = NextKey, !.id = file[NextLine].id,
                        !.cancelled = FALSE, !.recovered = FALSE]
  /\ UNCHANGED <<config, file, git, runs, ghosts>>

\* createSession throws: nothing catches it.  Nor a worklist that cannot be read.
Throws ==
  /\ \/ AtTask /\ ~OutOfRetries
     \/ In({"loop", "end"}) /\ place = "deleted"
  /\ run' = Threw
  /\ UNCHANGED <<config, file, git, runs, ghosts>>

-----------------------------------------------------------------------------
(* An attempt.  What it says and leaves behind is up to the agent. *)

\* The agent edits a file, or leaves a new one.
Work(kind) ==
  /\ In({"ask"})
  /\ edits' = IF kind = "edit" THEN edits \cup {run.id} ELSE edits
  /\ newfiles' = (newfiles \/ kind = "newfile")
  /\ UNCHANGED <<config, file, head, index, staged, place, run, runs, ghosts>>

\* The attempt is recorded; a failure ends the run unless tasks may be skipped.
Recorded(fails, counts, retries) ==
  run' = [run EXCEPT !.pc = IF fails /\ ~config.skipOnFail THEN "end" ELSE "loop",
                     !.key = NoKey, !.id = 0, !.cancelled = FALSE, !.recovered = FALSE,
                     !.failed = @ \/ fails, !.iterations = @ + counts,
                     !.retries = WithRetries(run.key, retries)]

\* Mutant: an attempt that throws is not counted.
AskThrowsUncounted ==
  /\ In({"ask"})
  /\ Recorded(~run.cancelled, 0, Retries(run.key))
  /\ UNCHANGED <<config, file, git, runs, ghosts>>

\* The ask or the verification throws: "timeout" once cancelled, or else "error".
AskThrows ==
  /\ In({"ask"})
  /\ Recorded(~run.cancelled, 0, Retries(run.key) + 1)
  /\ UNCHANGED <<config, file, git, runs, ghosts>>

\* The prompt is over budget: no more attempts.
PromptTooBig ==
  /\ In({"ask"}) /\ ~run.recovered
  /\ Recorded(~run.cancelled, 0, MaxRetries)
  /\ UNCHANGED <<config, file, git, runs, ghosts>>

\* The runtime is brought back and the ask repeated, once.
Recover ==
  /\ In({"ask"}) /\ ~run.recovered /\ ~run.cancelled /\ ~run.aborted
  /\ run' = [run EXCEPT !.recovered = TRUE]
  /\ UNCHANGED <<config, file, git, runs, ghosts>>

Blocked ==
  /\ In({"ask"})
  /\ Recorded(FALSE, 1, Retries(run.key) + 1)
  /\ UNCHANGED <<config, file, git, runs, ghosts>>

\* A decomposition, where it is allowed; elsewhere it counts as blocked.
Decompose(items) ==
  /\ In({"ask"}) /\ config.decompose /\ run.key.depth < MaxDepth
  /\ file' = WithSubtasks(file, run.key, items, lines)
  /\ lines' = lines + Len(items) /\ alike' = (alike \/ Alike(file'))
  /\ Recorded(FALSE, 1, Retries(run.key) + 1)
  /\ UNCHANGED <<config, git, runs, passed, undone>>

\* Mutant: the roll-back leaves the worklist alone.
RolledBackCodeOnly == file

\* What the roll-back makes of the worklist: git checkout -- . restores what is staged.
RolledBack == IF place \in {"tracked", "added"} THEN index ELSE file

\* restoreTrackedChanges: does git do it? Its status is not looked at. cleanUntracked, where
\* it is wanted, may throw, and leaves what lies in repositories of its own.
Failed ==
  /\ In({"ask"})
  /\ \E restores \in BOOLEAN, cleans \in {FALSE, config.cleanOnFail}, kept \in BOOLEAN :
       /\ file' = IF restores THEN RolledBack ELSE file
       /\ undone' = IF restores THEN undone \cup (passed \cap edits) ELSE undone
       /\ edits' = IF restores THEN {} ELSE edits
       /\ newfiles' = (newfiles /\ (cleans => kept))
       /\ place' = IF cleans /\ place = "untracked" THEN "deleted" ELSE place
       /\ IF cleans = config.cleanOnFail
          THEN Recorded(TRUE, 1, Retries(run.key) + 1)
          ELSE Recorded(~run.cancelled, 0, Retries(run.key) + 1)
  /\ passed' = passed \ {run.id}
  /\ UNCHANGED <<config, head, index, staged, runs, lines, alike>>

Passed ==
  /\ In({"ask"})
  /\ file' = Ticked(file, run.key)
  /\ passed' = passed \cup {run.id}
  /\ undone' = undone \ {run.id}
  /\ IF config.autoCommit THEN run' = [run EXCEPT !.pc = "commit"]
                          ELSE Recorded(FALSE, 1, Retries(run.key))
  /\ UNCHANGED <<config, git, runs, lines, alike>>

\* git add -A: everything there is, the worklist included where git reaches it.
AddAll(taken) ==
  /\ edits' = {} /\ newfiles' = FALSE
  /\ IF place = "outside" THEN UNCHANGED <<index, place>>
                          ELSE index' = file /\ place' = taken

\* commitAll, or there is nothing to commit.
Commit ==
  /\ In({"commit"})
  /\ AddAll("tracked")
  /\ head' = index' /\ staged' = FALSE
  /\ Recorded(FALSE, 1, Retries(run.key))
  /\ UNCHANGED <<config, file, runs, ghosts>>

\* A hook refuses the commit, and everything stays staged; or git add itself fails. An
\* "error", of a task that is ticked already.
CommitFails ==
  /\ In({"commit"})
  /\ \/ /\ AddAll(IF place = "untracked" THEN "added" ELSE place)
        /\ staged' = (staged \/ edits # {} \/ newfiles)
     \/ UNCHANGED git
  /\ Recorded(~run.cancelled, 0, Retries(run.key) + 1)
  /\ UNCHANGED <<config, file, head, runs, ghosts>>

-----------------------------------------------------------------------------
(* After the loop *)

Reason ==
  IF run.aborted THEN "abort"
  ELSE IF run.iterations >= MaxIterations THEN "max_iterations"
  ELSE IF run.spent THEN "budget"
  ELSE IF Len(file) > MaxTasks THEN "max_tasks_exceeded"
  ELSE IF run.failed /\ ~config.skipOnFail THEN "fatal_error"
  ELSE "all_done"

Return ==
  /\ In({"end"}) /\ place # "deleted"
  /\ run' = [run EXCEPT !.pc = "done", !.stop = Reason]
  /\ UNCHANGED <<config, file, git, runs, ghosts>>

-----------------------------------------------------------------------------
(* What happens to a run *)

\* /anton stop, or SIGINT.
Stop ==
  /\ ~In(Ended) /\ ~run.aborted
  /\ run' = [run EXCEPT !.aborted = TRUE]
  /\ UNCHANGED <<config, file, git, runs, ghosts>>

\* Looked at in the loop and after it.
Spend ==
  /\ In({"loop", "end"}) /\ ~run.spent
  /\ run' = [run EXCEPT !.spent = TRUE]
  /\ UNCHANGED <<config, file, git, runs, ghosts>>

\* The task timeout, or the poll that has seen the stop.
CancelAttempt ==
  /\ In({"ask", "commit"}) /\ ~run.cancelled
  /\ run' = [run EXCEPT !.cancelled = TRUE]
  /\ UNCHANGED <<config, file, git, runs, ghosts>>

Crash ==
  /\ ~In(Ended)
  /\ run' = Threw
  /\ UNCHANGED <<config, file, git, runs, ghosts>>

\* Another run on the same worklist.
Again ==
  /\ In(Ended) /\ runs < MaxRuns
  /\ runs' = runs + 1
  /\ run' = Fresh
  /\ UNCHANGED <<config, file, git, ghosts>>

-----------------------------------------------------------------------------
Init ==
  /\ config \in Configs
  /\ file \in Lists /\ head = file /\ index = file /\ place = config.place
  /\ edits = {} /\ newfiles = FALSE /\ staged = FALSE /\ run = Fresh /\ runs = 1
  /\ lines = Len(file) /\ passed = {} /\ undone = {} /\ alike = Alike(file)

Step ==
  \/ Begin \/ BeginFails \/ LoopEnds \/ Skip \/ StartTask \/ Throws
  \/ AskThrows \/ PromptTooBig \/ Recover \/ Blocked
  \/ \E items \in Subtasks : Decompose(items)
  \/ Failed \/ Passed \/ Commit \/ CommitFails \/ Return

Environment ==
  \/ \E kind \in {"edit", "newfile"} : Work(kind)
  \/ Stop \/ Spend \/ CancelAttempt \/ Crash \/ Again

Next == Step \/ Environment

Spec == Init /\ [][Next]_vars

\* An ask settles (AgentLoop), the verification commands have a timeout of their own.
FairSpec == Spec /\ WF_vars(Step)

-----------------------------------------------------------------------------
TypeOK ==
  /\ config \in Configs
  /\ IsWorklist(file) /\ IsWorklist(head) /\ IsWorklist(index)
  /\ place \in {"tracked", "untracked", "added", "outside", "deleted"}
  /\ run.pc \in {"start", "loop", "ask", "commit", "end"} \cup Ended
  /\ run.key \in Key \cup {NoKey} /\ (In({"ask", "commit"}) => run.key \in Key)
  /\ {file[i].id : i \in DOMAIN file} \cup passed \cup undone \cup edits \subseteq 1..lines
  /\ run.iterations \in 0..MaxIterations
  /\ run.skipped \subseteq Key
  /\ {run.cancelled, run.recovered, run.failed, run.aborted, run.spent, alike, staged,
      newfiles} \subseteq BOOLEAN

\* A run that says "all_done" and may skip tasks has tried every task until it passed
\* or was given up: dependencies between tasks never hold one back for good.
NothingLeftBehind ==
  run.stop = "all_done" /\ config.skipOnFail => Pending(file, run.skipped) = {}

\* No step ticks a line whose task has not passed, unless it is the last open one above
\* subtasks that are all ticked; rolling back and decomposing tick nothing. A line that
\* shares its key is excepted: where the other one is meant, find returns the first, and
\* the first may be a task that was given up.
TicksAreEarned ==
  [][\A i \in DOMAIN file :
       i \in DOMAIN file' /\ Len(file') = Len(file) /\ ~file[i].checked /\ file'[i].checked =>
         \/ file[i].id \in passed'
         \/ Children(file, i) # {} /\ (\A c \in Children(file, i) : file'[c].checked)
         \/ \E j \in DOMAIN file \ {i} : Keys(file)[j] = Keys(file)[i]]_vars

\* The tick of a task is rolled back with its work: as long as the worklist is tracked,
\* and keys tell its lines apart, no task without subtasks is ticked whose work
\* `git checkout -- .` removed, whether ticks are committed, only staged by a commit that
\* was refused, or neither.
TicksHaveWork ==
  config.place = "tracked" /\ ~alike =>
    \A i \in DOMAIN file :
      file[i].checked /\ Children(file, i) = {} => file[i].id \notin undone
=============================================================================

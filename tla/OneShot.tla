------------------------------ MODULE OneShot -------------------------------
(***************************************************************************)
(* A headless run with --diff-only (runOneShot, src/src/cli/oneshot.ts):   *)
(* the clean-tree preflight, the ask that edits the tree, the diff that is *)
(* shown and the reset that takes the edits back.  The tree is the set of  *)
(* what differs from the commit the run began at, by what git makes of it: *)
(*   own        what the user had changed or made before                   *)
(*   edited, staged         tracked files, and what is in the index        *)
(*   created    untracked, where `git clean -fd` gets to                   *)
(*   beyond     untracked, where it does not: outside the directory the    *)
(*              run is in, or a repository inside of it                    *)
(*   ignored, committed     what `git status` does not show                *)
(* git has its default settings, and the user leaves the tree alone until  *)
(* the run is over.                                                        *)
(***************************************************************************)
EXTENDS FiniteSets

VARIABLES
  at,       \* preflight, creating, asking, diffing, cleaning, exited
  threw,    \* the catch block is under way
  changes,  \* the tree, as above
  owned,    \* history: the user had changes of his own when the run began
  printed,  \* what the diff that was shown has
  code      \* the exit code

oneshotvars == <<at, threw, changes, owned, printed, code>>

\* What git status --porcelain shows, of the whole repository.
Shown == {"edited", "staged", "created", "beyond", "own"}

Exit(c) == at' = "exited" /\ code' = c

-----------------------------------------------------------------------------
Preflight ==
  /\ at = "preflight"
  /\ IF changes \intersect Shown # {} THEN Exit(2) ELSE at' = "creating" /\ UNCHANGED code
  /\ UNCHANGED <<threw, changes, owned, printed>>

\* Not a git repository, or git status fails.
NoGit ==
  /\ at = "preflight"
  /\ Exit(2)
  /\ UNCHANGED <<threw, changes, owned, printed>>

Creates ==
  /\ at = "creating"
  /\ at' = "asking"
  /\ UNCHANGED <<threw, changes, owned, printed, code>>

\* A tool call of the ask.
Changes ==
  /\ at = "asking"
  /\ \/ \E c \in {"edited", "staged", "created", "beyond", "ignored"} : changes' = changes \union {c}
     \/ changes' = (changes \ {"edited", "staged"}) \union {"committed"}
  /\ UNCHANGED <<at, threw, owned, printed, code>>

Answers ==
  /\ at = "asking"
  /\ at' = "diffing"
  /\ UNCHANGED <<threw, changes, owned, printed, code>>

\* createSession, a reference or image, the ask, or a write of output throws.
Throws ==
  /\ at \in {"creating", "asking", "diffing"} /\ ~threw
  /\ at' = "diffing" /\ threw' = TRUE
  /\ UNCHANGED <<changes, owned, printed, code>>

\* git diff compares with the index: neither new nor staged files are in it.  Past
\* a megabyte or ten seconds it counts as empty.
Diff ==
  /\ at = "diffing"
  /\ printed' \in {{}, changes \intersect {"edited"}}
  /\ at' = "cleaning"
  /\ UNCHANGED <<threw, changes, owned, code>>

\* Mutant of Reset: git reset --hard without git clean.
ResetTrackedOnly == changes \ {"edited", "staged"}

\* What is left by git reset --hard, of the whole repository, and git clean -fd, which
\* succeeds whatever it passes over.
Reset == changes \ {"edited", "staged", "created", "own"}

\* cleanupDiffOnly, which may fail half-way. A run that threw exits with 1 unless
\* --no-fail-on-error.
Cleans ==
  /\ at = "cleaning"
  /\ \/ changes' = Reset /\ (Exit(0) \/ (threw /\ Exit(1)))
     \/ changes' \in SUBSET changes /\ Reset \subseteq changes' /\ Exit(1)
  /\ UNCHANGED <<threw, owned, printed>>

\* oneShotSigint, in any phase.
Interrupt ==
  /\ at \in {"creating", "asking", "diffing", "cleaning"}
  /\ Exit(130)
  /\ UNCHANGED <<threw, changes, owned, printed>>

-----------------------------------------------------------------------------
OneShotInit ==
  /\ at = "preflight" /\ threw = FALSE /\ printed = {} /\ code = 0
  /\ changes \in {{}, {"own"}, {"ignored"}} /\ owned = ("own" \in changes)

OneShotNext ==
  \/ Preflight \/ NoGit \/ Creates \/ Changes \/ Answers \/ Throws \/ Diff \/ Cleans \/ Interrupt

OneShotSpec == OneShotInit /\ [][OneShotNext]_oneshotvars

-----------------------------------------------------------------------------
\* cli/args.ts:218 "emit unified git diff and restore clean tree; requires clean
\* repo": whichever step threw, exit code 0 leaves of what git would show only what the
\* agent created out of reach of git clean; and the user's own changes are never reset.
TreeRestored ==
  /\ at = "exited" /\ code = 0 => changes \intersect Shown \subseteq {"beyond"}
  /\ owned => "own" \in changes
=============================================================================

---------------------------- MODULE Verification ----------------------------
(***************************************************************************)
(* The verification of one Anton task: runVerification                     *)
(* (src/src/anton/verifier.ts) and its commands (runCommand in             *)
(* src/src/runtime/executor.ts).  The commands are detected in the         *)
(* directory of the project and run in that of the process, which is       *)
(* another one when a chat or --dir chose the project.                     *)
(***************************************************************************)
EXTENDS Integers

VARIABLES
  stage,     \* level0, commands, opening, asking, over
  commands,  \* the kinds (1 build, 2 test, 3 lint) there is a command for
  reviewed,  \* --verify-ai, and the diff is not empty
  home,      \* the process runs in the directory of the project
  now,       \* the kind that is run next or running
  waiting,   \* its command is running and waited for
  left,      \* kinds whose command timed out: what the shell started goes on
  result,    \* result[k]: l1_build, l1_test, l1_lint
  held,      \* history: kinds whose command succeeded in the project
  ai,        \* l2_ai
  session,   \* the verifier session: none, open, closed
  passed

vfvars == <<stage, commands, reviewed, home, now, waiting, left, result, held, ai, session,
            passed>>
given == <<commands, reviewed, home>>

Kinds == 1..3

-----------------------------------------------------------------------------
(* L0 and L1 *)

\* The agent's own word: only "done" goes on.
Level0 ==
  /\ stage = "level0"
  /\ stage' \in {"over", "commands"}
  /\ UNCHANGED <<given, now, waiting, left, result, held, ai, session, passed>>

Launch ==
  /\ stage = "commands" /\ ~waiting /\ now \in commands
  /\ waiting' = TRUE
  /\ UNCHANGED <<stage, given, now, left, result, held, ai, session, passed>>

Settles(verdict) ==
  /\ stage = "commands" /\ waiting
  /\ waiting' = FALSE /\ now' = now + 1
  /\ result' = [result EXCEPT ![now] = verdict]
  /\ UNCHANGED <<stage, given, ai, session, passed>>

Exits ==
  /\ \E ok \in BOOLEAN :
       /\ Settles(IF ok THEN "true" ELSE "false")
       /\ held' = IF ok /\ home THEN held \union {now} ELSE held
  /\ UNCHANGED left

\* Mutant of TimesOut: a command that takes too long is passed over.
TimesOutUnjudged ==
  /\ Settles("undefined")
  /\ left' = left \union {now}
  /\ UNCHANGED held

\* Exit code 124; SIGTERM goes to the shell alone.
TimesOut ==
  /\ Settles("false")
  /\ left' = left \union {now}
  /\ UNCHANGED held

\* What an abandoned command started ends.
Fades ==
  /\ \E k \in left : left' = left \ {k}
  /\ UNCHANGED <<stage, given, now, waiting, result, held, ai, session, passed>>

\* An undefined command is passed over.
Skip ==
  /\ stage = "commands" /\ ~waiting /\ now \in Kinds \ commands
  /\ now' = now + 1
  /\ UNCHANGED <<stage, given, waiting, left, result, held, ai, session, passed>>

L1All == \A k \in Kinds : result[k] # "false"

Level1Done ==
  /\ stage = "commands" /\ now = 4
  /\ stage' = IF ~L1All THEN "over" ELSE IF reviewed THEN "opening" ELSE "over"
  /\ passed' = (L1All /\ ~reviewed)
  /\ UNCHANGED <<given, now, waiting, left, result, held, ai, session>>

-----------------------------------------------------------------------------
(* L2 *)

Opens ==
  /\ stage = "opening"
  /\ session' = "open" /\ stage' = "asking"
  /\ UNCHANGED <<given, now, waiting, left, result, held, ai, passed>>

Judged(verdict) ==
  /\ ai' = verdict /\ passed' = (verdict = "true") /\ stage' = "over"
  /\ session' = IF session = "open" THEN "closed" ELSE session

\* An answer with pass; or one without, no JSON, a session that throws.
Reviews ==
  /\ \/ stage = "asking" /\ \E v \in {"true", "false"} : Judged(v)
     \/ stage = "opening" /\ Judged("false")
  /\ UNCHANGED <<given, now, waiting, left, result, held>>

-----------------------------------------------------------------------------
VerifyInit ==
  /\ stage = "level0" /\ now = 1 /\ waiting = FALSE /\ left = {} /\ held = {}
  /\ commands \in SUBSET Kinds /\ reviewed \in BOOLEAN /\ home \in BOOLEAN
  /\ result = [k \in Kinds |-> "undefined"] /\ ai = "undefined"
  /\ session = "none" /\ passed = FALSE

VerifyNext ==
  \/ Level0 \/ Launch \/ Exits \/ TimesOut \/ Fades \/ Skip \/ Level1Done \/ Opens \/ Reviews

VerifySpec == VerifyInit /\ [][VerifyNext]_vfvars

-----------------------------------------------------------------------------
\* docs/anton.md:101 "L1: build/test/lint commands pass": a verification that
\* passed has seen every command there is succeed in the project, has the word of
\* the reviewer it was to ask, and has closed his session: where the process runs
\* in the directory of the project.
PassIsChecked ==
  /\ passed /\ home => commands \subseteq held
  /\ passed /\ reviewed => ai = "true"
  /\ stage = "over" => session # "open"

\* The same, wherever the process runs.
PassIsOfProject == passed => commands \subseteq held
=============================================================================

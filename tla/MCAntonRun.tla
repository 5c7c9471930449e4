----------------------------- MODULE MCAntonRun -----------------------------
(***************************************************************************)
(* Properties of AntonRun, and the values of its constants for TLC.        *)
(***************************************************************************)
EXTENDS AntonRun

CONSTANTS a, b, s  \* texts; s only comes from a decomposition

Open(text, depth, id) == [text |-> text, depth |-> depth, checked |-> FALSE, id |-> id]

Finished(text, depth, id) == [Open(text, depth, id) EXCEPT !.checked = TRUE]

\* A task with a subtask; and two tasks of one key, of which the second has a subtask.
Worklists == {<<Open(a, 0, 1), Open(b, 1, 2)>>,
              <<Open(b, 1, 1), Finished(a, 0, 2), Open(b, 1, 3), Open(s, 2, 4)>>}
OneSubtask == {<<s>>}

\* The defaults of the bot; then each option the other way, two or three at a time.
Default == [skipOnFail |-> TRUE, autoCommit |-> TRUE, cleanOnFail |-> FALSE,
            decompose |-> TRUE, allowDirty |-> FALSE, place |-> "tracked"]
Options == {Default,
            [Default EXCEPT !.skipOnFail = FALSE, !.autoCommit = FALSE],
            [Default EXCEPT !.cleanOnFail = TRUE, !.allowDirty = TRUE, !.decompose = FALSE,
                            !.place = "untracked"]}

\* A run ends, whatever the agent answers.
RunEnds == ~In(Ended) ~> In(Ended)
=============================================================================

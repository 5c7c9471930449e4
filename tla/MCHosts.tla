------------------------------ MODULE MCHosts ------------------------------
(***************************************************************************)
(* What processes and sessions of one machine do beside each other, for    *)
(* TLC: the lock file of Anton (LockFile), Anton's runs in the chats of a  *)
(* bot (AntonChats), the model server (RuntimeExec), its configuration     *)
(* (RuntimeStore), and the commands the model runs (ExecTool).  They share *)
(* no file in what is checked, so that their product would show no more    *)
(* than their sum: one `part` is chosen in the initial state and runs.     *)
(***************************************************************************)
EXTENDS LockFile, RuntimeExec, AntonChats, RuntimeStore, ExecTool

CONSTANTS A, B, h1, h2

VARIABLE part

MCHostsFor(m) == IF m = A THEN {h1} ELSE {h1, h2}
MCBackend(m) == IF m = A THEN "none" ELSE "vulkan"

\* Runs 2 and 3 are of one process.
MCPid(r) == IF r = 3 THEN 2 ELSE r

mvars == <<part, lvars, rvars, acvars, rsvars, xvars>>

-----------------------------------------------------------------------------
Parts == {"anton", "runtime", "chats", "store", "exec"}

Init ==
  /\ part \in Parts
  /\ LockInit /\ RuntimeInit /\ ChatsInit /\ StoreInit
  /\ CallInit /\ (part # "chats" => front = "telegram")
  /\ IF part = "exec" THEN phase = "policy"
     ELSE phase = "returned" /\ tier = "free" /\ noConfirm /\ canAsk /\ pty

Next ==
  /\ UNCHANGED part
  /\ \/ part = "anton" /\ LockNext /\ UNCHANGED <<rvars, acvars, rsvars, xvars>>
     \/ part = "runtime" /\ RuntimeNext /\ UNCHANGED <<lvars, acvars, rsvars, xvars>>
     \/ part = "chats" /\ ChatsNext /\ UNCHANGED <<lvars, rvars, rsvars, xvars>>
     \/ part = "store" /\ StoreNext /\ UNCHANGED <<lvars, rvars, acvars, xvars>>
     \/ part = "exec" /\ ExecNext /\ UNCHANGED <<lvars, rvars, acvars, rsvars>>

Spec == Init /\ [][Next]_mvars
FairSpec == Spec /\ LockFair /\ RuntimeFair /\ ExecFair

-----------------------------------------------------------------------------
\* acquireAntonLock, execute() and every call of exec end, whatever becomes of locks,
\* commands and other processes: nobody reclaims one lock file after the other without
\* end.  A crash between the opening of Anton's lock and its writing is left out: on the
\* empty file every later acquireAntonLock calls itself without end.
CommandsEnd == AcquireEnds /\ SelectEnds /\ ExecEnds
=============================================================================

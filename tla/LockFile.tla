------------------------------ MODULE LockFile ------------------------------
(***************************************************************************)
(* The lock file of Anton (src/src/anton/lock.ts) as the runs of one user  *)
(* work it against each other: acquireAntonLock, the heartbeat runAnton    *)
(* writes every 5 s (controller.ts:200), releaseAntonLock, crashes, stale  *)
(* locks.  A run is one runAnton; the chats of a bot run theirs in one     *)
(* process, so that several runs may share a pid.                          *)
(*                                                                         *)
(* One action per file operation; pc[r] is the next one of run r:          *)
(*   read, remove, create, fill, reread      in acquireAntonLock           *)
(*   held                                    between acquire and release   *)
(* Opening a file for writing empties it, and the content comes later; an  *)
(* empty lock cannot be parsed and reads as none.                          *)
(***************************************************************************)
EXTENDS Integers, FiniteSets

CONSTANTS
  Runs,        \* the runs that compete
  Pid(_),      \* the process of a run
  MaxStarts,   \* bound: runs started, the restarted ones included
  MaxCrashes,  \* bound: crashes of a process
  LongRuns,    \* whether a run may hold its lock for more than an hour
  TornWrites   \* whether a crash may come between opening a lock and writing it

ASSUME LockAssumption ==
  /\ MaxStarts \in Nat /\ MaxCrashes \in Nat
  /\ LongRuns \in BOOLEAN /\ TornWrites \in BOOLEAN

VARIABLES
  file,     \* the lock file
  pc,
  beat,     \* beat[r]: the touchAntonLock of r under way, and whose lock it read
  aged,     \* aged[r]: the start r wrote into its lock is over an hour ago, or
            \* a lock r left behind has had no heartbeat for two minutes
  starts,   \* runs started
  crashes,
  shaken    \* history: a lock was taken from a run, or a heartbeat outlived its run

lvars == <<file, pc, beat, aged, starts, crashes, shaken>>

-----------------------------------------------------------------------------
None == [there |-> FALSE]
\* Opened by run `by`, to be filled with the lock of `owner`.
New(owner, by) == [there |-> TRUE, owner |-> owner, by |-> by, empty |-> TRUE]
NoBeat(r) == [step |-> "none", of |-> r]

Dead(r) == pc[r] = "dead"
Owns(r) == file.there /\ file.owner = r
Parsed == file.there /\ ~file.empty
Mine(r) == Parsed /\ Pid(file.owner) = Pid(r)
Stale == Parsed /\ (aged[file.owner] \/ Dead(file.owner))

At(r, at) == pc[r] = at
Goes(r, to) == pc' = [pc EXCEPT ![r] = to]
Filled(r) == IF file.there /\ file.by = r THEN [file EXCEPT !.empty = FALSE] ELSE file

-----------------------------------------------------------------------------
(* acquireAntonLock and releaseAntonLock *)

Acquire(r) ==
  /\ At(r, "idle") /\ starts < MaxStarts
  /\ starts' = starts + 1
  /\ Goes(r, "read")
  /\ UNCHANGED <<file, beat, aged, crashes, shaken>>

\* A stale lock, or one of this very process, is removed; another's is respected.
Read(r) ==
  /\ At(r, "read")
  /\ Goes(r, IF ~Parsed THEN "create" ELSE IF Stale \/ Mine(r) THEN "remove" ELSE "idle")
  /\ shaken' = (shaken \/ (Parsed /\ file.owner # r /\ (Stale \/ Mine(r))))
  /\ UNCHANGED <<file, beat, aged, starts, crashes>>

\* Whatever the file is by now.
Remove(r) ==
  /\ At(r, "remove")
  /\ file' = None
  /\ Goes(r, "create")
  /\ UNCHANGED <<beat, aged, starts, crashes, shaken>>

\* Mutant: the lock is opened without the flag "wx".
CreateAnyway(r) ==
  /\ At(r, "create")
  /\ file' = New(r, r) /\ aged' = [aged EXCEPT ![r] = FALSE]
  /\ Goes(r, "fill")
  /\ UNCHANGED <<beat, starts, crashes, shaken>>

\* Flag "wx": only where there is no file.
Create(r) ==
  /\ At(r, "create")
  /\ IF file.there
       THEN Goes(r, "reread") /\ UNCHANGED <<file, aged>>
       ELSE /\ file' = New(r, r) /\ aged' = [aged EXCEPT ![r] = FALSE]
            /\ Goes(r, "fill")
  /\ UNCHANGED <<beat, starts, crashes, shaken>>

\* The content goes into the file r opened, unless that was removed since.
Fill(r) ==
  /\ At(r, "fill")
  /\ file' = Filled(r)
  /\ Goes(r, "held")
  /\ UNCHANGED <<beat, aged, starts, crashes, shaken>>

\* Mutant: whatever lock made the creation fail, it is tried again at once.
RereadRetries(r) ==
  /\ At(r, "reread")
  /\ Goes(r, "create")
  /\ UNCHANGED <<file, beat, aged, starts, crashes, shaken>>

\* EEXIST: refused, or from the start again.
Reread(r) ==
  /\ At(r, "reread")
  /\ Goes(r, IF Parsed /\ ~Stale THEN "idle" ELSE "read")
  /\ UNCHANGED <<file, beat, aged, starts, crashes, shaken>>

\* rm, whoever's the lock is.  A heartbeat under way goes on.
Release(r) ==
  /\ At(r, "held")
  /\ file' = None
  /\ Goes(r, "idle")
  /\ shaken' = (shaken \/ beat[r].step # "none")
  /\ UNCHANGED <<beat, aged, starts, crashes>>

-----------------------------------------------------------------------------
(* touchAntonLock *)

\* The lock is read; one of another process is left alone.
Touch(r) ==
  /\ At(r, "held") /\ beat[r].step = "none"
  /\ Mine(r)
  /\ beat' = [beat EXCEPT ![r] = [step |-> "write", of |-> file.owner]]
  /\ UNCHANGED <<file, pc, aged, starts, crashes, shaken>>

\* Flag "w": the file is emptied or created, whoever's it is by now.
TouchOpens(r) ==
  /\ beat[r].step = "write"
  /\ file' = New(beat[r].of, r)
  /\ beat' = [beat EXCEPT ![r].step = "fill"]
  /\ UNCHANGED <<pc, aged, starts, crashes, shaken>>

TouchFills(r) ==
  /\ beat[r].step = "fill"
  /\ file' = Filled(r)
  /\ beat' = [beat EXCEPT ![r] = NoBeat(r)]
  /\ UNCHANGED <<pc, aged, starts, crashes, shaken>>

-----------------------------------------------------------------------------
(* Crashes and time *)

Writing(r) == At(r, "fill") \/ beat[r].step = "fill"

\* The process of r ends, with every run of it.
Crash(r) ==
  LET gone == {q \in Runs : Pid(q) = Pid(r)} IN
  /\ ~Dead(r) /\ crashes < MaxCrashes
  /\ TornWrites \/ \A q \in gone : ~Writing(q)
  /\ pc' = [q \in Runs |-> IF q \in gone THEN "dead" ELSE pc[q]]
  /\ beat' = [q \in Runs |-> IF q \in gone THEN NoBeat(q) ELSE beat[q]]
  /\ crashes' = crashes + 1
  /\ UNCHANGED <<file, aged, starts, shaken>>

\* STALE_LOCK_MS or STALE_HEARTBEAT_MS.  While r runs its heartbeat is fresh.
Ages(r) ==
  /\ ~aged[r] /\ Owns(r) /\ Parsed
  /\ LongRuns \/ ~At(r, "held")
  /\ aged' = [aged EXCEPT ![r] = TRUE]
  /\ UNCHANGED <<file, pc, beat, starts, crashes, shaken>>

-----------------------------------------------------------------------------
LockInit ==
  /\ file = None
  /\ pc = [r \in Runs |-> "idle"] /\ beat = [r \in Runs |-> NoBeat(r)]
  /\ aged = [r \in Runs |-> FALSE]
  /\ starts = 0 /\ crashes = 0 /\ shaken = FALSE

Acquiring(r) == Read(r) \/ Remove(r) \/ Create(r) \/ Fill(r) \/ Reread(r)
Beating(r) == TouchOpens(r) \/ TouchFills(r)

LockNext ==
  \E r \in Runs :
    Acquire(r) \/ Acquiring(r) \/ Release(r) \/ Touch(r) \/ Beating(r) \/ Crash(r) \/ Ages(r)

LockSpec == LockInit /\ [][LockNext]_lvars

\* File operations end, and so does a run (RunEnds of AntonRun).
LockFair ==
  \A r \in Runs : WF_lvars(Acquiring(r)) /\ WF_lvars(Beating(r)) /\ WF_lvars(Release(r))

LockFairSpec == LockSpec /\ LockFair

-----------------------------------------------------------------------------
(* Properties *)

LockTypes ==
  /\ file = None \/ (file.owner \in Runs /\ file.by \in Runs /\ file.empty \in BOOLEAN)
  /\ \A r \in Runs :
       /\ pc[r] \in {"idle", "read", "remove", "create", "fill", "reread", "held", "dead"}
       /\ beat[r].step \in {"none", "write", "fill"} /\ beat[r].of \in Runs
       /\ aged[r] \in BOOLEAN
  /\ starts \in 0..MaxStarts /\ crashes \in 0..MaxCrashes
  /\ shaken \in BOOLEAN

Holds(r) == pc[r] \in {"fill", "held"}

\* Until a lock is reclaimed from a run, as stale or as one of the same process,
\* or a heartbeat outlives its run, no two runs are between acquireAntonLock and
\* releaseAntonLock, whatever the interleaving of their file operations.
Exclusive == ~shaken => \A q, r \in Runs : Holds(q) /\ Holds(r) => q = r

\* acquireAntonLock ends, with the lock or with an error: recursion on a lock
\* that was created in between does not go on for ever.
AcquireEnds == \A r \in Runs : pc[r] = "read" ~> pc[r] \in {"held", "idle", "dead"}
=============================================================================

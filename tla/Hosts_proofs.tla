---------------------------- MODULE Hosts_proofs ----------------------------
(***************************************************************************)
(* What processes and sessions of one machine do beside each other, for    *)
(* any number of them: Anton's lock (LockFile), the model server           *)
(* (RuntimeExec), Anton's runs in the chats of a bot (AntonChats), the     *)
(* configuration of the runtimes (RuntimeStore) and the output of a        *)
(* command (ExecTool).                                                     *)
(***************************************************************************)
EXTENDS LockFile, RuntimeExec, AntonChats, RuntimeStore, ExecTool, TLAPS

-----------------------------------------------------------------------------
(* Anton's lock *)

Steps == {"idle", "read", "remove", "create", "fill", "reread", "held", "dead"}
Files == {None} \cup [there : {TRUE}, owner : Runs, by : Runs, empty : BOOLEAN]
Beats == [step : {"none", "write", "fill"}, of : Runs]

TypeInv ==
  /\ file \in Files
  /\ pc \in [Runs -> Steps] /\ beat \in [Runs -> Beats] /\ aged \in [Runs -> BOOLEAN]
  /\ starts \in 0..MaxStarts /\ crashes \in 0..MaxCrashes
  /\ shaken \in BOOLEAN

\* A run that holds the lock is named in the file.
HolderIsNamed == \A r \in Runs : Holds(r) => Owns(r)

\* The run named in the file holds it, or ended with its process.
NamedIsHolder == file.there => Holds(file.owner) \/ Dead(file.owner)

\* A heartbeat under way is of a run that holds the lock, for itself.
BeatsAreOwn == \A r \in Runs : beat[r].step # "none" => At(r, "held") /\ beat[r].of = r

\* Only a lock that is reclaimed is removed on the way to a new one.
NothingReclaimed == \A r \in Runs : ~At(r, "remove")

Quiet == HolderIsNamed /\ NamedIsHolder /\ BeatsAreOwn /\ NothingReclaimed

LockInv == TypeInv /\ (~shaken => Quiet)

-----------------------------------------------------------------------------
\* The file a run has written is a lock file whatever it was.
LEMMA FilledFile == ASSUME NEW r \in Runs, file \in Files
                    PROVE  /\ Filled(r) \in Files
                           /\ Filled(r).there = file.there
                           /\ file.there => Filled(r).owner = file.owner
  BY DEF Files, Filled, None

LEMMA NewFile == ASSUME NEW o \in Runs, NEW b \in Runs
                 PROVE  New(o, b) \in Files /\ New(o, b).there /\ New(o, b).owner = o
  BY DEF Files, New

LEMMA NoLockFile == None \in Files /\ ~None.there
  BY DEF Files, None

LEMMA ThereFile == ASSUME file \in Files, file.there
                   PROVE  file.owner \in Runs /\ file.by \in Runs /\ file.empty \in BOOLEAN
<1>1. file \in [there : {TRUE}, owner : Runs, by : Runs, empty : BOOLEAN]
  BY NoLockFile DEF Files
<1> QED BY <1>1

LEMMA InitInv == ASSUME LockInit PROVE LockInv
<1>1. TypeInv
  <2>1. \A r \in Runs : NoBeat(r) \in Beats
    BY DEF NoBeat, Beats
  <2>2. file \in Files
    BY NoLockFile DEF LockInit
  <2>3. 0 \in 0..MaxStarts /\ 0 \in 0..MaxCrashes
    BY LockAssumption
  <2>4. pc \in [Runs -> Steps] /\ beat \in [Runs -> Beats] /\ aged \in [Runs -> BOOLEAN]
    BY <2>1 DEF LockInit, Steps
  <2> QED BY <2>2, <2>3, <2>4 DEF LockInit, TypeInv
<1>2. Quiet
  <2>1. \A r \in Runs : pc[r] = "idle" /\ beat[r].step = "none"
    BY DEF LockInit, NoBeat
  <2>2. ~file.there
    BY NoLockFile DEF LockInit
  <2> QED BY <2>1, <2>2
          DEF Quiet, HolderIsNamed, NamedIsHolder, BeatsAreOwn, NothingReclaimed, Holds, At
<1> QED BY <1>1, <1>2 DEF LockInv

-----------------------------------------------------------------------------
LEMMA StepTypes == ASSUME TypeInv, [LockNext]_lvars PROVE TypeInv'
<1> USE DEF TypeInv, Goes, At
<1>1. ASSUME NEW r \in Runs, Acquire(r) PROVE TypeInv'
  BY <1>1, LockAssumption DEF Acquire, Steps
<1>2. ASSUME NEW r \in Runs, Read(r) PROVE TypeInv'
  BY <1>2 DEF Read, Steps, Parsed, Stale, Mine
<1>3. ASSUME NEW r \in Runs, Remove(r) PROVE TypeInv'
  BY <1>3, NoLockFile DEF Remove, Steps
<1>4. ASSUME NEW r \in Runs, Create(r) PROVE TypeInv'
  <2>1. file' \in Files
    BY <1>4, NewFile DEF Create
  <2> QED BY <1>4, <2>1 DEF Create, Steps
<1>5. ASSUME NEW r \in Runs, Fill(r) PROVE TypeInv'
  BY <1>5, FilledFile DEF Fill, Steps
<1>6. ASSUME NEW r \in Runs, Reread(r) PROVE TypeInv'
  BY <1>6 DEF Reread, Steps
<1>7. ASSUME NEW r \in Runs, Release(r) PROVE TypeInv'
  BY <1>7, NoLockFile DEF Release, Steps
<1>8. ASSUME NEW r \in Runs, Touch(r) PROVE TypeInv'
  <2>1. file.owner \in Runs
    BY <1>8, ThereFile DEF Touch, Mine, Parsed
  <2> QED BY <1>8, <2>1 DEF Touch, Beats
<1>9. ASSUME NEW r \in Runs, TouchOpens(r) PROVE TypeInv'
  <2>1. beat[r].of \in Runs /\ [beat[r] EXCEPT !.step = "fill"] \in Beats
    BY DEF Beats
  <2> QED BY <1>9, <2>1, NewFile DEF TouchOpens
<1>10. ASSUME NEW r \in Runs, TouchFills(r) PROVE TypeInv'
  BY <1>10, FilledFile DEF TouchFills, Beats, NoBeat
<1>11. ASSUME NEW r \in Runs, Crash(r) PROVE TypeInv'
  BY <1>11, LockAssumption DEF Crash, Steps, Beats, NoBeat
<1>12. ASSUME NEW r \in Runs, Ages(r) PROVE TypeInv'
  BY <1>12 DEF Ages
<1>13. CASE UNCHANGED lvars
  BY <1>13 DEF lvars
<1> QED BY <1>1, <1>2, <1>3, <1>4, <1>5, <1>6, <1>7, <1>8, <1>9, <1>10, <1>11, <1>12, <1>13
        DEF LockNext, Acquiring, Beating

-----------------------------------------------------------------------------
\* Once shaken, always: the lock was quiet before a step that leaves it unshaken.
LEMMA ShakenStays == ASSUME TypeInv, [LockNext]_lvars, ~shaken' PROVE ~shaken
  BY DEF LockNext, Acquiring, Beating, Acquire, Read, Remove, Create, Fill, Reread, Release,
         Touch, TouchOpens, TouchFills, Crash, Ages, lvars, TypeInv

LEMMA StepQuiet == ASSUME TypeInv, ~shaken, Quiet, [LockNext]_lvars, ~shaken' PROVE Quiet'
<1> USE DEF TypeInv, Quiet, HolderIsNamed, NamedIsHolder, BeatsAreOwn, NothingReclaimed,
            Holds, Owns, At, Dead, Goes
<1>0. file.there => file.owner \in Runs
  BY ThereFile
<1>1. ASSUME NEW r \in Runs, Acquire(r) PROVE Quiet'
  BY <1>0, <1>1 DEF Acquire
<1>2. ASSUME NEW r \in Runs, Read(r) PROVE Quiet'
  <2>1. Parsed => ~Mine(r) \/ file.owner # r
    BY <1>0, <1>2 DEF Read, Parsed, Mine, Files, None
  <2>2. ~(Parsed /\ (Stale \/ Mine(r)))
    BY <1>0, <1>2, <2>1 DEF Read, Parsed, Stale, Mine, Files, None
  <2> QED BY <1>0, <1>2, <2>2 DEF Read, Stale, Mine
<1>3. ASSUME NEW r \in Runs, Remove(r) PROVE Quiet'
  BY <1>0, <1>3 DEF Remove
<1>4. ASSUME NEW r \in Runs, Create(r) PROVE Quiet'
  <2>1. CASE file.there
    BY <1>0, <1>4, <2>1 DEF Create
  <2>2. CASE ~file.there
    <3>1. file' = New(r, r) /\ pc' = [pc EXCEPT ![r] = "fill"] /\ UNCHANGED beat
      BY <1>0, <1>4, <2>2 DEF Create
    <3>2. file'.there /\ file'.owner = r
      BY <3>1, NewFile
    <3> QED BY <1>0, <1>4, <2>2, <3>1, <3>2 DEF Create
  <2> QED BY <2>1, <2>2
<1>5. ASSUME NEW r \in Runs, Fill(r) PROVE Quiet'
  BY <1>0, <1>5, FilledFile DEF Fill
<1>6. ASSUME NEW r \in Runs, Reread(r) PROVE Quiet'
  BY <1>0, <1>6 DEF Reread
<1>7. ASSUME NEW r \in Runs, Release(r) PROVE Quiet'
  <2>1. At(r, "held") /\ pc' = [pc EXCEPT ![r] = "idle"] /\ ~file'.there /\ UNCHANGED beat
    BY <1>7, NoLockFile DEF Release
  <2>2. beat[r].step = "none"
    BY <1>7 DEF Release, Beats
  <2>3. \A q \in Runs : Holds(q) => q = r
    BY <2>1
  <2>4. \A q \in Runs : q # r => pc'[q] = pc[q]
    BY <2>1
  <2> QED BY <2>1, <2>2, <2>3, <2>4
<1>8. ASSUME NEW r \in Runs, Touch(r) PROVE Quiet'
  BY <1>0, <1>8 DEF Touch
<1>9. ASSUME NEW r \in Runs, TouchOpens(r) PROVE Quiet'
  <2>1. beat[r].of = r /\ At(r, "held")
    BY <1>0, <1>9 DEF TouchOpens
  <2>2. file' = New(r, r) /\ file'.there /\ file'.owner = r
    BY <1>0, <1>9, <2>1, NewFile DEF TouchOpens
  <2>3. \A q \in Runs : beat'[q].step # "none" => beat[q].step # "none" /\ beat'[q].of = beat[q].of
    BY <1>0, <1>9 DEF TouchOpens, Beats
  <2> QED BY <1>0, <1>9, <2>1, <2>2, <2>3 DEF TouchOpens
<1>10. ASSUME NEW r \in Runs, TouchFills(r) PROVE Quiet'
  <2>1. \A q \in Runs : beat'[q].step # "none" => beat[q].step # "none" /\ beat'[q].of = beat[q].of
    BY <1>0, <1>10 DEF TouchFills, NoBeat
  <2> QED BY <1>0, <1>10, <2>1, FilledFile DEF TouchFills
<1>11. ASSUME NEW r \in Runs, Crash(r) PROVE Quiet'
  BY <1>0, <1>11 DEF Crash, NoBeat
<1>12. ASSUME NEW r \in Runs, Ages(r) PROVE Quiet'
  BY <1>0, <1>12 DEF Ages
<1>13. CASE UNCHANGED lvars
  BY <1>0, <1>13 DEF lvars
<1> QED BY <1>1, <1>2, <1>3, <1>4, <1>5, <1>6, <1>7, <1>8, <1>9, <1>10, <1>11, <1>12, <1>13
        DEF LockNext, Acquiring, Beating

\* The inductive invariant of the lock file: it is quiet until it is shaken.
THEOREM LockInvariant == LockSpec => []LockInv
<1>1. LockInit => LockInv
  BY InitInv
<1>2. LockInv /\ [LockNext]_lvars => LockInv'
  <2> SUFFICES ASSUME LockInv, [LockNext]_lvars PROVE LockInv'
    OBVIOUS
  <2>1. TypeInv'
    BY StepTypes DEF LockInv
  <2>2. ASSUME ~shaken' PROVE Quiet'
    BY <2>2, ShakenStays, StepQuiet DEF LockInv
  <2> QED BY <2>1, <2>2 DEF LockInv
<1> QED BY <1>1, <1>2, PTL DEF LockSpec

\* The state of the lock keeps its types (acquireAntonLock, touchAntonLock).
THEOREM LockTypesHold == LockSpec => []LockTypes
<1>1. LockInv => LockTypes
  BY DEF LockInv, TypeInv, LockTypes, Files, Steps, Beats
<1> QED BY <1>1, LockInvariant, PTL

\* Until a lock is reclaimed, or a heartbeat outlives its run, no two runs are
\* between acquireAntonLock and releaseAntonLock.
THEOREM LockIsExclusive == LockSpec => []Exclusive
<1>1. LockInv => Exclusive
  BY DEF LockInv, Quiet, HolderIsNamed, Owns, Exclusive
<1> QED BY <1>1, LockInvariant, PTL

-----------------------------------------------------------------------------
(* The model server *)

Places == {"idle", "take", "look", "reclaim", "retake", "ask", "takeover", "force",
           "run", "undo", "clear", "save", "release", "dead"}

Locks == {NoLock} \cup [there : {TRUE}, owner : Procs, torn : BOOLEAN, old : BOOLEAN]

\* The lock names the process that executes.
ExecutorIsNamed == \A p \in Procs : Executing(p) => lock.there /\ lock.owner = p

ExecInv ==
  /\ place \in [Procs -> Places] /\ lock \in Locks
  /\ taken \in BOOLEAN
  /\ ~taken => ExecutorIsNamed

LEMMA NewLock == ASSUME NEW p \in Procs
                 PROVE  /\ LockOf(p) \in Locks /\ [LockOf(p) EXCEPT !.torn = TRUE] \in Locks
                        /\ LockOf(p).there /\ LockOf(p).owner = p
  BY DEF LockOf, Locks

LEMMA FreeLock == NoLock \in Locks /\ ~NoLock.there
  BY DEF NoLock, Locks

LEMMA OldLock == ASSUME lock \in Locks, lock.there
                 PROVE  LET l == [lock EXCEPT !.old = TRUE] IN
                        l \in Locks /\ l.there = lock.there /\ l.owner = lock.owner
<1>1. lock \in [there : {TRUE}, owner : Procs, torn : BOOLEAN, old : BOOLEAN]
  BY FreeLock DEF Locks
<1> QED BY <1>1 DEF Locks

LEMMA GetsKeeps ==
  ASSUME ExecInv, NEW p \in Procs, ~lock.there, Gets(p), UNCHANGED taken
  PROVE  ExecInv'
<1>1. place' = [place EXCEPT ![p] = "run"] /\ lock' \in Locks /\ lock'.there /\ lock'.owner = p
  BY NewLock DEF Gets, GoesTo
<1>2. ASSUME ~taken, NEW q \in Procs, Executing(q)' PROVE q = p
  BY <1>1, <1>2 DEF ExecInv, ExecutorIsNamed, Executing
<1> QED BY <1>1, <1>2 DEF ExecInv, ExecutorIsNamed, Places

LEMMA TakeOrKeeps ==
  ASSUME ExecInv, NEW p \in Procs, NEW to \in Places, TakeOr(p, to), ~Executing(p),
         to \notin {"run", "undo", "clear", "save", "release"}
  PROVE  ExecInv'
<1>1. CASE lock.there
  BY <1>1 DEF TakeOr, GoesTo, ExecInv, ExecutorIsNamed, Executing
<1>2. CASE ~lock.there
  BY <1>2, GetsKeeps DEF TakeOr
<1> QED BY <1>1, <1>2

LEMMA RemovesKeeps ==
  ASSUME ExecInv, NEW p \in Procs, NEW from, NEW to \in Places, Removes(p, from, to)
  PROVE  ExecInv'
  BY FreeLock DEF Removes, GoesTo, ExecInv

\* Where a process goes that was refused the lock, or failed.
LEMMA ReturnGoes ==
  ASSUME NEW p, ReturnsNotOk(p)
  PROVE  \E to \in {"take", "idle"} : place' = [place EXCEPT ![p] = to]
  BY DEF ReturnsNotOk, Returns, GoesTo

LEMMA RefusedKeeps ==
  ASSUME ExecInv, NEW p \in Procs, ~Executing(p), ReturnsNotOk(p), UNCHANGED <<lock, taken>>
  PROVE  ExecInv'
<1>1. PICK to \in {"take", "idle"} : place' = [place EXCEPT ![p] = to]
  BY ReturnGoes
<1> QED BY <1>1 DEF ExecInv, ExecutorIsNamed, Executing, Places

LEMMA LockingKeeps == ASSUME ExecInv, NEW p \in Procs, Locking(p) PROVE ExecInv'
<1> USE DEF In
<1>1. CASE Take(p)
  BY <1>1, TakeOrKeeps DEF Take, Places, Executing
<1>2. CASE Look(p)
  <2>1. CASE ~lock.there \/ lock.torn
    BY <1>2, <2>1, RefusedKeeps DEF Look, Executing
  <2>2. CASE ~(~lock.there \/ lock.torn)
    BY <1>2, <2>2 DEF Look, GoesTo, ExecInv, ExecutorIsNamed, Executing, Places
  <2> QED BY <2>1, <2>2
<1>3. CASE Reclaim(p)
  BY <1>3, RemovesKeeps DEF Reclaim, Places
<1>4. CASE Retake(p)
  BY <1>4, TakeOrKeeps DEF Retake, Places, Executing
<1>5. CASE Takeover(p)
  BY <1>5, RemovesKeeps DEF Takeover, Places
<1>6. CASE TakeForced(p)
  <2>1. CASE lock.there
    BY <1>6, <2>1, RefusedKeeps DEF TakeForced, Executing
  <2>2. CASE ~lock.there
    BY <1>6, <2>2, GetsKeeps DEF TakeForced
  <2> QED BY <2>1, <2>2
<1>7. ASSUME NEW approved \in BOOLEAN, Answered(p, approved) PROVE ExecInv'
  <2>1. CASE approved
    BY <1>7, <2>1 DEF Answered, GoesTo, ExecInv, ExecutorIsNamed, Executing, Places
  <2>2. CASE ~approved
    BY <1>7, <2>2, RefusedKeeps DEF Answered, Executing
  <2> QED BY <2>1, <2>2
<1> QED BY <1>1, <1>2, <1>3, <1>4, <1>5, <1>6, <1>7 DEF Locking

LEMMA SteppingKeeps == ASSUME ExecInv, NEW p \in Procs, Stepping(p) PROVE ExecInv'
<1> USE DEF In, GoesTo, ExecInv, ExecutorIsNamed, Executing, Places
<1>1. CASE StepDone(p)
  BY <1>1 DEF StepDone
<1>2. CASE StepFails(p)
  BY <1>2 DEF StepFails
<1>3. CASE AllDone(p)
  BY <1>3 DEF AllDone
<1>4. CASE Undo(p)
  BY <1>4 DEF Undo
<1>5. CASE Clear(p)
  BY <1>5 DEF Clear
<1>6. CASE Save(p)
  BY <1>6 DEF Save
<1>7. CASE ReleaseLock(p)
  <2>1. /\ place[p] = "release" /\ UNCHANGED taken /\ lock' \in Locks
        /\ place' = [place EXCEPT ![p] = "take"] \/ place' = [place EXCEPT ![p] = "idle"]
    BY <1>7, FreeLock, ReturnGoes DEF ReleaseLock, Returns, GoesTo
  <2>2. ASSUME ~taken, NEW q \in Procs, Executing(q) PROVE q = p
    BY <2>1, <2>2
  <2> QED BY <2>1, <2>2
<1> QED BY <1>1, <1>2, <1>3, <1>4, <1>5, <1>6, <1>7 DEF Stepping

LEMMA EndKeeps == ASSUME ExecInv, NEW p \in Procs, ProcessEnds(p) PROVE ExecInv'
<1> USE DEF In, GoesTo, ExecInv, ExecutorIsNamed, Executing, Places
<1>1. /\ place' = [place EXCEPT ![p] = "dead"] /\ UNCHANGED taken
      /\ UNCHANGED lock \/ ~lock.there
      /\ lock' \in Locks
  BY NewLock DEF ProcessEnds
<1> QED BY <1>1

LEMMA LockAgesKeeps == ASSUME ExecInv, LockAges PROVE ExecInv'
<1> USE DEF ExecInv, ExecutorIsNamed, Executing
<1>1. lock' \in Locks /\ lock'.there = lock.there /\ lock'.owner = lock.owner
  BY OldLock DEF LockAges
<1> QED BY <1>1 DEF LockAges

LEMMA StepKeeps == ASSUME ExecInv, [RuntimeNext]_rvars PROVE ExecInv'
<1>1. ASSUME NEW p \in Procs, CliSelects(p) \/ BotSwitches(p) \/ AntonRecovers(p) PROVE ExecInv'
  BY <1>1 DEF CliSelects, BotSwitches, AntonRecovers, Select, In, GoesTo, ExecInv, ExecutorIsNamed, Executing, Places
<1>2. ASSUME NEW h \in Hosts, ServerEnds(h) PROVE ExecInv'
  BY <1>2 DEF ServerEnds, ExecInv, ExecutorIsNamed, Executing
<1>3. CASE UNCHANGED rvars
  BY <1>3 DEF rvars, ExecInv, ExecutorIsNamed, Executing
<1> QED BY <1>1, <1>2, <1>3, LockingKeeps, SteppingKeeps, EndKeeps, LockAgesKeeps
        DEF RuntimeNext

\* The inductive invariant of execute(): who executes is named in the lock.
THEOREM ExecInvariant == RuntimeSpec => []ExecInv
<1>1. RuntimeInit => ExecInv
  BY FreeLock DEF RuntimeInit, ExecInv, ExecutorIsNamed, Executing, Places
<1>2. ExecInv /\ [RuntimeNext]_rvars => ExecInv'
  BY StepKeeps
<1> QED BY <1>1, <1>2, PTL DEF RuntimeSpec

\* As long as no lock is removed by another than its holder, stop and start
\* commands of two processes do not overlap (docs/orchestration.md:122).
THEOREM ExecutorsDoNotOverlap == RuntimeSpec => []OneExecutor
<1>1. ExecInv => OneExecutor
  BY DEF ExecInv, ExecutorIsNamed, OneExecutor
<1> QED BY <1>1, ExecInvariant, PTL

-----------------------------------------------------------------------------
(* The record is true *)

StepKinds == {"stop", "apply", "verify", "start", "probe"}
StepSet == [kind : StepKinds, host : Hosts]
RecordOf(m, h) == [model |-> {m}, host |-> h, backend |-> Backend(m)]
Records == {NoRecord} \union {RecordOf(m, h) : m \in Models, h \in Hosts}
Jobs ==
  [model : Models, host : Hosts, active : Records, reuse : BOOLEAN,
   steps : Seq(StepSet), left : Seq(StepSet), failed : BOOLEAN]

NoServer == [h \in Hosts |-> {}]
Only(h, m) == [x \in Hosts |-> IF x = h THEN {m} ELSE {}]

\* The record names the one server there is.
Agrees ==
  IF record = NoRecord THEN serving = NoServer
  ELSE \E m \in Models, h \in Hosts : record = RecordOf(m, h) /\ serving = Only(h, m)

\* Steps that are left of a plan that reuses nothing: the server of the record a is
\* stopped first, and the new one is started and probed last.
Ordered(s, a) ==
  \A i \in 1..Len(s) :
    /\ s[i].kind = "probe" <=> i = Len(s)
    /\ s[i].kind = "start" <=> i = Len(s) - 1
    /\ s[i].kind = "stop" => i = 1 /\ a # NoRecord /\ s[i].host = a.host
ToReuse(s) == \A i \in 1..Len(s) : s[i].kind = "probe"

\* A job as plan() made it.
Planned(j) ==
  /\ j \in Jobs /\ ~j.failed
  /\ IF j.reuse THEN j.active # NoRecord /\ ToReuse(j.left)
     ELSE Len(j.left) >= 2 /\ Ordered(j.left, j.active)
          /\ (j.left[1].kind = "stop" <=> j.active # NoRecord)

\* A job whose steps are being executed, and what is served meanwhile.
Truly(j) ==
  /\ j \in Jobs /\ ~j.failed /\ j.active = record
  /\ IF j.reuse THEN record # NoRecord /\ ToReuse(j.left) /\ Agrees
     ELSE /\ Ordered(j.left, record)
          /\ IF Len(j.left) <= 1 THEN serving = Only(j.host, j.model)
             ELSE IF j.left[1].kind = "stop" THEN Agrees ELSE serving = NoServer

\* As long as all is clean.
Clean ==
  /\ ~taken /\ record \in Records
  /\ (\A p \in Procs : ~Executing(p)) => Agrees
  /\ \A p \in Procs :
       /\ place[p] \in {"take", "look", "reclaim", "retake", "ask", "takeover", "force"} => Planned(job[p])
       /\ place[p] = "run" => Truly(job[p])
       /\ place[p] = "save" => job[p] \in Jobs /\ ~job[p].failed /\ serving = Only(job[p].host, job[p].model)
       /\ place[p] = "release" => job[p] \in Jobs /\ ~job[p].failed /\ Agrees
       /\ place[p] \notin {"undo", "clear"}

CleanInv ==
  /\ clean \in BOOLEAN /\ DOMAIN job = Procs
  /\ clean => Clean

LEMMA Joined ==
  ASSUME NEW S, NEW u \in Seq(S), NEW v \in Seq(S)
  PROVE  /\ u \o v \in Seq(S) /\ Len(u \o v) = Len(u) + Len(v)
         /\ Len(u) \in Nat /\ Len(v) \in Nat
         /\ \A i \in 1..Len(u) : (u \o v)[i] = u[i]
         /\ \A i \in (Len(u) + 1)..(Len(u) + Len(v)) :
               i - Len(u) \in 1..Len(v) /\ (u \o v)[i] = v[i - Len(u)]
  OBVIOUS

LEMMA BackendStepsAre ==
  ASSUME NEW a, NEW m, NEW h \in Hosts
  PROVE  LET s == BackendSteps(a, m, h) IN
         s \in Seq(StepSet) /\ \A i \in 1..Len(s) : s[i].kind \in {"apply", "verify"}
<1>1. Step("apply", h) \in StepSet /\ Step("verify", h) \in StepSet
  BY DEF Step, StepSet, StepKinds
<1>2. Step("apply", h).kind = "apply" /\ Step("verify", h).kind = "verify"
  BY DEF Step
<1> QED BY <1>1, <1>2 DEF BackendSteps

LEMMA StopStepsAre ==
  ASSUME NEW a \in Records
  PROVE  LET s == StopSteps(a) IN
         /\ s \in Seq(StepSet) /\ Len(s) = IF a = NoRecord THEN 0 ELSE 1
         /\ \A i \in 1..Len(s) : s[i].kind = "stop" /\ s[i].host = a.host
<1>1. CASE a = NoRecord
  BY <1>1 DEF StopSteps
<1>2. CASE a # NoRecord
  <2>1. a.host \in Hosts
    BY <1>2 DEF Records, RecordOf
  <2>2. Step("stop", a.host) \in StepSet /\ Step("stop", a.host).kind = "stop" /\ Step("stop", a.host).host = a.host
    BY <2>1 DEF Step, StepSet, StepKinds
  <2>3. StopSteps(a) = <<Step("stop", a.host)>>
    BY <1>2 DEF StopSteps
  <2> QED BY <1>2, <2>2, <2>3
<1> QED BY <1>1, <1>2

LEMMA PlanIsPlanned ==
  ASSUME NEW a \in Records, NEW m \in Models, NEW h \in Hosts, NEW f \in BOOLEAN
  PROVE  /\ Planned(Plan(a, m, h, f)) /\ Plan(a, m, h, f).active = a
<1> DEFINE j == Plan(a, m, h, f)
           stop == StopSteps(a)
           backend == BackendSteps(a, m, h)
           close == <<Step("start", h), Step("probe", h)>>
           both == stop \o backend
           full == both \o close
<1>1. /\ j.model = m /\ j.host = h /\ j.active = a /\ j.failed = FALSE
      /\ j.reuse = (~f /\ Matches(a, m, h))
      /\ j.steps = (IF j.reuse THEN <<Step("probe", h)>> ELSE full)
      /\ j.left = j.steps
  BY DEF Plan
<1>2. /\ Step("start", h) \in StepSet /\ Step("start", h).kind = "start"
      /\ Step("probe", h) \in StepSet /\ Step("probe", h).kind = "probe"
  BY DEF Step, StepSet, StepKinds
<1>3. /\ stop \in Seq(StepSet) /\ Len(stop) = (IF a = NoRecord THEN 0 ELSE 1)
      /\ \A i \in 1..Len(stop) : stop[i].kind = "stop" /\ stop[i].host = a.host
      /\ backend \in Seq(StepSet)
      /\ \A i \in 1..Len(backend) : backend[i].kind \in {"apply", "verify"}
      /\ close \in Seq(StepSet) /\ Len(close) = 2 /\ close[1].kind = "start" /\ close[2].kind = "probe"
  BY <1>2, StopStepsAre, BackendStepsAre
<1> HIDE DEF stop, backend, close
<1>4. /\ both \in Seq(StepSet) /\ Len(both) = Len(stop) + Len(backend)
      /\ \A i \in 1..Len(both) :
           IF i <= Len(stop) THEN both[i] = stop[i] ELSE both[i] = backend[i - Len(stop)] /\ i - Len(stop) \in 1..Len(backend)
  <2>1. stop \in Seq(StepSet) /\ backend \in Seq(StepSet)
    BY <1>3
  <2>2. /\ both \in Seq(StepSet) /\ Len(both) = Len(stop) + Len(backend)
        /\ Len(stop) \in Nat /\ Len(backend) \in Nat
        /\ \A i \in 1..Len(stop) : both[i] = stop[i]
        /\ \A i \in (Len(stop) + 1)..(Len(stop) + Len(backend)) :
             i - Len(stop) \in 1..Len(backend) /\ both[i] = backend[i - Len(stop)]
    BY <2>1, Joined
  <2> HIDE DEF both
  <2> QED BY <2>2
<1> HIDE DEF both
<1>5. /\ full \in Seq(StepSet) /\ Len(full) = Len(both) + 2 /\ Len(both) \in Nat
      /\ \A i \in 1..Len(both) : full[i] = both[i]
      /\ full[Len(both) + 1].kind = "start" /\ full[Len(both) + 2].kind = "probe"
  <2>0. both \in Seq(StepSet) /\ close \in Seq(StepSet)
    BY <1>3, <1>4
  <2>1. /\ full \in Seq(StepSet) /\ Len(full) = Len(both) + Len(close) /\ Len(both) \in Nat
        /\ \A i \in 1..Len(both) : full[i] = both[i]
        /\ \A i \in (Len(both) + 1)..(Len(both) + Len(close)) : full[i] = close[i - Len(both)]
    BY <2>0, Joined
  <2>2. full[Len(both) + 1] = close[1] /\ full[Len(both) + 2] = close[2]
    <3>1. Len(both) + 1 \in (Len(both) + 1)..(Len(both) + Len(close))
      BY <1>3, <2>1
    <3>2. Len(both) + 2 \in (Len(both) + 1)..(Len(both) + Len(close))
      BY <1>3, <2>1
    <3>3. Len(both) + 1 - Len(both) = 1 /\ Len(both) + 2 - Len(both) = 2
      BY <2>1
    <3> HIDE DEF full
    <3> QED BY <2>1, <3>1, <3>2, <3>3
  <2> QED BY <1>3, <2>1, <2>2
<1> HIDE DEF full
<1>6. Ordered(full, a) /\ Len(full) >= 2 /\ (full[1].kind = "stop" <=> a # NoRecord)
  <2>1. ASSUME NEW i \in 1..Len(both)
        PROVE  IF i <= Len(stop) THEN full[i].kind = "stop" /\ full[i].host = a.host /\ i = 1 /\ a # NoRecord
               ELSE full[i].kind \in {"apply", "verify"}
    <3>1. full[i] = both[i] /\ Len(stop) \in Nat
      BY <1>3, <1>5
    <3>2. CASE i <= Len(stop)
      <4>1. a # NoRecord /\ Len(stop) = 1
        BY <1>3, <3>2
      <4>2. i = 1 /\ i \in 1..Len(stop)
        BY <3>2, <4>1
      <4>3. full[i].kind = "stop" /\ full[i].host = a.host
        BY <1>3, <1>4, <3>1, <3>2, <4>2
      <4> QED BY <3>2, <4>1, <4>2, <4>3
    <3>3. CASE ~(i <= Len(stop))
      <4>1. PICK k \in 1..Len(backend) : full[i] = backend[k]
        BY <1>4, <3>1, <3>3
      <4> QED BY <1>3, <3>3, <4>1
    <3> QED BY <3>2, <3>3
  <2>2. \A i \in 1..Len(full) : i \in 1..Len(both) \/ i = Len(full) - 1 \/ i = Len(full)
    BY <1>5
  <2>3. /\ \A i \in 1..Len(both) : full[i].kind \in {"stop", "apply", "verify"}
        /\ \A i \in 1..Len(both) : full[i].kind = "stop" => i = 1 /\ a # NoRecord /\ full[i].host = a.host
    BY <2>1
  <2>4. Ordered(full, a)
    BY <1>5, <2>2, <2>3 DEF Ordered
  <2>5. CASE a # NoRecord
    <3>1. Len(stop) = 1 /\ Len(backend) \in Nat /\ Len(both) = Len(stop) + Len(backend)
      BY <1>3, <1>4, <2>5
    <3>2. 1 \in 1..Len(both) /\ 1 <= Len(stop)
      BY <3>1
    <3>3. full[1].kind = "stop"
      BY <2>1, <3>2
    <3> QED BY <1>5, <2>4, <2>5, <3>3
  <2>6. CASE a = NoRecord
    <3>1. 1 \in 1..Len(full)
      BY <1>5
    <3> QED BY <1>5, <2>4, <2>6, <3>1 DEF Ordered
  <2> QED BY <2>5, <2>6
<1>7. <<Step("probe", h)>> \in Seq(StepSet) /\ ToReuse(<<Step("probe", h)>>)
  BY <1>2 DEF ToReuse
<1>8. j.steps \in Seq(StepSet) /\ j \in Jobs
  <2>1. j.steps \in Seq(StepSet) /\ j.reuse \in BOOLEAN
    BY <1>1, <1>5, <1>7
  <2> QED BY <1>1, <2>1 DEF Plan, Jobs
<1>9. j.reuse => a # NoRecord
  BY <1>1 DEF Matches
<1>10. Planned(j)
  <2>1. CASE j.reuse
    BY <1>1, <1>7, <1>8, <1>9, <2>1 DEF Planned
  <2>2. CASE ~j.reuse
    BY <1>1, <1>6, <1>8, <2>2 DEF Planned
  <2> QED BY <2>1, <2>2
<1> QED BY <1>1, <1>10

WaitPlaces == {"take", "look", "reclaim", "retake", "ask", "takeover", "force"}

\* While one executes, no other does; while nobody holds the lock, nobody does.
LEMMA OthersWait ==
  ASSUME ExecInv, ~taken, NEW p \in Procs, NEW q \in Procs, Executing(p), p # q
  PROVE  ~Executing(q)
  BY DEF ExecInv, ExecutorIsNamed

LEMMA NobodyExecutes ==
  ASSUME ExecInv, ~taken, ~lock.there, NEW p \in Procs
  PROVE  ~Executing(p)
  BY DEF ExecInv, ExecutorIsNamed

\* A process that does not execute goes where it does not execute.
LEMMA WaiterKeeps ==
  ASSUME ExecInv, CleanInv, NEW p \in Procs, NEW to, place' = [place EXCEPT ![p] = to],
         place[p] \in WaitPlaces, to \in WaitPlaces \union {"idle"},
         DOMAIN job' = Procs, \A q \in Procs : q # p => job'[q] = job[q],
         Clean /\ to \in WaitPlaces => Planned(job'[p]),
         UNCHANGED <<record, serving, taken, clean>>
  PROVE  CleanInv'
<1> SUFFICES ASSUME clean PROVE Clean'
  BY DEF CleanInv
<1>1. Clean
  BY DEF CleanInv
<1>2. place'[p] = to /\ \A q \in Procs : q # p => place'[q] = place[q]
  BY DEF ExecInv
<1>3. \A q \in Procs : Executing(q)' <=> Executing(q)
  BY <1>2 DEF Executing, WaitPlaces
<1>4. Agrees' <=> Agrees
  BY DEF Agrees
<1>5. \A q \in Procs : q # p => (Truly(job[q])' <=> Truly(job[q]))
  BY <1>4 DEF Truly
<1>6. place'[p] # "run" /\ \A q \in Procs : place'[q] \in WaitPlaces => Planned(job[q])'
  BY <1>1, <1>2 DEF Clean, WaitPlaces, Planned
<1> QED BY <1>1, <1>2, <1>3, <1>4, <1>5, <1>6 DEF Clean, WaitPlaces

\* Refused the lock, it plans again or ends.
LEMMA RefusedCleans ==
  ASSUME ExecInv, CleanInv, NEW p \in Procs, place[p] \in WaitPlaces, ReturnsNotOk(p),
         UNCHANGED <<record, serving, taken, clean>>
  PROVE  CleanInv'
<1>1. CASE p \in CLIs /\ job[p].reuse
  <2>1. /\ job' = [job EXCEPT ![p] = Plan(job[p].active, job[p].model, job[p].host, TRUE)]
        /\ place' = [place EXCEPT ![p] = "take"]
    BY <1>1 DEF ReturnsNotOk, GoesTo
  <2>2. ASSUME Clean PROVE Planned(job'[p])
    <3>1. job[p] \in Jobs
      BY <2>2 DEF Clean, WaitPlaces, Planned
    <3>2. job[p].active \in Records /\ job[p].model \in Models /\ job[p].host \in Hosts
      BY <3>1 DEF Jobs
    <3> QED BY <2>1, <3>2, PlanIsPlanned DEF CleanInv
  <2>3. DOMAIN job' = Procs /\ \A q \in Procs : q # p => job'[q] = job[q]
    BY <2>1 DEF CleanInv
  <2>4. "take" \in WaitPlaces
    BY DEF WaitPlaces
  <2> QED BY <2>1, <2>2, <2>3, <2>4, WaiterKeeps
<1>2. CASE ~(p \in CLIs /\ job[p].reuse)
  <2>1. job' = [job EXCEPT ![p] = NoJob] /\ place' = [place EXCEPT ![p] = "idle"]
    BY <1>2 DEF ReturnsNotOk, Returns, GoesTo
  <2>2. DOMAIN job' = Procs /\ \A q \in Procs : q # p => job'[q] = job[q]
    BY <2>1 DEF CleanInv
  <2>3. "idle" \notin WaitPlaces
    BY DEF WaitPlaces
  <2> QED BY <2>1, <2>2, <2>3, WaiterKeeps
<1> QED BY <1>1, <1>2

\* It waits on with its plan.
LEMMA MoverKeeps ==
  ASSUME ExecInv, CleanInv, NEW p \in Procs, NEW to \in WaitPlaces, place' = [place EXCEPT ![p] = to],
         place[p] \in WaitPlaces, UNCHANGED <<record, serving, job, taken, clean>>
  PROVE  CleanInv'
<1>1. Clean => Planned(job'[p])
  BY DEF Clean, WaitPlaces
<1>2. DOMAIN job' = Procs
  BY DEF CleanInv
<1> QED BY <1>1, <1>2, WaiterKeeps

LEMMA TakerKeeps ==
  ASSUME ExecInv, CleanInv, NEW p \in Procs, ~lock.there, place[p] \in WaitPlaces, Gets(p),
         UNCHANGED <<record, serving, job, taken>>
  PROVE  CleanInv'
<1>1. clean' \in BOOLEAN /\ DOMAIN job' = Procs
  BY DEF Gets, CleanInv
<1> SUFFICES ASSUME clean' PROVE Clean'
  BY <1>1 DEF CleanInv
<1>2. clean /\ Clean /\ job[p].active = record
  BY DEF Gets, CleanInv, Outdated
<1>3. place'[p] = "run" /\ \A q \in Procs : q # p => place'[q] = place[q]
  BY DEF ExecInv, Gets, GoesTo
<1>4. ~taken /\ \A q \in Procs : ~Executing(q)
  BY <1>2, NobodyExecutes DEF Clean
<1>5. Agrees /\ Agrees'
  BY <1>2, <1>4 DEF Clean, Agrees
<1>6. Planned(job[p])
  BY <1>2 DEF Clean, WaitPlaces
<1>7. Truly(job[p])'
  <2>1. Truly(job[p])
    BY <1>2, <1>5, <1>6 DEF Planned, Truly, Agrees
  <2> QED BY <1>5, <2>1 DEF Truly
<1>8. \A q \in Procs : q # p => place[q] \notin {"run", "undo", "clear", "save", "release"}
  BY <1>4 DEF Executing
<1> QED BY <1>2, <1>3, <1>4, <1>5, <1>7, <1>8 DEF Clean, Executing

LEMMA TakeOrCleans ==
  ASSUME ExecInv, CleanInv, NEW p \in Procs, NEW to \in WaitPlaces, TakeOr(p, to),
         place[p] \in WaitPlaces
  PROVE  CleanInv'
<1>1. CASE lock.there
  BY <1>1, MoverKeeps DEF TakeOr, GoesTo
<1>2. CASE ~lock.there
  BY <1>2, TakerKeeps DEF TakeOr
<1> QED BY <1>1, <1>2

LEMMA Uncleaned ==
  ASSUME CleanInv, ~clean', clean' \in BOOLEAN, DOMAIN job' = Procs PROVE CleanInv'
  BY DEF CleanInv

LEMMA LockingCleans == ASSUME ExecInv, CleanInv, NEW p \in Procs, Locking(p) PROVE CleanInv'
<1> USE DEF In, WaitPlaces
<1>1. CASE Take(p) \/ Retake(p)
  BY <1>1, TakeOrCleans DEF Take, Retake
<1>2. CASE Look(p)
  <2>1. CASE ~lock.there \/ lock.torn
    BY <1>2, <2>1, RefusedCleans DEF Look
  <2>2. CASE ~(~lock.there \/ lock.torn)
    BY <1>2, <2>2, MoverKeeps DEF Look, GoesTo
  <2> QED BY <2>1, <2>2
<1>3. CASE Reclaim(p) \/ Takeover(p)
  BY <1>3, Uncleaned DEF Reclaim, Takeover, Removes, CleanInv
<1>4. ASSUME NEW approved \in BOOLEAN, Answered(p, approved) PROVE CleanInv'
  <2>1. CASE approved
    BY <1>4, <2>1, MoverKeeps DEF Answered, GoesTo
  <2>2. CASE ~approved
    BY <1>4, <2>2, RefusedCleans DEF Answered
  <2> QED BY <2>1, <2>2
<1>5. CASE TakeForced(p)
  <2>1. CASE lock.there
    BY <1>5, <2>1, RefusedCleans DEF TakeForced
  <2>2. CASE ~lock.there
    BY <1>5, <2>2, TakerKeeps DEF TakeForced
  <2> QED BY <2>1, <2>2
<1> QED BY <1>1, <1>2, <1>3, <1>4, <1>5 DEF Locking

LEMMA SelectCleans ==
  ASSUME ExecInv, CleanInv, NEW p \in Procs, NEW m \in Models, NEW h \in Hosts, NEW f \in BOOLEAN,
         Select(p, m, h, f)
  PROVE  CleanInv'
<1>1. /\ place[p] = "idle" /\ job' = [job EXCEPT ![p] = Plan(record, m, h, f)]
      /\ place' = [place EXCEPT ![p] = "take"]
      /\ UNCHANGED <<record, serving, taken, clean>>
  BY DEF Select, In, GoesTo
<1> SUFFICES ASSUME clean PROVE Clean'
  BY <1>1 DEF CleanInv
<1>2. Clean
  BY DEF CleanInv
<1>3. /\ place'[p] = "take" /\ job'[p] = Plan(record, m, h, f)
      /\ \A q \in Procs : q # p => place'[q] = place[q] /\ job'[q] = job[q]
  BY <1>1 DEF ExecInv, CleanInv
<1>4. Planned(job[p])'
  BY <1>2, <1>3, PlanIsPlanned DEF Clean
<1>5. Agrees' <=> Agrees
  BY <1>1 DEF Agrees
<1>6. \A j : Truly(j)' <=> Truly(j)
  BY <1>1, <1>5 DEF Truly
<1>7. \A q \in Procs : Executing(q)' <=> Executing(q)
  BY <1>1, <1>3 DEF Executing
<1>8. \A q \in Procs : place'[q] = "run" => Truly(job[q])'
  BY <1>2, <1>3, <1>6 DEF Clean
<1> QED BY <1>1, <1>2, <1>3, <1>4, <1>5, <1>7, <1>8 DEF Clean

\* While p executes, what the others are doing is unaffected by it.
LEMMA RunnerKeeps ==
  ASSUME ExecInv, CleanInv, clean, NEW p \in Procs, Executing(p), UNCHANGED <<taken, clean>>,
         DOMAIN job' = Procs,
         \A q \in Procs : q # p => place'[q] = place[q] /\ job'[q] = job[q],
         place'[p] \in {"run", "save", "release", "idle"},
         record' \in Records,
         place'[p] = "run" => Truly(job[p])',
         place'[p] = "save" =>
           job'[p] \in Jobs /\ ~job'[p].failed /\ serving' = Only(job'[p].host, job'[p].model),
         place'[p] = "release" => job'[p] \in Jobs /\ ~job'[p].failed /\ Agrees',
         place'[p] = "idle" => Agrees'
  PROVE  CleanInv'
<1>1. Clean
  BY DEF CleanInv
<1>2. ASSUME NEW q \in Procs, q # p
      PROVE  place[q] \notin {"run", "undo", "clear", "save", "release"}
  BY <1>1, <1>2, OthersWait DEF Clean, Executing
<1>3. (\A q \in Procs : ~Executing(q)') => Agrees'
  BY DEF Executing
<1>4. Clean'
  <2> SUFFICES ASSUME NEW q \in Procs
      PROVE  /\ place'[q] \in WaitPlaces => Planned(job[q])'
             /\ place'[q] = "run" => Truly(job[q])'
             /\ place'[q] = "save" => job'[q] \in Jobs /\ ~job'[q].failed
                                      /\ serving' = Only(job'[q].host, job'[q].model)
             /\ place'[q] = "release" => job'[q] \in Jobs /\ ~job'[q].failed /\ Agrees'
             /\ place'[q] \notin {"undo", "clear"}
    BY <1>1, <1>3 DEF Clean, WaitPlaces
  <2>1. CASE q = p
    BY <2>1 DEF WaitPlaces
  <2>2. CASE q # p
    BY <1>1, <1>2, <2>2 DEF Clean, WaitPlaces
  <2> QED BY <2>1, <2>2
<1> QED BY <1>4 DEF CleanInv

LEMMA TailIs ==
  ASSUME NEW S, NEW s \in Seq(S), s # <<>>
  PROVE  /\ Tail(s) \in Seq(S) /\ Len(s) \in Nat /\ Len(s) >= 1 /\ Len(Tail(s)) = Len(s) - 1
         /\ Head(s) = s[1]
         /\ \A i \in 1..Len(Tail(s)) : i + 1 \in 1..Len(s) /\ Tail(s)[i] = s[i + 1]
  OBVIOUS

LEMMA TailOrdered ==
  ASSUME NEW s \in Seq(StepSet), s # <<>>, NEW a, Ordered(s, a)
  PROVE  Ordered(Tail(s), a) /\ \A i \in 1..Len(Tail(s)) : Tail(s)[i].kind # "stop"
<1>1. ASSUME NEW i \in 1..Len(Tail(s))
      PROVE  /\ Tail(s)[i].kind = "probe" <=> i = Len(Tail(s))
             /\ Tail(s)[i].kind = "start" <=> i = Len(Tail(s)) - 1
             /\ Tail(s)[i].kind # "stop"
  <2>1. i + 1 \in 1..Len(s) /\ Tail(s)[i] = s[i + 1] /\ Len(Tail(s)) = Len(s) - 1 /\ Len(s) \in Nat
    BY TailIs
  <2>2. /\ s[i + 1].kind = "probe" <=> i + 1 = Len(s)
        /\ s[i + 1].kind = "start" <=> i + 1 = Len(s) - 1
        /\ s[i + 1].kind = "stop" => i + 1 = 1
    BY <2>1 DEF Ordered
  <2>3. /\ i + 1 = Len(s) <=> i = Len(Tail(s))
        /\ i + 1 = Len(s) - 1 <=> i = Len(Tail(s)) - 1
        /\ i + 1 # 1
    BY <2>1
  <2> QED BY <2>1, <2>2, <2>3
<1> QED BY <1>1 DEF Ordered

LEMMA StepDoneCleans == ASSUME ExecInv, CleanInv, NEW p \in Procs, StepDone(p) PROVE CleanInv'
<1> DEFINE l == job[p].left
<1>1. /\ place[p] = "run" /\ l # <<>> /\ Head(l).host = job[p].host
      /\ job' = [job EXCEPT ![p].left = Tail(@)]
      /\ Effect(p)
      /\ UNCHANGED <<record, place, taken, clean>>
  BY DEF StepDone, In, Next1, Advance
<1>2. DOMAIN job' = Procs /\ clean' \in BOOLEAN
  BY <1>1 DEF CleanInv
<1> SUFFICES ASSUME clean PROVE CleanInv'
  BY <1>1, <1>2 DEF CleanInv
<1>3. Clean /\ Truly(job[p])
  BY <1>1 DEF CleanInv, Clean
<1>4. job[p] \in Jobs /\ l \in Seq(StepSet)
  BY <1>3 DEF Truly, Jobs
<1>5. /\ job'[p] = [job[p] EXCEPT !.left = Tail(@)]
      /\ \A q \in Procs : q # p => job'[q] = job[q]
  BY <1>1 DEF CleanInv
<1>6. /\ Tail(l) \in Seq(StepSet) /\ Len(l) \in Nat /\ Len(l) >= 1 /\ Len(Tail(l)) = Len(l) - 1
      /\ Head(l) = l[1] /\ l[1] \in StepSet
      /\ \A i \in 1..Len(Tail(l)) : i + 1 \in 1..Len(l) /\ Tail(l)[i] = l[i + 1]
  BY <1>1, <1>4, TailIs
<1>6a. Len(Tail(l)) <= 1 <=> Len(l) <= 2
  <2> HIDE DEF l
  <2> QED BY <1>6
<1>7. /\ job'[p] \in Jobs /\ job'[p].left = Tail(l)
      /\ job'[p].model = job[p].model /\ job'[p].host = job[p].host /\ job'[p].active = job[p].active
      /\ job'[p].reuse = job[p].reuse /\ job'[p].failed = job[p].failed
  BY <1>4, <1>5, <1>6 DEF Jobs
<1>8. /\ job[p].host \in Hosts /\ job[p].model \in Models /\ ~job[p].failed
      /\ job[p].active = record
      /\ \A h \in Hosts : NoServer[h] = {}
      /\ Head(l).kind \in StepKinds
  BY <1>3, <1>4, <1>6 DEF Truly, Jobs, NoServer, StepSet
<1>9. Truly(job[p])'
  <2>0. \/ job[p].reuse /\ record # NoRecord /\ ToReuse(Tail(l)) /\ Agrees'
        \/ /\ ~job[p].reuse /\ Ordered(Tail(l), record)
           /\ IF Len(Tail(l)) <= 1 THEN serving' = Only(job[p].host, job[p].model)
              ELSE Tail(l)[1].kind # "stop" /\ serving' = NoServer
        => Truly(job[p])'
    BY <1>1, <1>7, <1>8 DEF Truly
  <2>1. CASE job[p].reuse
    <3>1. record # NoRecord /\ ToReuse(l) /\ Agrees
      BY <1>3, <2>1 DEF Truly
    <3>2. ToReuse(Tail(l)) /\ l[1].kind = "probe"
      BY <1>6, <3>1 DEF ToReuse
    <3>3. UNCHANGED serving
      BY <1>1, <1>6, <3>2 DEF Effect, Next1
    <3>4. Agrees'
      BY <1>1, <3>1, <3>3 DEF Agrees
    <3> QED BY <2>0, <2>1, <3>1, <3>2, <3>4
  <2>2. CASE ~job[p].reuse
    <3>1. Ordered(l, record) /\ Ordered(Tail(l), record) /\ \A i \in 1..Len(Tail(l)) : Tail(l)[i].kind # "stop"
      BY <1>1, <1>3, <1>4, <2>2, TailOrdered DEF Truly
    <3>2. /\ l[1].kind = "probe" <=> 1 = Len(l)
          /\ l[1].kind = "start" <=> 1 = Len(l) - 1
          /\ l[1].kind = "stop" => record # NoRecord /\ l[1].host = record.host
      <4>1. 1 \in 1..Len(l)
        BY <1>6
      <4> HIDE DEF l
      <4> QED BY <3>1, <4>1 DEF Ordered
    <3>3. CASE Len(l) = 1
      <4>1. serving = Only(job[p].host, job[p].model)
        BY <1>3, <2>2, <3>3 DEF Truly
      <4>2. UNCHANGED serving
        BY <1>1, <1>6, <3>2, <3>3 DEF Effect, Next1
      <4> QED BY <1>6, <2>0, <2>2, <3>1, <3>3, <4>1, <4>2
    <3>4. CASE Len(l) = 2
      <4>1. l[1].kind = "start" /\ serving = NoServer
        BY <1>3, <2>2, <3>2, <3>4 DEF Truly
      <4>2. serving' = [serving EXCEPT ![job[p].host] = Listening(@, job[p].model)]
        BY <1>1, <1>6, <4>1 DEF Effect, Next1
      <4>3. serving' = Only(job[p].host, job[p].model)
        BY <1>8, <4>1, <4>2 DEF Listening, Only, NoServer
      <4> HIDE DEF l
      <4>4. Len(Tail(l)) <= 1
        BY <3>4, <1>6a
      <4> QED BY <2>0, <2>2, <3>1, <4>3, <4>4
    <3>5. CASE Len(l) >= 3
      <4>1. l[1].kind \in {"stop", "apply", "verify"} /\ Len(Tail(l)) >= 2 /\ Tail(l)[1].kind # "stop"
        <5> HIDE DEF l
        <5>1. Len(Tail(l)) >= 2 /\ 1 \in 1..Len(Tail(l))
          BY <1>6, <3>5
        <5>2. l[1].kind \in StepKinds /\ l[1].kind \notin {"probe", "start"}
          BY <1>6, <1>8, <3>2, <3>5
        <5> QED BY <3>1, <5>1, <5>2 DEF StepKinds
      <4>2. serving' = NoServer
        <5>1. CASE l[1].kind = "stop"
          <6>1. Agrees /\ record # NoRecord /\ record.host = job[p].host
            BY <1>1, <1>3, <1>6, <2>2, <3>2, <3>5, <5>1 DEF Truly
          <6>2. PICK m \in Models : serving = Only(job[p].host, m)
            BY <6>1 DEF Agrees, RecordOf
          <6>3. serving' = [serving EXCEPT ![job[p].host] = {}]
            BY <1>1, <1>6, <5>1 DEF Effect, Next1
          <6> QED BY <1>8, <6>2, <6>3 DEF Only, NoServer
        <5>2. CASE l[1].kind # "stop"
          <6>1. serving = NoServer
            BY <1>3, <2>2, <3>5, <5>2 DEF Truly
          <6>2. UNCHANGED serving
            BY <1>1, <1>6, <4>1, <5>2 DEF Effect, Next1
          <6> QED BY <6>1, <6>2
        <5> QED BY <5>1, <5>2
      <4> QED BY <1>6, <2>0, <2>2, <3>1, <4>1, <4>2
    <3>6. Len(l) = 1 \/ Len(l) = 2 \/ Len(l) >= 3
      <4> HIDE DEF l
      <4> QED BY <1>6
    <3> QED BY <3>3, <3>4, <3>5, <3>6
  <2> QED BY <2>1, <2>2
<1> QED BY <1>1, <1>2, <1>3, <1>5, <1>9, RunnerKeeps DEF Executing, Clean

LEMMA AllDoneCleans == ASSUME ExecInv, CleanInv, NEW p \in Procs, AllDone(p) PROVE CleanInv'
<1>1. /\ place[p] = "run" /\ job[p].left = <<>>
      /\ place' = [place EXCEPT ![p] = IF job[p].reuse THEN "release" ELSE "save"]
      /\ UNCHANGED <<record, serving, job, taken, clean>>
  BY DEF AllDone, In, GoesTo
<1> SUFFICES ASSUME clean PROVE CleanInv'
  BY <1>1 DEF CleanInv
<1>2. /\ place'[p] = IF job[p].reuse THEN "release" ELSE "save"
      /\ \A q \in Procs : q # p => place'[q] = place[q]
  BY <1>1 DEF ExecInv
<1>3. Clean /\ Truly(job[p]) /\ DOMAIN job' = Procs
  BY <1>1 DEF CleanInv, Clean
<1>4. job[p] \in Jobs /\ ~job[p].failed
  BY <1>3 DEF Truly
<1>5. job[p].reuse => Agrees /\ Agrees'
  BY <1>1, <1>3 DEF Truly, Agrees
<1>6. ~job[p].reuse => serving = Only(job[p].host, job[p].model)
  <2>1. Len(job[p].left) <= 1
    BY <1>1
  <2> QED BY <1>3, <2>1 DEF Truly
<1>7. record' \in Records
  BY <1>1, <1>3 DEF Clean
<1> QED BY <1>1, <1>2, <1>3, <1>4, <1>5, <1>6, <1>7, RunnerKeeps DEF Executing

LEMMA SaveCleans == ASSUME ExecInv, CleanInv, NEW p \in Procs, Save(p) PROVE CleanInv'
<1>1. /\ place[p] = "save" /\ place' = [place EXCEPT ![p] = "release"]
      /\ record' = RecordOf(job[p].model, job[p].host)
      /\ UNCHANGED <<serving, job, taken, clean>>
  BY DEF Save, In, GoesTo, RecordOf
<1> SUFFICES ASSUME clean PROVE CleanInv'
  BY <1>1 DEF CleanInv
<1>2. place'[p] = "release" /\ \A q \in Procs : q # p => place'[q] = place[q]
  BY <1>1 DEF ExecInv
<1>3. /\ job[p] \in Jobs /\ ~job[p].failed /\ serving = Only(job[p].host, job[p].model)
      /\ DOMAIN job' = Procs
  BY <1>1 DEF CleanInv, Clean
<1>4. job[p].model \in Models /\ job[p].host \in Hosts
  BY <1>3 DEF Jobs
<1>5. record' \in Records /\ Agrees'
  <2>1. record' # NoRecord
    <3>1. RecordOf(job[p].model, job[p].host).model # {} /\ NoRecord.model = {}
      BY DEF RecordOf, NoRecord
    <3> QED BY <1>1, <3>1
  <2> QED BY <1>1, <1>3, <1>4, <2>1 DEF Records, Agrees
<1> QED BY <1>1, <1>2, <1>3, <1>5, RunnerKeeps DEF Executing

LEMMA ReleaseCleans == ASSUME ExecInv, CleanInv, NEW p \in Procs, ReleaseLock(p) PROVE CleanInv'
<1>1. /\ place[p] = "release" /\ UNCHANGED <<record, serving, taken, clean>>
      /\ DOMAIN job' = Procs
      /\ \A q \in Procs : q # p => place'[q] = place[q] /\ job'[q] = job[q]
      /\ ~job[p].failed => place'[p] = "idle"
  BY DEF ReleaseLock, ReturnsNotOk, Returns, In, GoesTo, ExecInv, CleanInv
<1> SUFFICES ASSUME clean PROVE CleanInv'
  BY <1>1 DEF CleanInv
<1>2. Clean /\ ~job[p].failed /\ Agrees
  BY <1>1 DEF CleanInv, Clean
<1>3. Agrees' /\ record' \in Records
  BY <1>1, <1>2 DEF Agrees, Clean
<1> QED BY <1>1, <1>2, <1>3, RunnerKeeps DEF Executing

LEMMA SteppingCleans == ASSUME ExecInv, CleanInv, NEW p \in Procs, Stepping(p) PROVE CleanInv'
<1>1. CASE StepFails(p)
  BY <1>1, Uncleaned DEF StepFails, CleanInv
<1>2. CASE Undo(p) \/ Clear(p)
  <2>1. place[p] \in {"undo", "clear"} /\ UNCHANGED <<job, clean>>
    BY <1>2 DEF Undo, Clear, In
  <2> QED BY <2>1 DEF CleanInv, Clean
<1> QED BY <1>1, <1>2, StepDoneCleans, AllDoneCleans, SaveCleans, ReleaseCleans DEF Stepping

LEMMA StepCleans == ASSUME ExecInv, CleanInv, [RuntimeNext]_rvars PROVE CleanInv'
<1>1. ASSUME NEW p \in Procs, CliSelects(p) PROVE CleanInv'
  <2>1. PICK m \in Models, f \in BOOLEAN : \E h \in HostsFor(m) : Select(p, m, h, f)
    BY <1>1 DEF CliSelects
  <2>2. PICK h \in HostsFor(m) : Select(p, m, h, f)
    BY <2>1
  <2>3. h \in Hosts
    BY <2>2 DEF Hosts
  <2> QED BY <2>2, <2>3, SelectCleans
<1>2. ASSUME NEW p \in Procs, BotSwitches(p) \/ AntonRecovers(p) PROVE CleanInv'
  <2>1. PICK m \in Models, f \in BOOLEAN : Select(p, m, DefaultHost(m), f)
    BY <1>2 DEF BotSwitches, AntonRecovers
  <2>2. DefaultHost(m) \in HostsFor(m)
    BY RuntimeAssumption DEF DefaultHost
  <2>3. DefaultHost(m) \in Hosts
    BY <2>2 DEF Hosts
  <2> QED BY <2>1, <2>3, SelectCleans
<1>3. ASSUME NEW p \in Procs, ProcessEnds(p) PROVE CleanInv'
  BY <1>3, Uncleaned DEF ProcessEnds, CleanInv
<1>4. ASSUME NEW h \in Hosts, ServerEnds(h) PROVE CleanInv'
  BY <1>4, Uncleaned DEF ServerEnds, CleanInv
<1>5. CASE LockAges \/ UNCHANGED rvars
  <2>1. UNCHANGED <<record, serving, place, job, taken, clean>>
    BY <1>5 DEF LockAges, rvars
  <2>2. /\ Agrees' <=> Agrees
        /\ \A j : Truly(j)' <=> Truly(j)
        /\ \A p \in Procs : Executing(p)' <=> Executing(p)
    BY <2>1 DEF Agrees, Truly, Executing
  <2>3. \A p \in Procs : Truly(job[p])' <=> Truly(job[p])
    BY <2>1, <2>2 DEF Truly
  <2> QED BY <2>1, <2>2, <2>3 DEF CleanInv, Clean
<1> QED BY <1>1, <1>2, <1>3, <1>4, <1>5, LockingCleans, SteppingCleans DEF RuntimeNext

\* The inductive invariant behind a true record: as long as all is clean, what is served
\* is what the record says, or what the plan of the one executor has made of it so far.
THEOREM CleanInvariant == RuntimeSpec => []CleanInv
<1>1. RuntimeInit => CleanInv
  <2> SUFFICES ASSUME RuntimeInit PROVE CleanInv
    OBVIOUS
  <2>1. /\ clean \in BOOLEAN /\ DOMAIN job = Procs /\ ~taken
        /\ record = NoRecord /\ serving = NoServer /\ \A p \in Procs : place[p] = "idle"
    BY DEF RuntimeInit, NoServer
  <2>2. record \in Records /\ Agrees
    BY <2>1 DEF Records, Agrees
  <2> QED BY <2>1, <2>2 DEF CleanInv, Clean
<1>2. ExecInv /\ CleanInv /\ [RuntimeNext]_rvars => CleanInv'
  BY StepCleans
<1> QED BY <1>1, <1>2, ExecInvariant, PTL DEF RuntimeSpec

\* Between executions runtime-active.json names the model that is served, as long as
\* no step fails, nothing ends by itself, no lock is taken away and every plan is
\* executed on the record it was made from.
THEOREM RecordIsTrue == RuntimeSpec => []RecordTrue
<1>1. CleanInv => RecordTrue
  <2> SUFFICES ASSUME CleanInv, clean, \A p \in Procs : ~Executing(p), record # NoRecord
               PROVE  serving[record.host] = record.model
    BY DEF RecordTrue, Served
  <2>1. PICK m \in Models, h \in Hosts : record = RecordOf(m, h) /\ serving = Only(h, m)
    BY DEF CleanInv, Clean, Agrees
  <2> QED BY <2>1 DEF RecordOf, Only
<1> QED BY <1>1, CleanInvariant, PTL

-----------------------------------------------------------------------------
(* Anton in the chats *)

RunPlaces == {"free", "stat", "told", "untold", "locking", "live", "returned", "threw", "done"}

\* The runs whose end will clear the flags of their object.
Begun(r) == at[r] \in {"told", "locking", "live", "threw"}
Alive(r) == at[r] = "stat" \/ Begun(r)
HasChat(o) == \E c \in Chats : session[c] = o
Flagged(r) == [active |-> TRUE, signal |-> r]

ChatsTypes ==
  /\ made \in 0..Objects /\ session \in [Chats -> 0..made] /\ making \in [Chats -> Nat]
  /\ flags \in [1..Objects -> [active : BOOLEAN, signal : ChatRuns \union {"none"}]]
  /\ at \in [ChatRuns -> RunPlaces] /\ object \in [ChatRuns -> 0..made]
  /\ aborted \in [ChatRuns -> BOOLEAN]
  /\ \A r \in ChatRuns : at[r] # "free" => object[r] \in 1..made

\* No two chats have one object.
OwnSessions == \A c, d \in Chats : session[c] = session[d] /\ session[c] # 0 => c = d

\* A run that has begun is the one its object names, or was told to stop when its
\* chat lost the object.
BegunReached ==
  \A r \in ChatRuns : Begun(r) /\ object[r] \notin given =>
    IF HasChat(object[r]) THEN flags[object[r]] = Flagged(r) ELSE aborted[r]

\* A run that is about to begin finds its object as the handler left it.
WaitingReached ==
  \A r \in ChatRuns : at[r] = "stat" /\ object[r] \notin given =>
    HasChat(object[r]) /\ ~flags[object[r]].active

\* Two runs of one object are spoken of no more.
OneRunEach ==
  \A r, q \in ChatRuns : Alive(r) /\ Alive(q) /\ object[r] = object[q] /\ object[r] \notin given => r = q

\* An object that is active names a run of its own.
ActiveOwned ==
  \A o \in 1..Objects : flags[o].active =>
    /\ flags[o].signal \in ChatRuns
    /\ object[flags[o].signal] = o
    /\ Begun(flags[o].signal) \/ at[flags[o].signal] = "untold"

ChatsInv == ChatsTypes /\ OwnSessions /\ BegunReached /\ WaitingReached /\ OneRunEach /\ ActiveOwned

-----------------------------------------------------------------------------
LEMMA ChatsInitInv == ASSUME ChatsInit PROVE ChatsInv
<1>1. ChatsTypes
  BY ChatsAssumption DEF ChatsInit, ChatsTypes, RunPlaces, Unset
<1>2. OwnSessions
  BY DEF ChatsInit, OwnSessions
<1>3. BegunReached /\ WaitingReached /\ OneRunEach /\ ActiveOwned
  BY DEF ChatsInit, BegunReached, WaitingReached, OneRunEach, ActiveOwned, Begun, Alive, Unset
<1> QED BY <1>1, <1>2, <1>3 DEF ChatsInv

\* A run that goes from one place to another, with nothing else changed.
LEMMA GoingKeeps ==
  ASSUME ChatsInv, NEW r \in ChatRuns, NEW to \in RunPlaces, RunGoes(r, to),
         at[r] \notin {"free", "untold"}, to # "stat",
         to \in {"told", "locking", "live", "threw"} => Begun(r),
         Begun(r) => to \in {"told", "locking", "live", "threw", "untold"},
         UNCHANGED <<front, session, making, made, flags, object, aborted, given>>
  PROVE  ChatsInv'
<1> USE DEF ChatsInv, Begun, Alive
<1>1. at' = [at EXCEPT ![r] = to]
  BY DEF RunGoes
<1>2. /\ \A q \in ChatRuns : q # r => at'[q] = at[q]
      /\ at'[r] = to
  BY <1>1 DEF ChatsTypes
<1>3. ChatsTypes'
  BY <1>1 DEF ChatsTypes
<1>4. OwnSessions'
  BY DEF OwnSessions
<1>5. BegunReached' /\ WaitingReached'
  BY <1>2 DEF BegunReached, WaitingReached, HasChat, Flagged
<1>6. OneRunEach'
  BY <1>2 DEF OneRunEach
<1>7. ActiveOwned'
  BY <1>2 DEF ActiveOwned
<1> QED BY <1>3, <1>4, <1>5, <1>6, <1>7

LEMMA BeginKeeps == ASSUME ChatsInv, NEW r \in ChatRuns, Begin(r) PROVE ChatsInv'
<1> USE DEF ChatsInv, Begun, Alive
<1>1. /\ at[r] = "stat" /\ at' = [at EXCEPT ![r] = "told"]
      /\ object[r] \in 1..made /\ object[r] \in 1..Objects
      /\ flags' = [flags EXCEPT ![object[r]] = Flagged(r)]
      /\ UNCHANGED <<front, session, making, made, object, aborted, given>>
  BY ChatsAssumption DEF Begin, RunGoes, Flagged, ChatsTypes
<1>2. /\ \A q \in ChatRuns : q # r => at'[q] = at[q]
      /\ at'[r] = "told"
      /\ flags'[object[r]] = Flagged(r)
      /\ \A o \in 1..Objects : o # object[r] => flags'[o] = flags[o]
  BY <1>1 DEF ChatsTypes
<1>3. ChatsTypes'
  <2>1. Flagged(r) \in [active : BOOLEAN, signal : ChatRuns \union {"none"}]
    BY DEF Flagged
  <2> QED BY <1>1, <2>1 DEF ChatsTypes, RunPlaces
<1>4. OwnSessions'
  BY <1>1 DEF OwnSessions
<1>5. \A q \in ChatRuns : q # r /\ Alive(q) /\ object[q] = object[r] => object[q] \in given
  BY <1>1 DEF OneRunEach
<1>6. BegunReached'
  <2> SUFFICES ASSUME NEW q \in ChatRuns, Begun(q)', object[q] \notin given
               PROVE  IF HasChat(object[q])' THEN flags'[object[q]] = Flagged(q) ELSE aborted[q]
    BY <1>1 DEF BegunReached, Flagged
  <2>1. HasChat(object[q])' <=> HasChat(object[q])
    BY <1>1 DEF HasChat
  <2>2. CASE q = r
    BY <1>1, <1>2, <2>1, <2>2 DEF WaitingReached
  <2>3. CASE q # r
    BY <1>1, <1>2, <1>5, <2>1, <2>3, ChatsAssumption DEF BegunReached, ChatsTypes
  <2> QED BY <2>2, <2>3
<1>7. WaitingReached'
  <2> SUFFICES ASSUME NEW q \in ChatRuns, at'[q] = "stat", object[q] \notin given
               PROVE  HasChat(object[q])' /\ ~flags'[object[q]].active
    BY <1>1 DEF WaitingReached
  <2>1. q # r /\ at[q] = "stat"
    BY <1>2
  <2>2. object[q] # object[r] /\ object[q] \in 1..Objects
    BY <1>5, <2>1, ChatsAssumption DEF ChatsTypes
  <2> QED BY <1>1, <1>2, <2>1, <2>2 DEF WaitingReached, HasChat
<1>8. OneRunEach'
  BY <1>1, <1>2 DEF OneRunEach
<1>9. ActiveOwned'
  BY <1>1, <1>2 DEF ActiveOwned, Flagged
<1> QED BY <1>3, <1>4, <1>6, <1>7, <1>8, <1>9

\* The flags of a run that ends are cleared.
LEMMA ClearedKeeps ==
  ASSUME ChatsInv, NEW r \in ChatRuns, Begun(r), Cleared(r),
         NEW to \in {"returned", "done"}, RunGoes(r, to),
         UNCHANGED <<front, session, making, made, object, aborted, given>>
  PROVE  ChatsInv'
<1> USE DEF ChatsInv, Begun, Alive
<1>1. /\ at' = [at EXCEPT ![r] = to]
      /\ object[r] \in 1..made /\ object[r] \in 1..Objects
      /\ flags' = [flags EXCEPT ![object[r]] = Unset]
  BY ChatsAssumption DEF Cleared, RunGoes, ChatsTypes
<1>2. /\ \A q \in ChatRuns : q # r => at'[q] = at[q]
      /\ at'[r] = to
      /\ flags'[object[r]] = Unset
      /\ \A o \in 1..Objects : o # object[r] => flags'[o] = flags[o]
  BY <1>1 DEF ChatsTypes
<1>3. ChatsTypes'
  <2>1. Unset \in [active : BOOLEAN, signal : ChatRuns \union {"none"}]
    BY DEF Unset
  <2> QED BY <1>1, <2>1 DEF ChatsTypes, RunPlaces
<1>4. OwnSessions'
  BY <1>1 DEF OwnSessions
<1>5. \A q \in ChatRuns : q # r /\ Alive(q) /\ object[q] = object[r] => object[q] \in given
  BY <1>1 DEF OneRunEach
<1>6. BegunReached'
  <2> SUFFICES ASSUME NEW q \in ChatRuns, Begun(q)', object[q] \notin given
               PROVE  IF HasChat(object[q])' THEN flags'[object[q]] = Flagged(q) ELSE aborted[q]
    BY <1>1 DEF BegunReached, Flagged
  <2>1. HasChat(object[q])' <=> HasChat(object[q])
    BY <1>1 DEF HasChat
  <2>2. q # r
    BY <1>2
  <2> QED BY <1>1, <1>2, <1>5, <2>1, <2>2, ChatsAssumption DEF BegunReached, ChatsTypes
<1>7. WaitingReached'
  <2> SUFFICES ASSUME NEW q \in ChatRuns, at'[q] = "stat", object[q] \notin given
               PROVE  HasChat(object[q])' /\ ~flags'[object[q]].active
    BY <1>1 DEF WaitingReached
  <2>1. q # r /\ at[q] = "stat"
    BY <1>2
  <2>2. object[q] # object[r] /\ object[q] \in 1..Objects
    BY <1>5, <2>1, ChatsAssumption DEF ChatsTypes
  <2> QED BY <1>1, <1>2, <2>1, <2>2 DEF WaitingReached, HasChat
<1>8. OneRunEach'
  BY <1>1, <1>2 DEF OneRunEach
<1>9. ActiveOwned'
  BY <1>1, <1>2 DEF ActiveOwned, Unset
<1> QED BY <1>3, <1>4, <1>6, <1>7, <1>8, <1>9

LEMMA RunMovesKeeps == ASSUME ChatsInv, NEW r \in ChatRuns, RunMoves(r) PROVE ChatsInv'
<1> USE DEF Begun, RunPlaces
<1>1. CASE NoFile(r)
  BY <1>1, GoingKeeps DEF NoFile
<1>2. CASE Begin(r)
  BY <1>2, BeginKeeps
<1>3. CASE Launch(r)
  BY <1>3, GoingKeeps DEF Launch
<1>4. CASE Untold(r)
  BY <1>4, GoingKeeps DEF Untold
<1>5. CASE Locked(r)
  BY <1>5, GoingKeeps DEF Locked
<1>6. CASE Complete(r)
  BY <1>6, ClearedKeeps DEF Complete
<1>7. CASE Released(r)
  BY <1>7, GoingKeeps DEF Released
<1>8. CASE Throws(r)
  BY <1>8, GoingKeeps DEF Throws
<1>9. CASE Caught(r)
  BY <1>9, ClearedKeeps DEF Caught
<1> QED BY <1>1, <1>2, <1>3, <1>4, <1>5, <1>6, <1>7, <1>8, <1>9 DEF RunMoves

-----------------------------------------------------------------------------
\* A chat is given a new object: what it had is given up.
LEMMA GivenKeeps ==
  ASSUME ChatsInv, NEW c \in Chats, made < Objects,
         session' = [session EXCEPT ![c] = made + 1], made' = made + 1,
         making' \in [Chats -> Nat],
         session[c] = 0 \/ session[c] \in given', given \subseteq given',
         UNCHANGED <<front, flags, at, object, aborted>>
  PROVE  ChatsInv'
<1> USE DEF ChatsInv, Begun, Alive
<1>1. /\ made \in Nat /\ session[c] \in 0..made /\ session'[c] = made + 1
      /\ \A d \in Chats : d # c => session'[d] = session[d] /\ session[d] \in 0..made
  BY ChatsAssumption DEF ChatsTypes
<1>2. ChatsTypes'
  <2>1. made' \in 0..Objects /\ \A x \in 0..made : x \in 0..made'
    BY <1>1, ChatsAssumption DEF ChatsTypes
  <2>2. session' \in [Chats -> 0..made']
    <3>1. \A d \in Chats : session'[d] \in 0..made'
      BY <1>1, <2>1
    <3> QED BY <3>1 DEF ChatsTypes
  <2>3. object' \in [ChatRuns -> 0..made']
    BY <2>1 DEF ChatsTypes
  <2>4. \A r \in ChatRuns : at'[r] # "free" => object'[r] \in 1..made'
    BY <1>1, ChatsAssumption DEF ChatsTypes
  <2> QED BY <2>1, <2>2, <2>3, <2>4 DEF ChatsTypes
<1>3. OwnSessions'
  BY <1>1 DEF OwnSessions
<1>4. ASSUME NEW r \in ChatRuns, at[r] # "free", object[r] \notin given'
      PROVE  HasChat(object[r])' <=> HasChat(object[r])
  <2>1. object[r] \in 1..made
    BY <1>4 DEF ChatsTypes
  <2> QED BY <1>1, <1>4, <2>1 DEF HasChat
<1>5. BegunReached' /\ WaitingReached'
  BY <1>4 DEF BegunReached, WaitingReached, Flagged
<1>6. OneRunEach' /\ ActiveOwned'
  BY DEF OneRunEach, ActiveOwned
<1> QED BY <1>2, <1>3, <1>5, <1>6

LEMMA DestroyKeeps == ASSUME ChatsInv, NEW c \in Chats, Destroy(c) PROVE ChatsInv'
<1> USE DEF ChatsInv, Begun, Alive
<1> DEFINE o == session[c]
<1>1. /\ o \in 1..made /\ o \in 1..Objects
      /\ aborted' = [r \in ChatRuns |-> aborted[r] \/ flags[o].signal = r]
      /\ flags' = [flags EXCEPT ![o] = Unset]
      /\ session' = [session EXCEPT ![c] = 0]
      /\ UNCHANGED <<front, making, made, at, object>>
      /\ given \subseteq given' /\ (Waiting(o) => o \in given')
  BY ChatsAssumption DEF Destroy, ChatsTypes
<1>2. /\ flags'[o] = Unset /\ \A x \in 1..Objects : x # o => flags'[x] = flags[x]
      /\ session'[c] = 0 /\ \A d \in Chats : d # c => session'[d] = session[d]
  BY <1>1 DEF ChatsTypes
<1>3. ChatsTypes'
  <2>1. Unset \in [active : BOOLEAN, signal : ChatRuns \union {"none"}]
    BY DEF Unset
  <2>2. aborted' \in [ChatRuns -> BOOLEAN]
    BY <1>1 DEF ChatsTypes
  <2>3. session' \in [Chats -> 0..made]
    BY <1>1, ChatsAssumption DEF ChatsTypes
  <2> QED BY <1>1, <2>1, <2>2, <2>3 DEF ChatsTypes
<1>4. OwnSessions'
  BY <1>2 DEF OwnSessions
<1>5. \A x \in 1..made : HasChat(x)' <=> HasChat(x) /\ x # o
  <2> SUFFICES ASSUME NEW x \in 1..made PROVE HasChat(x)' <=> HasChat(x) /\ x # o
    OBVIOUS
  <2>1. CASE x = o
    BY <1>1, <1>2, <2>1, ChatsAssumption DEF HasChat, OwnSessions, ChatsTypes
  <2>2. CASE x # o
    BY <1>1, <1>2, <2>2, ChatsAssumption DEF HasChat, ChatsTypes
  <2> QED BY <2>1, <2>2
<1>6. BegunReached'
  <2> SUFFICES ASSUME NEW r \in ChatRuns, Begun(r), object[r] \notin given'
               PROVE  IF HasChat(object[r])' THEN flags'[object[r]] = Flagged(r) ELSE aborted'[r]
    BY <1>1 DEF BegunReached, Flagged
  <2>1. object[r] \in 1..made /\ object[r] \in 1..Objects
    BY ChatsAssumption DEF ChatsTypes
  <2>2. CASE object[r] = o
    <3>1. HasChat(object[r]) /\ object[r] \notin given
      BY <1>1, <2>2 DEF HasChat
    <3>2. flags[object[r]] = Flagged(r)
      BY <3>1 DEF BegunReached
    <3>4. flags[o].signal = r
      BY <2>2, <3>2 DEF Flagged
    <3>3. aborted'[r]
      BY <1>1, <3>4
    <3> QED BY <1>1, <1>5, <2>1, <2>2, <3>3
  <2>3. CASE object[r] # o
    BY <1>1, <1>2, <1>5, <2>1, <2>3 DEF BegunReached
  <2> QED BY <2>2, <2>3
<1>7. WaitingReached'
  <2> SUFFICES ASSUME NEW r \in ChatRuns, at[r] = "stat", object[r] \notin given'
               PROVE  HasChat(object[r])' /\ ~flags'[object[r]].active
    BY <1>1 DEF WaitingReached
  <2>1. object[r] # o /\ object[r] \in 1..made /\ object[r] \in 1..Objects
    BY <1>1, ChatsAssumption DEF ChatsTypes, Waiting
  <2> QED BY <1>1, <1>2, <1>5, <2>1 DEF WaitingReached
<1>8. OneRunEach'
  BY <1>1 DEF OneRunEach
<1>9. ActiveOwned'
  BY <1>1, <1>2 DEF ActiveOwned, Unset
<1> QED BY <1>3, <1>4, <1>6, <1>7, <1>8, <1>9

\* Whichever front a run is started from, its object is inactive then, or given up.
LEMMA StartChecks ==
  ASSUME ChatsInv, NEW c \in Chats, NEW r \in ChatRuns, Start(c, r)
  PROVE  LET o == session[c] IN
         /\ o \in 1..made /\ o \in 1..Objects /\ at[r] = "free"
         /\ object' = [object EXCEPT ![r] = o] /\ at' = [at EXCEPT ![r] = "stat"]
         /\ UNCHANGED <<front, session, making, made, aborted>>
         /\ \/ UNCHANGED flags /\ ~flags[o].active
            \/ flags' = [flags EXCEPT ![o] = Unset] /\ o \in given'
         /\ given \subseteq given'
         /\ Waiting(o) => o \in given'
<1> DEFINE o == session[c]
<1>1. /\ o \in 1..made /\ o \in 1..Objects /\ at[r] = "free" /\ ~Busy
      /\ object' = [object EXCEPT ![r] = o] /\ at' = [at EXCEPT ![r] = "stat"]
      /\ UNCHANGED <<front, session, making, made, aborted>>
      /\ HandleAnton(o) \/ HandleDiscordAnton(o) \/ StartRun(o)
  BY ChatsAssumption DEF Start, RunGoes, ChatsInv, ChatsTypes
<1>2. front # "discord" => ~Waiting(o)
  BY <1>1 DEF Busy, Waiting
<1>3. CASE HandleAnton(o)
  BY <1>1, <1>2, <1>3 DEF HandleAnton
<1>4. CASE HandleDiscordAnton(o)
  BY <1>1, <1>4, ~flags[o].active \/ flags[o].active DEF HandleDiscordAnton
<1>5. CASE StartRun(o)
  BY <1>1, <1>2, <1>5 DEF StartRun
<1> QED BY <1>1, <1>3, <1>4, <1>5

LEMMA StartKeeps == ASSUME ChatsInv, NEW c \in Chats, NEW r \in ChatRuns, Start(c, r) PROVE ChatsInv'
<1> USE DEF ChatsInv, Begun, Alive
<1>0. PICK o \in 1..made : o = session[c]
  BY StartChecks
<1>1. /\ o \in 1..Objects /\ at[r] = "free"
      /\ object' = [object EXCEPT ![r] = o] /\ at' = [at EXCEPT ![r] = "stat"]
      /\ UNCHANGED <<front, session, making, made, aborted>>
      /\ \/ UNCHANGED flags /\ ~flags[o].active
         \/ flags' = [flags EXCEPT ![o] = Unset] /\ o \in given'
      /\ given \subseteq given' /\ (Waiting(o) => o \in given')
  BY <1>0, StartChecks
<1>2. /\ at'[r] = "stat" /\ object'[r] = o
      /\ \A q \in ChatRuns : q # r => at'[q] = at[q] /\ object'[q] = object[q]
      /\ \A x \in 1..Objects : x # o => flags'[x] = flags[x]
      /\ ~flags'[o].active
      /\ o \notin given' => UNCHANGED flags /\ ~flags[o].active
  <2>1. /\ at'[r] = "stat" /\ object'[r] = o
        /\ \A q \in ChatRuns : q # r => at'[q] = at[q] /\ object'[q] = object[q]
    BY <1>1 DEF ChatsTypes
  <2>2. CASE UNCHANGED flags /\ ~flags[o].active
    BY <2>1, <2>2
  <2>3. CASE flags' = [flags EXCEPT ![o] = Unset] /\ o \in given'
    <3>1. flags'[o] = Unset /\ \A x \in 1..Objects : x # o => flags'[x] = flags[x]
      BY <1>1, <2>3 DEF ChatsTypes
    <3> QED BY <2>1, <2>3, <3>1 DEF Unset
  <2> QED BY <1>1, <2>2, <2>3
<1>3. ChatsTypes'
  <2>1. Unset \in [active : BOOLEAN, signal : ChatRuns \union {"none"}]
    BY DEF Unset
  <2>2. flags' \in [1..Objects -> [active : BOOLEAN, signal : ChatRuns \union {"none"}]]
    BY <1>1, <2>1 DEF ChatsTypes
  <2>3. at' \in [ChatRuns -> RunPlaces]
    BY <1>1 DEF ChatsTypes, RunPlaces
  <2>4. object' \in [ChatRuns -> 0..made]
    <3>1. o \in 0..made
      BY ChatsAssumption DEF ChatsTypes
    <3> QED BY <1>1, <3>1 DEF ChatsTypes
  <2>5. \A q \in ChatRuns : at'[q] # "free" => object'[q] \in 1..made
    BY <1>2 DEF ChatsTypes
  <2> QED BY <1>1, <2>2, <2>3, <2>4, <2>5 DEF ChatsTypes
<1>4. OwnSessions'
  BY <1>1 DEF OwnSessions
<1>5. HasChat(o) /\ \A x : HasChat(x)' <=> HasChat(x)
  BY <1>0, <1>1 DEF HasChat
<1>6. BegunReached'
  <2> SUFFICES ASSUME NEW q \in ChatRuns, Begun(q)', object'[q] \notin given'
               PROVE  IF HasChat(object[q])' THEN flags'[object'[q]] = Flagged(q) ELSE aborted'[q]
    BY <1>1 DEF BegunReached, Flagged
  <2>1. q # r /\ Begun(q) /\ object'[q] = object[q] /\ object[q] \notin given
    BY <1>1, <1>2
  <2>2. object[q] \in 1..Objects
    BY <2>1, ChatsAssumption DEF ChatsTypes
  <2>3. flags'[object[q]] = flags[object[q]]
    BY <1>2, <2>1, <2>2
  <2> QED BY <1>1, <1>5, <2>1, <2>3 DEF BegunReached
<1>7. WaitingReached'
  <2> SUFFICES ASSUME NEW q \in ChatRuns, at'[q] = "stat", object'[q] \notin given'
               PROVE  HasChat(object[q])' /\ ~flags'[object'[q]].active
    BY <1>1 DEF WaitingReached
  <2>1. CASE q = r
    BY <1>2, <1>5, <2>1
  <2>2. CASE q # r
    <3>1. object[q] # o /\ object[q] \in 1..Objects /\ object'[q] = object[q] /\ at[q] = "stat"
      BY <1>1, <1>2, <2>2, ChatsAssumption DEF Waiting, ChatsTypes
    <3> QED BY <1>1, <1>2, <1>5, <3>1 DEF WaitingReached
  <2> QED BY <2>1, <2>2
<1>8. OneRunEach'
  <2>1. ASSUME NEW q \in ChatRuns, q # r, Alive(q), object[q] = o PROVE o \in given'
    <3>1. CASE at[q] = "stat"
      BY <1>1, <2>1, <3>1 DEF Waiting
    <3>2. CASE Begun(q)
      <4> SUFFICES ASSUME o \notin given' PROVE FALSE
        OBVIOUS
      <4>1. HasChat(object[q]) /\ object[q] \notin given
        BY <1>1, <1>5, <2>1
      <4>2. flags[object[q]] = Flagged(q)
        BY <3>2, <4>1 DEF BegunReached
      <4> QED BY <1>2, <2>1, <4>2 DEF Flagged
    <3> QED BY <2>1, <3>1, <3>2
  <2> QED BY <1>1, <1>2, <2>1 DEF OneRunEach
<1>9. ActiveOwned'
  BY <1>1, <1>2 DEF ActiveOwned, Unset
<1> QED BY <1>3, <1>4, <1>6, <1>7, <1>8, <1>9

LEMMA StopKeeps == ASSUME ChatsInv, NEW c \in Chats, Stop(c) PROVE ChatsInv'
<1> USE DEF ChatsInv, Begun, Alive
<1>1. /\ aborted' \in [ChatRuns -> BOOLEAN] /\ \A r \in ChatRuns : aborted[r] => aborted'[r]
      /\ UNCHANGED <<front, session, making, made, flags, at, object, given>>
  BY DEF Stop, ChatsTypes
<1> QED BY <1>1 DEF ChatsTypes, OwnSessions, BegunReached, WaitingReached, OneRunEach, ActiveOwned,
                    HasChat, Flagged

\* The inductive invariant of /anton in the chats.
THEOREM ChatsInvariant == ChatsSpec => []ChatsInv
<1>1. ChatsInit => ChatsInv
  BY ChatsInitInv
<1>2. ChatsInv /\ [ChatsNext]_acvars => ChatsInv'
  <2> SUFFICES ASSUME ChatsInv, [ChatsNext]_acvars PROVE ChatsInv'
    OBVIOUS
  <2>1. ASSUME NEW c \in Chats, Session(c) PROVE ChatsInv'
    BY <2>1, GivenKeeps DEF Session, ChatsInv, ChatsTypes
  <2>2. ASSUME NEW c \in Chats, Making(c) PROVE ChatsInv'
    <3>1. making' \in [Chats -> Nat]
      BY <2>2 DEF Making, ChatsInv, ChatsTypes
    <3> QED BY <2>2, <3>1
            DEF Making, ChatsInv, ChatsTypes, OwnSessions, BegunReached, WaitingReached, OneRunEach,
                ActiveOwned, HasChat, Flagged, Begun, Alive
  <2>3. ASSUME NEW c \in Chats, Make(c) PROVE ChatsInv'
    <3>1. making' \in [Chats -> Nat]
      BY <2>3 DEF Make, ChatsInv, ChatsTypes
    <3> QED BY <2>3, <3>1, GivenKeeps DEF Make
  <2>4. CASE UNCHANGED acvars
    BY <2>4 DEF acvars, ChatsInv, ChatsTypes, OwnSessions, BegunReached, WaitingReached, OneRunEach,
                ActiveOwned, HasChat, Flagged, Begun, Alive
  <2> QED BY <2>1, <2>2, <2>3, <2>4, DestroyKeeps, StopKeeps, StartKeeps, RunMovesKeeps DEF ChatsNext
<1> QED BY <1>1, <1>2, PTL DEF ChatsSpec

\* A run of Anton that goes on is the one /anton stop of its chat reaches, or was told
\* to stop; and a chat that shows one active has one that clears that, or one that was
\* never launched (handleAnton, handleDiscordAnton, startRun).
THEOREM RunsAreReached == ChatsSpec => []StopReaches
<1>1. ChatsInv => StopReaches
  <2> SUFFICES ASSUME ChatsInv PROVE StopReaches
    OBVIOUS
  <2>1. ASSUME NEW r \in ChatRuns, at[r] \in {"told", "locking", "live"}, object[r] \notin given
        PROVE  \/ aborted[r]
               \/ /\ flags[object[r]] = [active |-> TRUE, signal |-> r]
                  /\ \E c \in Chats : session[c] = object[r]
    BY <2>1 DEF ChatsInv, BegunReached, Begun, HasChat, Flagged
  <2>2. ASSUME NEW o \in 1..Objects, flags[o].active
        PROVE  \E r \in ChatRuns : object[r] = o /\ at[r] \in {"told", "untold", "locking", "live", "threw"}
    BY <2>2 DEF ChatsInv, ActiveOwned, Begun
  <2> QED BY <2>1, <2>2 DEF StopReaches
<1> QED BY <1>1, ChatsInvariant, PTL

-----------------------------------------------------------------------------
(* The configuration of the runtimes *)

Configs == [hosts : SUBSET HostIds, backends : SUBSET Backends, models : SUBSET ModelEntries]

StoreTypes ==
  /\ store \in {Absent, Broken} \union [is : {"config"}, config : Configs]
  /\ mine \in [Editors -> Configs]
  /\ does \in [Editors -> {"idle", "creating", "loaded"}]

\* What a command does not know of the file is what others changed since it looked.
Knows(p) ==
  /\ does[p] = "loaded" => Difference(Entries(mine[p]), InFile) \subseteq since[p]
  /\ does[p] = "creating" => InFile \subseteq since[p]

StoreInv == StoreTypes /\ \A p \in Editors : Knows(p)

LEMMA EmptyConfig == Empty \in Configs /\ Entries(Empty) = {}
  BY DEF Empty, Configs, Entries

LEMMA NotConfigs == Absent.is # "config" /\ Broken.is # "config" /\ Broken.is = "invalid"
  BY DEF Absent, Broken

LEMMA StoredConfig == ASSUME NEW c PROVE Stored(c).is = "config" /\ Stored(c).config = c
  BY DEF Stored

\* A configuration with one list changed has more entries, or one less.
Changed(c, d) == Entries(c) \subseteq Entries(d) \/ \E x : Entries(d) = Entries(c) \ {x}

\* What was added, or one entry that was removed.
Little(own, G) == own \subseteq G \/ \E x \in own : own = {x}

\* Whatever p does not change in what it knows is not its own.
LEMMA OwnIsLittle ==
  ASSUME NEW M, NEW F, NEW G, NEW S, Difference(M, F) \subseteq S,
         M \subseteq G \/ \E x : G = M \ {x}
  PROVE  Little(Difference(F, G) \ S, G)
<1> DEFINE own == Difference(F, G) \ S
<1> USE DEF Little
<1>1. CASE M \subseteq G
  <2>1. own \subseteq G
    BY <1>1 DEF Difference
  <2> QED BY <2>1
<1>2. ASSUME NEW x, G = M \ {x} PROVE own \subseteq G \/ \E y \in own : own = {y}
  <2>1. own \subseteq {x}
    BY <1>2 DEF Difference
  <2>2. own = {} \/ (x \in own /\ own = {x})
    BY <2>1
  <2> QED BY <2>2
<1> QED BY <1>1, <1>2

\* Steps of others reach what p knows through `since`.
LEMMA OthersKeep ==
  ASSUME StoreInv, NEW p \in Editors, mine'[p] = mine[p], does'[p] = does[p],
         does'[p] # "idle" => since'[p] = since[p] \union Difference(InFile, InFile')
  PROVE  Knows(p)'
<1>1. Knows(p)
  BY DEF StoreInv
<1> QED BY <1>1 DEF Knows, Difference

\* What a save does to its own command, to the others and to the file.
LEMMA SavesKeeps ==
  ASSUME StoreInv, NEW p \in Editors, NEW c \in Configs, Changed(mine[p], c), Saves(p, c),
         since' = [q \in Editors |-> IF does'[q] = "idle" THEN {}
                                     ELSE since[q] \union Difference(InFile, InFile')]
  PROVE  StoreInv' /\ \A q \in Editors : EndsWithOwn(q)
<1>1. StoreTypes'
  <2>1. store' \in {Absent, Broken} \union [is : {"config"}, config : Configs]
    BY DEF Saves, Stored, StoreInv, StoreTypes
  <2>2. mine' \in [Editors -> Configs] /\ does' \in [Editors -> {"idle", "creating", "loaded"}]
    BY EmptyConfig DEF Saves, StoreInv, StoreTypes
  <2> QED BY <2>1, <2>2 DEF StoreTypes
<1>2. /\ does[p] = "loaded" /\ does'[p] = "idle"
      /\ \A q \in Editors \ {p} : does'[q] = does[q] /\ mine'[q] = mine[q]
  BY DEF Saves, StoreInv, StoreTypes
<1>3. ASSUME NEW q \in Editors PROVE Knows(q)'
  <2>1. CASE q = p
    BY <1>2, <2>1 DEF Knows
  <2>2. CASE q # p
    BY <1>2, <2>2, OthersKeep
  <2> QED BY <2>1, <2>2
<1>4. Difference(Entries(mine[p]), InFile) \subseteq since[p]
  BY <1>2 DEF StoreInv, Knows
<1>5. InFile' = InFile \/ InFile' = Entries(c)
  BY StoredConfig DEF Saves, InFile
<1>6. EndsWithOwn(p)
  <2>1. CASE InFile' = InFile
    BY <2>1 DEF EndsWithOwn, Difference
  <2>2. CASE InFile' = Entries(c)
    <3>1. Entries(mine[p]) \subseteq InFile' \/ \E x : InFile' = Entries(mine[p]) \ {x}
      BY <2>2 DEF Changed
    <3>2. Little(Difference(InFile, InFile') \ since[p], InFile')
      BY <1>4, <3>1, OwnIsLittle
    <3> QED BY <3>2 DEF EndsWithOwn, Little
  <2> QED BY <1>5, <2>1, <2>2
<1>7. ASSUME NEW q \in Editors PROVE EndsWithOwn(q)
  BY <1>2, <1>6 DEF EndsWithOwn
<1> QED BY <1>1, <1>3, <1>7 DEF StoreInv

\* The changes the commands make are of that kind.
LEMMA MoreEntries ==
  ASSUME NEW c \in Configs, NEW d \in Configs, c.hosts \subseteq d.hosts,
         c.backends \subseteq d.backends, c.models \subseteq d.models
  PROVE  Changed(c, d)
  BY DEF Changed, Entries

LEMMA LessHost ==
  ASSUME NEW c \in Configs, NEW h PROVE Changed(c, [c EXCEPT !.hosts = @ \ {h}])
<1> DEFINE d == [c EXCEPT !.hosts = @ \ {h}]
<1>1. d.hosts = c.hosts \ {h} /\ d.backends = c.backends /\ d.models = c.models
  BY DEF Configs
<1>2. Entries(d) = Entries(c) \ {<<"host", h>>}
  BY <1>1 DEF Entries
<1> QED BY <1>2 DEF Changed

LEMMA LessBackend ==
  ASSUME NEW c \in Configs, NEW b PROVE Changed(c, [c EXCEPT !.backends = @ \ {b}])
<1> DEFINE d == [c EXCEPT !.backends = @ \ {b}]
<1>1. d.hosts = c.hosts /\ d.backends = c.backends \ {b} /\ d.models = c.models
  BY DEF Configs
<1>2. Entries(d) = Entries(c) \ {<<"backend", b>>}
  BY <1>1 DEF Entries
<1> QED BY <1>2 DEF Changed

LEMMA LessModel ==
  ASSUME NEW c \in Configs, NEW m PROVE Changed(c, [c EXCEPT !.models = @ \ {m}])
<1> DEFINE d == [c EXCEPT !.models = @ \ {m}]
<1>1. d.hosts = c.hosts /\ d.backends = c.backends /\ d.models = c.models \ {m}
  BY DEF Configs
<1>2. Entries(d) = Entries(c) \ {<<"model", m>>}
  BY <1>1 DEF Entries
<1> QED BY <1>2 DEF Changed

LEMMA CommandSaves ==
  ASSUME StoreInv, NEW p \in Editors,
         \/ \E h \in HostIds : AddHost(p, h) \/ RemoveHost(p, h)
         \/ \E b \in Backends : AddBackend(p, b) \/ RemoveBackend(p, b)
         \/ \E m \in ModelEntries : AddModel(p, m) \/ RemoveModel(p, m)
         \/ \E m \in ModelEntries, b \in Backends : AddRpcModel(p, m, b)
  PROVE  \E c \in Configs : Changed(mine[p], c) /\ Saves(p, c)
<1>1. mine[p] \in Configs
  BY DEF StoreInv, StoreTypes
<1>2. ASSUME NEW h \in HostIds, AddHost(p, h) \/ RemoveHost(p, h)
      PROVE \E c \in Configs : Changed(mine[p], c) /\ Saves(p, c)
  <2>1. CASE AddHost(p, h)
    <3> DEFINE c == [mine[p] EXCEPT !.hosts = @ \union {h}]
    <3>1. c \in Configs /\ mine[p].hosts \subseteq c.hosts
            /\ c.backends = mine[p].backends /\ c.models = mine[p].models
      BY <1>1 DEF Configs
    <3>2. Changed(mine[p], c)
      BY <1>1, <3>1, MoreEntries
    <3> QED BY <2>1, <3>1, <3>2 DEF AddHost
  <2>2. CASE RemoveHost(p, h)
    <3> DEFINE c == [mine[p] EXCEPT !.hosts = @ \ {h}]
    <3>1. c \in Configs
      BY <1>1 DEF Configs
    <3>2. Changed(mine[p], c)
      BY <1>1, LessHost
    <3> QED BY <2>2, <3>1, <3>2 DEF RemoveHost
  <2> QED BY <1>2, <2>1, <2>2
<1>3. ASSUME NEW b \in Backends, AddBackend(p, b) \/ RemoveBackend(p, b)
      PROVE \E c \in Configs : Changed(mine[p], c) /\ Saves(p, c)
  <2>1. CASE AddBackend(p, b)
    <3> DEFINE c == [mine[p] EXCEPT !.backends = @ \union {b}]
    <3>1. c \in Configs /\ mine[p].backends \subseteq c.backends
            /\ c.hosts = mine[p].hosts /\ c.models = mine[p].models
      BY <1>1 DEF Configs
    <3>2. Changed(mine[p], c)
      BY <1>1, <3>1, MoreEntries
    <3> QED BY <2>1, <3>1, <3>2 DEF AddBackend
  <2>2. CASE RemoveBackend(p, b)
    <3> DEFINE c == [mine[p] EXCEPT !.backends = @ \ {b}]
    <3>1. c \in Configs
      BY <1>1 DEF Configs
    <3>2. Changed(mine[p], c)
      BY <1>1, LessBackend
    <3> QED BY <2>2, <3>1, <3>2 DEF RemoveBackend
  <2> QED BY <1>3, <2>1, <2>2
<1>4. ASSUME NEW m \in ModelEntries, AddModel(p, m) \/ RemoveModel(p, m)
      PROVE \E c \in Configs : Changed(mine[p], c) /\ Saves(p, c)
  <2>1. CASE AddModel(p, m)
    <3> DEFINE c == [mine[p] EXCEPT !.models = @ \union {m}]
    <3>1. c \in Configs /\ mine[p].models \subseteq c.models
            /\ c.hosts = mine[p].hosts /\ c.backends = mine[p].backends
      BY <1>1 DEF Configs
    <3>2. Changed(mine[p], c)
      BY <1>1, <3>1, MoreEntries
    <3> QED BY <2>1, <3>1, <3>2 DEF AddModel
  <2>2. CASE RemoveModel(p, m)
    <3> DEFINE c == [mine[p] EXCEPT !.models = @ \ {m}]
    <3>1. c \in Configs
      BY <1>1 DEF Configs
    <3>2. Changed(mine[p], c)
      BY <1>1, LessModel
    <3> QED BY <2>2, <3>1, <3>2 DEF RemoveModel
  <2> QED BY <1>4, <2>1, <2>2
<1>5. ASSUME NEW m \in ModelEntries, NEW b \in Backends, AddRpcModel(p, m, b)
      PROVE \E c \in Configs : Changed(mine[p], c) /\ Saves(p, c)
  <2> DEFINE c == [mine[p] EXCEPT !.backends = @ \union {b}, !.models = @ \union {m}]
  <2>1. c \in Configs /\ mine[p].backends \subseteq c.backends
          /\ c.hosts = mine[p].hosts /\ mine[p].models \subseteq c.models
    BY <1>1 DEF Configs
  <2>2. Changed(mine[p], c)
    BY <1>1, <2>1, MoreEntries
  <2> QED BY <1>5, <2>1, <2>2 DEF AddRpcModel
<1> QED BY <1>2, <1>3, <1>4, <1>5

\* However commands that hold old copies of runtimes.json write over each other, each of
\* them undoes nothing but what others changed since it looked (saveRuntimes).
THEOREM OnlyOverlapsUndo == StoreSpec => OwnChanges
<1>1. StoreInit => StoreInv
  BY EmptyConfig, NotConfigs DEF StoreInit, StoreInv, StoreTypes, Knows
<1>2. StoreInv /\ StoreNext => StoreInv' /\ \A p \in Editors : EndsWithOwn(p)
  <2> SUFFICES ASSUME StoreInv, StoreNext PROVE StoreInv' /\ \A p \in Editors : EndsWithOwn(p)
    OBVIOUS
  <2>s. since' = [q \in Editors |-> IF does'[q] = "idle" THEN {}
                                    ELSE since[q] \union Difference(InFile, InFile')]
    BY DEF StoreNext
  <2>1. CASE Mends
    <3>1. StoreTypes' /\ does' = does /\ mine' = mine
      BY <2>1 DEF Mends, StoreInv, StoreTypes
    <3>2. \A p \in Editors : Knows(p)'
      BY <2>s, <3>1, OthersKeep
    <3> QED BY <3>1, <3>2 DEF StoreInv, EndsWithOwn
  <2>2. ASSUME NEW p \in Editors, FindsNone(p) PROVE StoreInv' /\ \A q \in Editors : EndsWithOwn(q)
    <3>1. /\ StoreTypes' /\ does'[p] = "creating" /\ InFile' = {} /\ mine' = mine
          /\ \A q \in Editors \ {p} : does'[q] = does[q]
      BY <2>2, NotConfigs DEF FindsNone, StoreInv, StoreTypes, InFile
    <3>2. \A q \in Editors : Knows(q)'
      BY <2>s, <3>1, OthersKeep DEF Knows
    <3> QED BY <3>1, <3>2 DEF StoreInv, EndsWithOwn
  <2>3. ASSUME NEW p \in Editors, Creates(p) PROVE StoreInv' /\ \A q \in Editors : EndsWithOwn(q)
    <3>1. /\ StoreTypes' /\ does[p] = "creating" /\ does'[p] = "idle" /\ mine' = mine
          /\ \A q \in Editors \ {p} : does'[q] = does[q]
      BY <2>3, EmptyConfig DEF Creates, StoreInv, StoreTypes, Stored
    <3>2. \A q \in Editors : Knows(q)'
      BY <2>s, <3>1, OthersKeep DEF Knows
    <3>3. InFile' = {}
      BY <2>3, EmptyConfig, StoredConfig DEF Creates, InFile
    <3>4. InFile \subseteq since[p]
      BY <3>1 DEF StoreInv, Knows
    <3>5. EndsWithOwn(p)
      BY <3>3, <3>4 DEF EndsWithOwn, Difference
    <3> QED BY <3>1, <3>2, <3>5 DEF StoreInv, EndsWithOwn
  <2>4. ASSUME NEW p \in Editors, Loads(p) PROVE StoreInv' /\ \A q \in Editors : EndsWithOwn(q)
    <3>0. store.config \in Configs
      BY <2>4, NotConfigs DEF Loads, StoreInv, StoreTypes
    <3>1. /\ StoreTypes' /\ does'[p] = "loaded" /\ mine'[p] = store.config /\ store' = store
          /\ \A q \in Editors \ {p} : does'[q] = does[q] /\ mine'[q] = mine[q]
      BY <2>4, <3>0 DEF Loads, StoreInv, StoreTypes
    <3>2. InFile' = Entries(mine'[p])
      BY <2>4, <3>1 DEF Loads, InFile
    <3>3. Knows(p)'
      BY <3>1, <3>2 DEF Knows, Difference
    <3>4. \A q \in Editors : Knows(q)'
      BY <2>s, <3>1, <3>3, OthersKeep
    <3> QED BY <3>1, <3>4 DEF StoreInv, EndsWithOwn
  <2>5. ASSUME NEW p \in Editors, Leaves(p) \/ Edits(p)
        PROVE StoreInv' /\ \A q \in Editors : EndsWithOwn(q)
    <3>1. /\ StoreTypes' /\ does'[p] = "idle"
          /\ \A q \in Editors \ {p} : does'[q] = does[q] /\ mine'[q] = mine[q]
      BY <2>5, EmptyConfig DEF Leaves, Edits, StoreInv, StoreTypes
    <3>2. \A q \in Editors : Knows(q)'
      BY <2>s, <3>1, OthersKeep DEF Knows
    <3>3. InFile' = InFile \/ store'.is = "invalid"
      BY <2>5, NotConfigs DEF Leaves, Edits, InFile
    <3>4. EndsWithOwn(p)
      BY <3>3 DEF EndsWithOwn, Difference
    <3> QED BY <3>1, <3>2, <3>4 DEF StoreInv, EndsWithOwn
  <2>6. ASSUME NEW p \in Editors,
               \/ \E h \in HostIds : AddHost(p, h) \/ RemoveHost(p, h)
               \/ \E b \in Backends : AddBackend(p, b) \/ RemoveBackend(p, b)
               \/ \E m \in ModelEntries : AddModel(p, m) \/ RemoveModel(p, m)
               \/ \E m \in ModelEntries, b \in Backends : AddRpcModel(p, m, b)
        PROVE StoreInv' /\ \A q \in Editors : EndsWithOwn(q)
    <3>1. PICK c \in Configs : Changed(mine[p], c) /\ Saves(p, c)
      BY <2>6, CommandSaves
    <3> QED BY <2>s, <3>1, SavesKeeps
  <2> QED BY <2>1, <2>2, <2>3, <2>4, <2>5, <2>6 DEF StoreNext, StoreStep
<1>3. StoreInv /\ [StoreNext]_rsvars => StoreInv'
  <2>1. StoreInv /\ UNCHANGED rsvars => StoreInv'
    BY DEF rsvars, StoreInv, StoreTypes, Knows, InFile
  <2> QED BY <1>2, <2>1
<1>4. StoreInv /\ [StoreNext]_rsvars => [\A p \in Editors : EndsWithOwn(p)]_rsvars
  BY <1>2
<1> QED BY <1>1, <1>3, <1>4, PTL DEF StoreSpec, OwnChanges

-----------------------------------------------------------------------------
(* The output of a command *)

\* The pieces s run without a gap up to piece r.
EndsAt(s, r) == Len(s) <= r /\ \A i \in 1..Len(s) : s[i] = r - Len(s) + i
Rises(s) == \A i, j \in 1..Len(s) : i < j => s[i] < s[j]
AtMost(s, n) == \A i \in 1..Len(s) : s[i] <= n

OutputInv ==
  /\ read \in Nat /\ written \in Nat
  /\ buffer \in Seq(Nat) /\ shown \in Seq(Nat)
  /\ EndsAt(buffer, read) /\ Rises(shown) /\ AtMost(shown, read - Len(buffer))
  /\ buffer = <<>> /\ read > 0 => shown # <<>> /\ shown[Len(shown)] = read
  /\ pty => buffer = <<>>
  /\ phase = "returned" => read = written /\ buffer = <<>> /\ group \in {"ended", "killed"}

\* What Last keeps of a sequence is its end.
LEMMA LastIsEnd ==
  ASSUME NEW s \in Seq(Nat), NEW n \in Nat \ {0}
  PROVE  LET l == Last(s, n) IN
         /\ l \in Seq(Nat) /\ Len(l) <= Len(s)
         /\ s # <<>> => l # <<>>
         /\ s = <<>> => l = <<>>
         /\ \A i \in 1..Len(l) : l[i] = s[Len(s) - Len(l) + i]
<1>1. CASE Len(s) <= n
  BY <1>1 DEF Last
<1>2. CASE Len(s) > n
  <2>1. /\ Last(s, n) = SubSeq(s, Len(s) - n + 1, Len(s))
        /\ Len(s) - n + 1 \in 1..Len(s) /\ Len(s) \in Nat
    BY <1>2 DEF Last
  <2>2. Last(s, n) \in Seq(Nat) /\ Len(Last(s, n)) = n
    BY <2>1
  <2>3. \A i \in 1..n : Last(s, n)[i] = s[Len(s) - n + i]
    BY <2>1
  <2> QED BY <1>2, <2>2, <2>3
<1> QED BY <1>1, <1>2

LEMMA LastEndsAt ==
  ASSUME NEW s \in Seq(Nat), NEW n \in Nat \ {0}, NEW r \in Nat, EndsAt(s, r)
  PROVE  EndsAt(Last(s, n), r)
  BY LastIsEnd DEF EndsAt

LEMMA ShowKeeps ==
  ASSUME shown \in Seq(Nat), Rises(shown), NEW pieces \in Seq(Nat), NEW r \in Nat,
         EndsAt(pieces, r), AtMost(shown, r - Len(pieces)), Show(pieces)
  PROVE  /\ shown' \in Seq(Nat) /\ Rises(shown') /\ AtMost(shown', r) /\ buffer' = <<>>
         /\ pieces = <<>> => shown' = shown
         /\ pieces # <<>> => shown' # <<>> /\ shown'[Len(shown')] = r
<1> DEFINE l == Last(pieces, MaxChunk)
<1>1. /\ l \in Seq(Nat) /\ Len(l) <= Len(pieces) /\ EndsAt(l, r)
      /\ pieces = <<>> => l = <<>>
      /\ pieces # <<>> => l # <<>>
  BY LastIsEnd, LastEndsAt, ExecAssumption
<1>2. shown' = shown \o l /\ buffer' = <<>>
  BY DEF Show
<1> HIDE DEF l
<1>3. /\ shown' \in Seq(Nat) /\ Len(shown') = Len(shown) + Len(l)
      /\ \A i \in 1..Len(shown) : shown'[i] = shown[i]
      /\ \A i \in 1..Len(l) : shown'[Len(shown) + i] = l[i]
  BY <1>1, <1>2
<1>4. Len(l) \in Nat /\ Len(shown) \in Nat /\ Len(pieces) \in Nat
  BY <1>1
<1>5. ASSUME NEW i \in 1..Len(shown'), i \in 1..Len(shown)
      PROVE  shown'[i] = shown[i] /\ shown[i] <= r - Len(l) /\ shown[i] \in Nat
  <2>1. shown'[i] = shown[i] /\ shown[i] \in Nat
    BY <1>3, <1>5
  <2>2. shown[i] <= r - Len(pieces)
    BY <1>5 DEF AtMost
  <2> QED BY <1>1, <1>4, <2>1, <2>2
<1>6. ASSUME NEW i \in 1..Len(shown'), i \notin 1..Len(shown)
      PROVE  i > Len(shown) /\ shown'[i] = r - Len(shown') + i
  <2>1. PICK k \in 1..Len(l) : i = Len(shown) + k
    <3>1. i - Len(shown) \in 1..Len(l) /\ i = Len(shown) + (i - Len(shown))
      BY <1>3, <1>4, <1>6
    <3> QED BY <3>1
  <2>2. shown'[i] = l[k] /\ l[k] = r - Len(l) + k
    BY <1>1, <1>3, <2>1 DEF EndsAt
  <2> QED BY <1>3, <1>4, <2>1, <2>2
<1>7. Rises(shown')
  <2> SUFFICES ASSUME NEW i \in 1..Len(shown'), NEW j \in 1..Len(shown'), i < j
               PROVE  shown'[i] < shown'[j]
    BY DEF Rises
  <2>1. CASE j \in 1..Len(shown)
    <3>1. i \in 1..Len(shown)
      BY <1>3, <1>4, <2>1
    <3>2. shown'[i] = shown[i] /\ shown'[j] = shown[j]
      BY <1>5, <2>1, <3>1
    <3> QED BY <2>1, <3>1, <3>2 DEF Rises
  <2>2. CASE j \notin 1..Len(shown) /\ i \in 1..Len(shown)
    <3>1. shown'[i] <= r - Len(l) /\ shown'[i] \in Nat
      BY <1>5, <2>2
    <3>2. j > Len(shown) /\ shown'[j] = r - Len(shown') + j
      BY <1>6, <2>2
    <3> QED BY <1>3, <1>4, <3>1, <3>2
  <2>3. CASE j \notin 1..Len(shown) /\ i \notin 1..Len(shown)
    <3>1. shown'[i] = r - Len(shown') + i /\ shown'[j] = r - Len(shown') + j
      BY <1>6, <2>3
    <3> QED BY <1>3, <1>4, <3>1
  <2> QED BY <2>1, <2>2, <2>3
<1>8. AtMost(shown', r)
  <2> SUFFICES ASSUME NEW i \in 1..Len(shown') PROVE shown'[i] <= r
    BY DEF AtMost
  <2>1. CASE i \in 1..Len(shown)
    <3>1. shown'[i] <= r - Len(l) /\ shown'[i] \in Nat
      BY <1>5, <2>1
    <3> QED BY <1>4, <3>1
  <2>2. CASE i \notin 1..Len(shown)
    BY <1>3, <1>4, <1>6, <2>2
  <2> QED BY <2>1, <2>2
<1>9. ASSUME pieces # <<>> PROVE shown' # <<>> /\ shown'[Len(shown')] = r
  <2>1. Len(l) > 0
    BY <1>1, <1>9
  <2> QED BY <1>3, <1>4, <1>6, <2>1
<1> QED BY <1>1, <1>2, <1>3, <1>7, <1>8, <1>9

\* The streamer with one more piece, of which the oldest may be dropped.
LEMMA DataKeeps == ASSUME OutputInv, Data PROVE OutputInv'
<1> DEFINE longer == Append(buffer, read + 1)
<1>1. /\ phase = "running" /\ ~pty /\ read < written /\ read' = read + 1
      /\ buffer' = Last(longer, MaxBuffer)
      /\ UNCHANGED <<phase, pty, group, written, shown>>
  BY DEF Data, policyvars
<1>2. longer \in Seq(Nat) /\ Len(longer) = Len(buffer) + 1 /\ EndsAt(longer, read + 1)
  <2>1. /\ read \in Nat /\ buffer \in Seq(Nat) /\ Len(buffer) \in Nat /\ Len(buffer) <= read
        /\ \A i \in 1..Len(buffer) : buffer[i] = read - Len(buffer) + i
    BY DEF OutputInv, EndsAt
  <2>2. /\ longer \in Seq(Nat) /\ Len(longer) = Len(buffer) + 1
        /\ \A i \in 1..Len(buffer) : longer[i] = buffer[i]
        /\ longer[Len(buffer) + 1] = read + 1
    BY <2>1
  <2>3. ASSUME NEW i \in 1..Len(longer) PROVE longer[i] = read + 1 - Len(longer) + i
    <3>1. CASE i = Len(buffer) + 1
      BY <2>1, <2>2, <3>1
    <3>2. CASE i \in 1..Len(buffer)
      BY <2>1, <2>2, <3>2
    <3> QED BY <2>1, <2>2, <3>1, <3>2
  <2> QED BY <2>1, <2>2, <2>3 DEF EndsAt
<1>3. buffer' \in Seq(Nat) /\ EndsAt(buffer', read + 1) /\ Len(buffer') <= Len(buffer) + 1 /\ buffer' # <<>>
  <2>1. longer # <<>> /\ read + 1 \in Nat
    BY <1>2 DEF OutputInv
  <2> QED BY <1>1, <1>2, <2>1, LastIsEnd, LastEndsAt, ExecAssumption
<1>4. AtMost(shown, read + 1 - Len(buffer'))
  <2>1. Len(buffer') \in Nat /\ Len(buffer) \in Nat /\ read \in Nat
    BY <1>3 DEF OutputInv
  <2> SUFFICES ASSUME NEW i \in 1..Len(shown) PROVE shown[i] <= read + 1 - Len(buffer')
    BY DEF AtMost
  <2>2. shown[i] <= read - Len(buffer) /\ shown[i] \in Nat
    BY DEF OutputInv, AtMost
  <2> QED BY <1>3, <2>1, <2>2
<1> QED BY <1>1, <1>3, <1>4 DEF OutputInv

\* What was buffered is shown.
LEMMA FlushKeeps ==
  ASSUME OutputInv, Show(buffer), UNCHANGED <<pty, written, read>>,
         phase' = "returned" => read = written /\ group' \in {"ended", "killed"}
  PROVE  OutputInv'
<1>1. /\ shown' \in Seq(Nat) /\ Rises(shown') /\ AtMost(shown', read) /\ buffer' = <<>>
      /\ buffer = <<>> => shown' = shown
      /\ buffer # <<>> => shown' # <<>> /\ shown'[Len(shown')] = read
  BY ShowKeeps DEF OutputInv
<1>2. EndsAt(<<>>, read) /\ read - Len(<<>>) = read
  BY DEF OutputInv, EndsAt
<1> QED BY <1>1, <1>2 DEF OutputInv

LEMMA PtyDataKeeps == ASSUME OutputInv, PtyData PROVE OutputInv'
<1>1. /\ phase = "running" /\ pty /\ read < written /\ read' = read + 1 /\ Show(<<read + 1>>)
      /\ UNCHANGED <<phase, pty, group, written>>
      /\ buffer = <<>> /\ Len(buffer) = 0
  BY DEF PtyData, policyvars, OutputInv
<1>2. <<read + 1>> \in Seq(Nat) /\ EndsAt(<<read + 1>>, read + 1) /\ <<read + 1>> # <<>>
  BY DEF OutputInv, EndsAt
<1>3. AtMost(shown, read)
  BY <1>1 DEF OutputInv, AtMost
<1>4. /\ shown' \in Seq(Nat) /\ Rises(shown') /\ AtMost(shown', read + 1) /\ buffer' = <<>>
      /\ shown' # <<>> /\ shown'[Len(shown')] = read + 1
  <2>1. read + 1 \in Nat /\ shown \in Seq(Nat) /\ Rises(shown)
    BY DEF OutputInv
  <2>2. PICK p \in Seq(Nat), r \in Nat : p = <<read + 1>> /\ r = read + 1
    BY <1>2, <2>1
  <2>3. p # <<>> /\ Show(p) /\ EndsAt(p, r) /\ AtMost(shown, r - Len(p))
    <3>1. p # <<>>
      BY <1>2, <2>2
    <3>2. Show(p)
      BY <1>1, <2>2, Zenon
    <3>3. EndsAt(p, r)
      BY <1>2, <2>2, Zenon
    <3>4. AtMost(shown, r - Len(p))
      <4>1. Len(p) = 1
        BY <2>2
      <4>2. r - Len(p) = read
        BY <2>2, <4>1 DEF OutputInv
      <4> QED BY <1>3, <4>2 DEF AtMost
    <3> QED BY <3>1, <3>2, <3>3, <3>4
  <2>4. /\ shown' \in Seq(Nat) /\ Rises(shown') /\ AtMost(shown', r) /\ buffer' = <<>>
        /\ shown' # <<>> /\ shown'[Len(shown')] = r
    BY <2>1, <2>3, ShowKeeps
  <2> QED BY <2>2, <2>4
<1>5. EndsAt(<<>>, read + 1) /\ read + 1 - Len(<<>>) = read + 1
  BY DEF OutputInv, EndsAt
<1> QED BY <1>1, <1>4, <1>5 DEF OutputInv

\* The inductive invariant of the output of exec.
THEOREM OutputInvariant == ExecSpec => []OutputInv
<1>1. ExecInit => OutputInv
  BY DEF ExecInit, CallInit, OutputInv, EndsAt, Rises, AtMost
<1>2. OutputInv /\ [ExecNext]_xvars => OutputInv'
  <2> SUFFICES ASSUME OutputInv, [ExecNext]_xvars PROVE OutputInv'
    OBVIOUS
  <2> USE DEF policyvars, outvars
  <2>1. CASE Policy \/ Confirmed \/ FailsToSpawn \/ Spawn
    BY <2>1 DEF Policy, Confirmed, FailsToSpawn, Spawn, OutputInv
  <2>2. CASE Abort
    BY <2>2 DEF Abort, Kill, Over, OutputInv
  <2>3. CASE TimesOut
    BY <2>3 DEF TimesOut, OutputInv
  <2>4. CASE Ends \/ Escape
    BY <2>4 DEF Ends, Escape, OutputInv
  <2>5. CASE Write
    BY <2>5 DEF Write, OutputInv
  <2>6. CASE Flush
    BY <2>6, FlushKeeps DEF Flush, OutputInv
  <2>7. CASE Close
    BY <2>7, FlushKeeps DEF Close, Done, OutputInv
  <2>8. CASE PtyExit
    BY <2>8 DEF PtyExit, OutputInv
  <2>9. CASE UNCHANGED xvars
    BY <2>9 DEF xvars, OutputInv
  <2> QED BY <2>1, <2>2, <2>3, <2>4, <2>5, <2>6, <2>7, <2>8, <2>9, DataKeeps, PtyDataKeeps DEF ExecNext
<1> QED BY <1>1, <1>2, PTL DEF ExecSpec

\* Of the output of a command the user sees pieces in their order, the last of them when
\* exec returns (makeExecStreamer, execWithPty).
THEOREM OutputIsShown == ExecSpec => []OutputShown
<1>1. OutputInv => OutputShown
  BY DEF OutputInv, OutputShown, Rises
<1> QED BY <1>1, OutputInvariant, PTL
=============================================================================

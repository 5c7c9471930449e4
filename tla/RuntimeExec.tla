----------------------------- MODULE RuntimeExec -----------------------------
(***************************************************************************)
(* Switching the model server: plan() of src/src/runtime/planner.ts and    *)
(* execute() of src/src/runtime/executor.ts, as `idlehands select`         *)
(* (cli/runtime-cmds.ts), the bots' /switch and Anton's recovery           *)
(* (anton/controller.ts) call them, in processes that share the runtime    *)
(* lock, the active-runtime record and the hosts.                          *)
(*                                                                         *)
(* A process loads the record and plans from it, takes the lock, executes  *)
(* the steps of its plan and saves or clears the record.                   *)
(* place[p]:  take, look, reclaim, retake, ask, takeover, force            *)
(*                              in acquireRuntimeLock                      *)
(*         run                  the steps of the plan                      *)
(*         undo, clear, save    what follows them                          *)
(*         release              the finally of execute                     *)
(*                                                                         *)
(* The hosts are the commands of a default configuration: stop_cmd kills   *)
(* any server of the host, start_cmd leaves one in the background that     *)
(* cannot listen where another does, probe_cmd asks /health, which answers *)
(* for whatever model is loaded.                                           *)
(***************************************************************************)
EXTENDS Integers, Sequences, FiniteSets

CONSTANTS
  CLIs, Bots,     \* processes that run `select`, and bots that are sent /switch
  Antons,         \* processes that run Anton
  Models,
  HostsFor(_),    \* the hosts a model may be put on
  Backend(_),     \* the backend of a model, NoBackend under policy "any"
  NoBackend,
  MaxSelects,     \* bound: selects and switches begun
  MaxEnds,        \* bound: processes and servers that end by themselves
  LongProbes      \* whether a health probe may take over an hour (models > 80 GiB)

\* A model without a host is refused by plan() before anything is changed.
ASSUME RuntimeAssumption == \A m \in Models : HostsFor(m) # {}

Procs == CLIs \cup Bots \cup Antons
Hosts == UNION {HostsFor(m) : m \in Models}

VARIABLES
  lock,      \* runtime.lock
  record,    \* runtime-active.json
  serving,   \* serving[h]: the models (at most one) of the server on host h
  place,
  job,       \* job[p]: the plan p executes
  selects, ends,
  taken,     \* history: a lock was removed by another than its holder
  clean      \* history: no step failed, no process or server ended, no lock was
             \* taken, and no plan was executed on a record that had changed

rvars == <<lock, record, serving, place, job, selects, ends, taken, clean>>

-----------------------------------------------------------------------------
(* plan() *)

NoRecord == [model |-> {}]

Step(kind, host) == [kind |-> kind, host |-> host]

Matches(active, m, h) ==
  active # NoRecord /\ active = [model |-> {m}, host |-> h, backend |-> Backend(m)]

\* Mutant: a model of the same host is started over the old one.
StopStepsNever(active) == <<>>

\* The host of the active record is stopped, whatever host the plan is for.
StopSteps(active) == IF active = NoRecord THEN <<>> ELSE <<Step("stop", active.host)>>

BackendSteps(active, m, h) ==
  IF Backend(m) = NoBackend THEN <<>>
  ELSE IF active # NoRecord /\ active.backend = Backend(m) THEN <<Step("verify", h)>>
  ELSE <<Step("apply", h), Step("verify", h)>>

Plan(active, m, h, forced) ==
  LET reuse == ~forced /\ Matches(active, m, h)
      steps == IF reuse THEN <<Step("probe", h)>>
               ELSE StopSteps(active) \o BackendSteps(active, m, h)
                      \o <<Step("start", h), Step("probe", h)>>
  IN
  [model |-> m, host |-> h, active |-> active, reuse |-> reuse,
   steps |-> steps, left |-> steps, failed |-> FALSE]

NoJob == [left |-> <<>>]

-----------------------------------------------------------------------------
NoLock == [there |-> FALSE]
LockOf(p) == [there |-> TRUE, owner |-> p, torn |-> FALSE, old |-> FALSE]

In(p, at) == place[p] = at
GoesTo(p, to) == place' = [place EXCEPT ![p] = to]
Gone(p) == In(p, "dead")
Executing(p) == place[p] \in {"run", "undo", "clear", "save", "release"}

\* Whether the plan of p was made from a record that is no longer there.
Outdated(p) == job[p].active # record

Select(p, m, h, forced) ==
  /\ In(p, "idle") /\ selects < MaxSelects
  /\ job' = [job EXCEPT ![p] = Plan(record, m, h, forced)]
  /\ GoesTo(p, "take")
  /\ selects' = selects + 1
  /\ UNCHANGED <<lock, record, serving, ends, taken, clean>>

\* `select` with its --host, --force and --restart. (The setup wizard does nothing on a
\* match, and has no way to ask: it does what a `select` may do whose user says no.)
CliSelects(p) ==
  \E m \in Models, forced \in BOOLEAN : \E h \in HostsFor(m) : p \in CLIs /\ Select(p, m, h, forced)

\* The first host of the policy.
DefaultHost(m) == CHOOSE h \in HostsFor(m) : TRUE

\* /switch answers at once when the record matches.
BotSwitches(p) ==
  \E m \in Models :
    p \in Bots /\ ~Matches(record, m, DefaultHost(m)) /\ Select(p, m, DefaultHost(m), FALSE)

\* ensureAntonRuntimeReady, of an endpoint that does not answer: the model of the record,
\* or without one the configured one, forced after an error that says it is down.
AntonRecovers(p) ==
  \E m \in Models, forced \in BOOLEAN :
    p \in Antons /\ record.model \subseteq {m} /\ Select(p, m, DefaultHost(m), forced)

-----------------------------------------------------------------------------
(* acquireRuntimeLock *)

Gets(p) ==
  /\ lock' = LockOf(p)
  /\ GoesTo(p, "run")
  /\ clean' = (clean /\ ~Outdated(p))

\* Flag "wx"; otherwise(p) follows EEXIST.
TakeOr(p, otherwise) ==
  /\ IF lock.there THEN GoesTo(p, otherwise) /\ UNCHANGED <<lock, clean>> ELSE Gets(p)
  /\ UNCHANGED <<record, serving, job, selects, ends, taken>>

\* Mutant: the lock is written whether it is there or not.
TakeAnyway(p) ==
  /\ In(p, "take") /\ Gets(p)
  /\ UNCHANGED <<record, serving, job, selects, ends, taken>>

Take(p) == In(p, "take") /\ TakeOr(p, "look")

Returns(p) == job' = [job EXCEPT ![p] = NoJob] /\ GoesTo(p, "idle")

\* Mutant: it plans again without forcing the restart.
ReturnsNotOkUnforced(p) ==
  IF p \in CLIs /\ job[p].reuse
    THEN job' = [job EXCEPT ![p] = Plan(@.active, @.model, @.host, FALSE)] /\ GoesTo(p, "take")
    ELSE Returns(p)

\* execute() was refused the lock or failed: `select` plans again, from the record it
\* first loaded, when the plan was to reuse what runs.
ReturnsNotOk(p) ==
  LET j == job[p] IN
  IF p \in CLIs /\ j.reuse
    THEN job' = [job EXCEPT ![p] = Plan(j.active, j.model, j.host, TRUE)] /\ GoesTo(p, "take")
    ELSE Returns(p)

\* A lock that is gone by now, or not written to its end, cannot be parsed.
Look(p) ==
  /\ In(p, "look")
  /\ IF ~lock.there \/ lock.torn THEN ReturnsNotOk(p)
     ELSE GoesTo(p, IF lock.old \/ Gone(lock.owner) THEN "reclaim" ELSE "ask") /\ UNCHANGED job
  /\ UNCHANGED <<lock, record, serving, selects, ends, taken, clean>>

Removes(p, from, to) ==
  /\ In(p, from)
  /\ lock' = NoLock
  /\ GoesTo(p, to)
  /\ taken' = TRUE /\ clean' = FALSE
  /\ UNCHANGED <<record, serving, job, selects, ends>>

Reclaim(p) == Removes(p, "reclaim", "retake")
Retake(p) == In(p, "retake") /\ TakeOr(p, "ask")

\* "Force takeover?" is put to the user, and approved by the bot and by Anton.
Answered(p, approved) ==
  /\ In(p, "ask")
  /\ p \notin CLIs => approved
  /\ IF approved THEN GoesTo(p, "takeover") /\ UNCHANGED job ELSE ReturnsNotOk(p)
  /\ UNCHANGED <<lock, record, serving, selects, ends, taken, clean>>

Takeover(p) == Removes(p, "takeover", "force")

TakeForced(p) ==
  /\ In(p, "force")
  /\ IF lock.there THEN ReturnsNotOk(p) /\ UNCHANGED <<lock, clean>> ELSE Gets(p) /\ UNCHANGED job
  /\ UNCHANGED <<record, serving, selects, ends, taken>>

-----------------------------------------------------------------------------
(* The steps *)

Next1(p) == Head(job[p].left)
Advance(p) == job' = [job EXCEPT ![p].left = Tail(@)]

\* A server that finds its port taken ends; its start command has succeeded by then.
Listening(servers, m) == IF servers = {} THEN {m} ELSE servers

\* The effect of a command that succeeds; a probe needs a server.
Effect(p) ==
  LET h == Next1(p).host IN
  CASE Next1(p).kind = "stop"  -> serving' = [serving EXCEPT ![h] = {}]
    [] Next1(p).kind = "start" -> serving' = [serving EXCEPT ![h] = Listening(@, job[p].model)]
    [] Next1(p).kind = "probe" -> serving[h] # {} /\ UNCHANGED serving
    [] OTHER                   -> UNCHANGED serving

StepDone(p) ==
  /\ In(p, "run") /\ job[p].left # <<>> /\ Next1(p).host = job[p].host
  /\ Effect(p)
  /\ Advance(p)
  /\ UNCHANGED <<lock, record, place, selects, ends, taken, clean>>

\* A command that exits with an error or times out, or a step for a host that is
\* not in plan.hosts.
StepFails(p) ==
  /\ In(p, "run") /\ job[p].left # <<>>
  /\ job' = [job EXCEPT ![p].failed = TRUE]
  /\ GoesTo(p, IF job[p].reuse THEN "clear" ELSE "undo")
  /\ clean' = FALSE
  /\ UNCHANGED <<lock, record, serving, selects, ends, taken>>

Started(p) ==
  \E i \in DOMAIN job[p].steps :
    job[p].steps[i].kind = "start" /\ i + Len(job[p].left) <= Len(job[p].steps)

\* teardownPartialStart: with the plan's own stop step for the host, if it has one.
Undo(p) ==
  LET h == job[p].host  steps == {job[p].steps[i] : i \in DOMAIN job[p].steps} IN
  /\ In(p, "undo")
  /\ \/ Started(p) /\ Step("stop", h) \in steps /\ serving' = [serving EXCEPT ![h] = {}]
     \/ UNCHANGED serving
  /\ GoesTo(p, "clear")
  /\ UNCHANGED <<lock, record, job, selects, ends, taken, clean>>

\* clearActiveRuntime
Clear(p) ==
  /\ In(p, "clear")
  /\ record' = NoRecord
  /\ GoesTo(p, "release")
  /\ UNCHANGED <<lock, serving, job, selects, ends, taken, clean>>

AllDone(p) ==
  /\ In(p, "run") /\ job[p].left = <<>>
  /\ GoesTo(p, IF job[p].reuse THEN "release" ELSE "save")
  /\ UNCHANGED <<lock, record, serving, job, selects, ends, taken, clean>>

\* saveActiveRuntime
Save(p) ==
  /\ In(p, "save")
  /\ record' = [model |-> {job[p].model}, host |-> job[p].host, backend |-> Backend(job[p].model)]
  /\ GoesTo(p, "release")
  /\ UNCHANGED <<lock, serving, job, selects, ends, taken, clean>>

\* Whoever's the lock is.
ReleaseLock(p) ==
  /\ In(p, "release")
  /\ lock' = NoLock
  /\ IF job[p].failed THEN ReturnsNotOk(p) ELSE Returns(p)
  /\ UNCHANGED <<record, serving, selects, ends, taken, clean>>

-----------------------------------------------------------------------------
(* The surroundings *)

\* The process ends; when it was about to write its lock, perhaps with the file
\* opened and empty.
ProcessEnds(p) ==
  /\ ~Gone(p) /\ ~In(p, "idle") /\ ends < MaxEnds
  /\ GoesTo(p, "dead")
  /\ \/ UNCHANGED lock
     \/ place[p] \in {"take", "retake", "force"} /\ ~lock.there
        /\ lock' = [LockOf(p) EXCEPT !.torn = TRUE]
  /\ ends' = ends + 1
  /\ clean' = FALSE
  /\ UNCHANGED <<record, serving, job, selects, taken>>

\* STALE_LOCK_MS; probe timeouts reach 5400 s (deriveProbeDefaultsFromSizeGiB).
LockAges ==
  /\ lock.there /\ ~lock.old
  /\ LongProbes \/ Gone(lock.owner)
  /\ lock' = [lock EXCEPT !.old = TRUE]
  /\ UNCHANGED <<record, serving, place, job, selects, ends, taken, clean>>

ServerEnds(h) ==
  /\ serving[h] # {} /\ ends < MaxEnds
  /\ serving' = [serving EXCEPT ![h] = {}]
  /\ ends' = ends + 1
  /\ clean' = FALSE
  /\ UNCHANGED <<lock, record, place, job, selects, taken>>

-----------------------------------------------------------------------------
RuntimeInit ==
  /\ lock = NoLock /\ record = NoRecord
  /\ serving = [h \in Hosts |-> {}]
  /\ place = [p \in Procs |-> "idle"] /\ job = [p \in Procs |-> NoJob]
  /\ selects = 0 /\ ends = 0 /\ taken = FALSE /\ clean = TRUE

Locking(p) ==
  Take(p) \/ Look(p) \/ Reclaim(p) \/ Retake(p) \/ Takeover(p) \/ TakeForced(p)
    \/ \E approved \in BOOLEAN : Answered(p, approved)

Stepping(p) ==
  StepDone(p) \/ StepFails(p) \/ AllDone(p) \/ Undo(p) \/ Clear(p) \/ Save(p) \/ ReleaseLock(p)

RuntimeNext ==
  \/ \E p \in Procs :
       \/ CliSelects(p) \/ BotSwitches(p) \/ AntonRecovers(p)
       \/ Locking(p) \/ Stepping(p) \/ ProcessEnds(p)
  \/ LockAges
  \/ \E h \in Hosts : ServerEnds(h)

RuntimeSpec == RuntimeInit /\ [][RuntimeNext]_rvars

\* Commands end or time out, and a user who is asked answers.
RuntimeFair == \A p \in Procs : WF_rvars(Locking(p)) /\ WF_rvars(Stepping(p))

RuntimeFairSpec == RuntimeSpec /\ RuntimeFair

-----------------------------------------------------------------------------
(* Properties *)

\* docs/orchestration.md:122 on overlapping stop/start actions: as long as no lock
\* is removed by another than its holder, one process at most executes a plan.
OneExecutor == ~taken => \A p, q \in Procs : Executing(p) /\ Executing(q) => p = q

Served == record # NoRecord => serving[record.host] = record.model

\* Between executions the record names the model that is served, as long as every
\* plan is executed on the record it was made from and nothing fails.
RecordTrue == clean /\ (\A p \in Procs : ~Executing(p)) => Served

\* A select ends, whatever becomes of locks, commands and other processes.
SelectEnds == \A p \in Procs : place[p] = "take" ~> place[p] \in {"idle", "dead"}
=============================================================================

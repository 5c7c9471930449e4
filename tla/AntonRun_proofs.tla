-------------------------- MODULE AntonRun_proofs --------------------------
(***************************************************************************)
(* For every set of worklists, every decomposition and every limit: the    *)
(* state of an Anton run keeps its types, a run that may skip tasks and    *)
(* says "all_done" leaves no task untried, every tick is earned, and no    *)
(* tick outlives the work of its task where keys tell the lines apart.     *)
(***************************************************************************)
EXTENDS AntonRun, FiniteSetTheorems, SequenceTheorems, WellFoundedInduction, TLAPS

\* A worklist whose lines carry numbers up to n.
Numbered(f, n) == f \in Seq(Line) /\ \A i \in DOMAIN f : f[i].id \in 1..n

\* Some line of f has the key k.
Present(f, k) == \E i \in DOMAIN f : Keys(f)[i] = k

-----------------------------------------------------------------------------
(* Facts about worklists *)

\* A set of lines that is not empty has a first one.
LEMMA FirstLine ==
  ASSUME NEW S \in SUBSET Nat, S # {}
  PROVE  \E i \in S : \A j \in S : i <= j
<1>1. PICK i \in S : \A j \in S : ~(<<j, i>> \in OpToRel(<, Nat))
  BY NatLessThanWellFounded, WFMin
<1>2. \A j \in S : ~(j < i)
  BY <1>1 DEF OpToRel
<1>3. QED
  BY <1>2

\* Every line has a key.
LEMMA KeysTyped ==
  ASSUME NEW f \in Seq(Line)
  PROVE  /\ DOMAIN Keys(f) = DOMAIN f
         /\ \A i \in DOMAIN f : Keys(f)[i] \in Key
<1> DEFINE key[i \in DOMAIN f] == KeyOf(f, key, i)
           keys == [i \in DOMAIN f |-> KeyOf(f, key, i)]
<1>1. Keys(f) = keys
  BY DEF Keys
<1> HIDE DEF key
<1>2. ASSUME NEW i \in DOMAIN f PROVE KeyOf(f, key, i) \in Key
  <2>1. i \in Nat /\ f[i] \in Line
    OBVIOUS
  <2>2. IsFiniteSet(1..(i - 1))
    BY <2>1, FS_Interval
  <2>3. Twins(f, key, i) \in SUBSET (1..(i - 1))
    BY DEF Twins
  <2>4. Cardinality(Twins(f, key, i)) \in Nat
    BY <2>2, <2>3, FS_Subset, FS_CardinalityType
  <2>5. f[i].text \in Texts /\ f[i].depth \in Nat
    BY <2>1 DEF Line
  <2>6. QED
    BY <2>4, <2>5 DEF KeyOf, Key
<1>3. QED
  BY <1>1, <1>2

\* find returns the first line with a key that some line has.
LEMMA FirstIsFirst ==
  ASSUME NEW f \in Seq(Line), NEW k, Present(f, k)
  PROVE  /\ First(f, k) \in DOMAIN f
         /\ Keys(f)[First(f, k)] = k
         /\ \A j \in DOMAIN f : Keys(f)[j] = k => First(f, k) <= j
<1> DEFINE S == {i \in DOMAIN f : Keys(f)[i] = k}
<1>1. S \in SUBSET Nat /\ S # {}
  BY DEF Present
<1>2. PICK i \in S : \A j \in S : i <= j
  BY <1>1, FirstLine
<1>3. /\ i \in DOMAIN f
      /\ Keys(f)[i] = k /\ \A j \in DOMAIN f : Keys(f)[j] = k => i <= j
  BY <1>2
<1>4. QED
  BY <1>3 DEF First

\* As long as a task is left, one can be started: no chain of parents, and no confusion
\* of tasks that share a key, makes all of them wait.
LEMMA RunnableProgress ==
  ASSUME NEW f \in Seq(Line), NEW skipped, Pending(f, skipped) # {}
  PROVE  Runnable(f, skipped) # {}
<1>1. Pending(f, skipped) \in SUBSET Nat
  BY DEF Pending
<1>2. PICK i \in Pending(f, skipped) : \A j \in Pending(f, skipped) : i <= j
  BY <1>1, FirstLine
<1>3. i \in DOMAIN f /\ i \in Nat /\ DOMAIN f = 1..Len(f)
  BY DEF Pending
<1>4. ASSUME NEW p \in Parents(f, i) PROVE First(f, Keys(f)[p]) \notin Pending(f, skipped)
  <2>1. p \in DOMAIN f /\ p \in Nat /\ p < i
    BY <1>3 DEF Parents
  <2>2. First(f, Keys(f)[p]) \in DOMAIN f /\ First(f, Keys(f)[p]) <= p
    BY <2>1, FirstIsFirst DEF Present
  <2>3. QED
    BY <1>2, <1>3, <2>1, <2>2
<1>5. i \in Runnable(f, skipped)
  BY <1>2, <1>4 DEF Runnable, Waits
<1>6. QED
  BY <1>5

\* runnableTasks[0] is a pending line of the worklist.
LEMMA NextIsPending ==
  ASSUME NEW f \in Seq(Line), NEW skipped, Runnable(f, skipped) # {}
  PROVE  Next1(f, skipped) \in Pending(f, skipped) /\ Next1(f, skipped) \in DOMAIN f
<1>1. Runnable(f, skipped) \in SUBSET Nat
  BY DEF Runnable, Pending
<1>2. \E i \in Runnable(f, skipped) : \A j \in Runnable(f, skipped) : i <= j
  BY <1>1, FirstLine
<1>3. Next1(f, skipped) \in Runnable(f, skipped)
  BY <1>2 DEF Next1
<1>4. QED
  BY <1>3 DEF Runnable, Pending

\* Ticking keeps a worklist a worklist, line by line.
LEMMA TickedNumbered ==
  ASSUME NEW n \in Nat, NEW f, Numbered(f, n), NEW k
  PROVE  Numbered(Ticked(f, k), n) /\ Len(Ticked(f, k)) = Len(f)
<1>1. \E T : Ticked(f, k) = WithTicks(f, T)
  BY DEF Ticked
<1>2. PICK T : Ticked(f, k) = WithTicks(f, T)
  BY <1>1
<1>3. f \in Seq(Line) /\ DOMAIN f = 1..Len(f) /\ Len(f) \in Nat
  BY DEF Numbered
<1> DEFINE tick(i) == [f[i] EXCEPT !.checked = @ \/ i \in T]
<1>4. ASSUME NEW i \in DOMAIN f PROVE tick(i) \in Line /\ tick(i).id = f[i].id
  <2>1. f[i] \in Line
    BY <1>3
  <2>2. (f[i].checked \/ i \in T) \in BOOLEAN
    OBVIOUS
  <2>3. QED
    BY <2>1, <2>2 DEF Line
<1>5. /\ WithTicks(f, T) \in Seq(Line) /\ Len(WithTicks(f, T)) = Len(f)
      /\ \A i \in DOMAIN f : WithTicks(f, T)[i].id = f[i].id
  <2>1. WithTicks(f, T) = [i \in 1..Len(f) |-> tick(i)]
    BY <1>3 DEF WithTicks
  <2> HIDE DEF tick
  <2>2. QED
    BY <1>3, <1>4, <2>1
<1>6. QED
  BY <1>2, <1>3, <1>5 DEF Numbered

\* So does the insertion of subtasks with numbers of their own.
LEMMA SubtasksNumbered ==
  ASSUME NEW n \in Nat, NEW f, Numbered(f, n), NEW k, Present(f, k),
         NEW items \in Seq(Texts)
  PROVE  Numbered(WithSubtasks(f, k, items, n), n + Len(items))
<1> DEFINE i   == First(f, k)
           new == [m \in DOMAIN items |->
                     [text |-> items[m], depth |-> f[i].depth + 1,
                      checked |-> FALSE, id |-> n + m]]
           fst == SubSeq(f, 1, i)
           rst == SubSeq(f, i + 1, Len(f))
           top == n + Len(items)
<1>1. f \in Seq(Line) /\ DOMAIN f = 1..Len(f) /\ Len(f) \in Nat
  BY DEF Numbered
<1>2. i \in 1..Len(f) /\ f[i].depth \in Nat
  <2>1. i \in 1..Len(f)
    BY <1>1, FirstIsFirst
  <2>2. f[i] \in Line
    BY <1>1, <2>1
  <2>3. QED
    BY <2>1, <2>2 DEF Line
<1>3. WithSubtasks(f, k, items, n) = fst \o new \o rst
  BY DEF WithSubtasks
<1>4. DOMAIN items = 1..Len(items) /\ Len(items) \in Nat /\ top \in Nat
  OBVIOUS
<1> HIDE DEF i
<1>5. Numbered(new, top)
  <2>1. \A m \in DOMAIN items : new[m] \in Line /\ new[m].id \in 1..top
    BY <1>2, <1>4 DEF Line
  <2>2. new \in Seq(Line) /\ DOMAIN new = DOMAIN items
    BY <1>4, <2>1
  <2>3. QED
    BY <2>1, <2>2 DEF Numbered
<1>6. Numbered(fst, top)
  BY <1>1, <1>2, <1>4 DEF Numbered
<1>7. Numbered(rst, top)
  BY <1>1, <1>2, <1>4 DEF Numbered
<1> HIDE DEF new, fst, rst, top
<1>8. Numbered(fst \o new, top)
  BY <1>5, <1>6 DEF Numbered
<1>9. Numbered((fst \o new) \o rst, top)
  BY <1>7, <1>8 DEF Numbered
<1>10. QED
  BY <1>3, <1>9 DEF top

-----------------------------------------------------------------------------
(* The invariant *)

Run ==
  [pc : {"start", "loop", "ask", "commit", "end"} \cup Ended,
   key : Key \cup {NoKey}, id : Nat, cancelled : BOOLEAN, recovered : BOOLEAN,
   retries : UNION {[K -> Nat] : K \in SUBSET Key}, skipped : SUBSET Key,
   iterations : 0..MaxIterations, failed : BOOLEAN,
   stop : {"none", "abort", "max_iterations", "budget", "max_tasks_exceeded",
           "fatal_error", "all_done"},
   aborted : BOOLEAN, spent : BOOLEAN]

Places == {"tracked", "untracked", "added", "outside", "deleted"}

\* What the variables hold, the ghost numbers of tasks included.
Types ==
  /\ config \in Configs /\ place \in Places
  /\ lines \in Nat /\ Numbered(file, lines) /\ Numbered(head, lines) /\ Numbered(index, lines)
  /\ passed \cup undone \cup edits \subseteq 1..lines
  /\ {alike, staged, newfiles} \subseteq BOOLEAN
  /\ run \in Run

\* An attempt is at a task of the worklist, and the limits allowed it.
AtATask ==
  In({"ask", "commit"}) =>
    /\ run.key \in Key /\ run.id \in 1..lines
    /\ run.iterations < MaxIterations
    /\ run.pc = "ask" => Present(file, run.key)

\* The loop is left for want of a task, unless for a limit or for a failure.
LeftForAReason ==
  run.pc = "end" /\ config.skipOnFail => OutOfLimits \/ Pending(file, run.skipped) = {}

\* A reason is given at the end of a run, and holds from then on.
StopsAtEnd == run.stop = "none" \/ run.pc = "done"

\* The inductive invariant.
IInv == Types /\ AtATask /\ LeftForAReason /\ StopsAtEnd /\ NothingLeftBehind

\* A counter of attempts is set for a task.
LEMMA RetriesTyped ==
  ASSUME run \in Run, NEW k \in Key, NEW n \in Nat
  PROVE  /\ Retries(k) \in Nat
         /\ WithRetries(k, n) \in UNION {[K -> Nat] : K \in SUBSET Key}
<1>1. PICK K \in SUBSET Key : run.retries \in [K -> Nat]
  BY DEF Run
<1>2. DOMAIN run.retries = K
  BY <1>1
<1>3. WithRetries(k, n) \in [K \cup {k} -> Nat]
  BY <1>1, <1>2 DEF WithRetries
<1>4. Retries(k) \in Nat
  BY <1>1, <1>2 DEF Retries
<1>5. K \cup {k} \in SUBSET Key
  OBVIOUS
<1>6. QED
  BY <1>3, <1>4, <1>5

\* What is left to show of a step that ends at "loop" or "end" with no reason given.
LEMMA RecordedKeeps ==
  ASSUME Types, run.stop = "none", run.key \in Key,
         NEW fails \in BOOLEAN, NEW counts \in {0, 1}, NEW n \in Nat,
         run.iterations < MaxIterations, Recorded(fails, counts, n), config' = config
  PROVE  /\ run' \in Run
         /\ AtATask' /\ LeftForAReason' /\ StopsAtEnd' /\ NothingLeftBehind'
<1>1. run \in Run /\ MaxIterations \in Nat /\ config \in Config
  BY AntonAssumption DEF Types
<1>2. run.iterations + counts \in 0..MaxIterations
  BY <1>1 DEF Run
<1>3. WithRetries(run.key, n) \in UNION {[K -> Nat] : K \in SUBSET Key}
  BY <1>1, RetriesTyped
<1>4. /\ run' \in Run /\ run'.stop = "none"
      /\ run'.pc = IF fails /\ ~config.skipOnFail THEN "end" ELSE "loop"
  BY <1>1, <1>2, <1>3 DEF Recorded, Run
<1>5. AtATask' /\ LeftForAReason'
  BY <1>4 DEF AtATask, LeftForAReason, In
<1>6. StopsAtEnd' /\ NothingLeftBehind'
  BY <1>4 DEF StopsAtEnd, NothingLeftBehind
<1>7. QED
  BY <1>4, <1>5, <1>6

LEMMA FreshTyped == Fresh \in Run /\ Threw \in Run
<1>1. [k \in {} |-> 0] \in [{} -> Nat] /\ {} \in SUBSET Key
  OBVIOUS
<1>2. [k \in {} |-> 0] \in UNION {[K -> Nat] : K \in SUBSET Key}
  BY <1>1
<1>3. MaxIterations \in Nat
  BY AntonAssumption
<1>4. Fresh \in Run
  BY <1>2, <1>3 DEF Fresh, Run, Ended
<1>5. Threw \in Run
  BY <1>4 DEF Threw, Run, Ended
<1>6. QED
  BY <1>4, <1>5

LEMMA InitInv == Init => IInv
<1> SUFFICES ASSUME Init PROVE IInv
  OBVIOUS
<1>1. file \in Seq(Line) /\ lines = Len(file) /\ Numbered(file, lines)
  BY AntonAssumption DEF Init, Numbered
<1>2. place \in Places
  BY AntonAssumption DEF Init, Places, Config
<1>3. Types
  <2>1. run \in Run /\ config \in Configs /\ lines \in Nat
    BY <1>1, FreshTyped DEF Init
  <2>2. Numbered(head, lines) /\ Numbered(index, lines)
    BY <1>1 DEF Init
  <2>3. passed \cup undone \cup edits \subseteq 1..lines
    BY DEF Init
  <2>4. {alike, staged, newfiles} \subseteq BOOLEAN
    BY DEF Init, Alike
  <2>5. QED
    BY <1>1, <1>2, <2>1, <2>2, <2>3, <2>4 DEF Types
<1>4. run.pc = "start" /\ run.stop = "none"
  BY DEF Init, Fresh
<1>5. AtATask /\ LeftForAReason /\ StopsAtEnd /\ NothingLeftBehind
  BY <1>4 DEF AtATask, LeftForAReason, StopsAtEnd, NothingLeftBehind, In
<1>6. QED
  BY <1>3, <1>5 DEF IInv

\* A step of the controller alone, short of a reason to stop.
LEMMA RunStep ==
  ASSUME IInv, UNCHANGED <<config, file, git, ghosts>>,
         run' \in Run, run'.stop = "none", AtATask', LeftForAReason'
  PROVE  IInv'
<1>1. Types'
  BY DEF IInv, Types, ghosts, git
<1>2. StopsAtEnd' /\ NothingLeftBehind'
  BY DEF StopsAtEnd, NothingLeftBehind
<1>3. QED
  BY <1>1, <1>2 DEF IInv

\* An attempt that is recorded and leaves everything else alone.
LEMMA RecordStep ==
  ASSUME IInv, In({"ask", "commit"}), UNCHANGED <<config, file, git, ghosts>>,
         NEW fails \in BOOLEAN, NEW counts \in {0, 1}, NEW n \in Nat,
         Recorded(fails, counts, n)
  PROVE  IInv'
<1>1. /\ Types /\ run.stop = "none" /\ run.key \in Key
      /\ run.iterations < MaxIterations
  BY DEF IInv, AtATask, StopsAtEnd, In
<1>2. run' \in Run /\ AtATask' /\ LeftForAReason' /\ StopsAtEnd' /\ NothingLeftBehind'
  BY <1>1, RecordedKeeps
<1>3. Types'
  BY <1>1, <1>2 DEF Types, ghosts, git
<1>4. QED
  BY <1>2, <1>3 DEF IInv

\* The lines of a worklist are numbered up to any later number.
LEMMA NumberedLater ==
  ASSUME NEW f, NEW m \in Nat, NEW n \in Nat, m <= n, Numbered(f, m)
  PROVE  Numbered(f, n)
BY DEF Numbered

LEMMA LoopInv ==
  ASSUME IInv, Begin \/ BeginFails \/ LoopEnds \/ Skip \/ StartTask \/ Throws
  PROVE  IInv'
<1>1. /\ UNCHANGED <<config, file, git, ghosts>>
      /\ run \in Run /\ run.stop = "none" /\ In({"start", "loop", "end"})
  BY DEF IInv, Types, StopsAtEnd, Begin, BeginFails, LoopEnds, Skip, StartTask, Throws,
         AtTask, In
<1>2. /\ file \in Seq(Line) /\ lines \in Nat /\ Numbered(file, lines)
      /\ config \in Config /\ MaxIterations \in Nat
  BY AntonAssumption DEF IInv, Types, Numbered
<1>3. ASSUME AtTask
      PROVE  /\ NextKey \in Key /\ Present(file, NextKey) /\ file[NextLine].id \in 1..lines
             /\ run.iterations < MaxIterations
  <2>1. NextLine \in DOMAIN file
    BY <1>2, <1>3, NextIsPending DEF AtTask, NextLine
  <2>2. NextKey \in Key
    BY <1>2, <2>1, KeysTyped DEF NextKey
  <2>3. Present(file, NextKey) /\ file[NextLine].id \in 1..lines
    BY <1>2, <2>1 DEF Present, NextKey, Numbered
  <2>4. run.iterations < MaxIterations
    BY <1>1, <1>2, <1>3 DEF AtTask, OutOfLimits, Run
  <2>5. QED
    BY <2>2, <2>3, <2>4
<1>4. CASE Begin
  <2>1. run' \in Run /\ run'.pc = "loop" /\ run'.stop = "none"
    BY <1>1, <1>4 DEF Begin, Run
  <2>2. AtATask' /\ LeftForAReason'
    BY <2>1 DEF AtATask, LeftForAReason, In
  <2>3. QED
    BY <1>1, <2>1, <2>2, RunStep
<1>5. CASE BeginFails \/ Throws
  <2>1. run' \in Run /\ run'.pc = "threw" /\ run'.stop = "none"
    BY <1>5, FreshTyped DEF BeginFails, Throws, Threw, Fresh
  <2>2. AtATask' /\ LeftForAReason'
    BY <2>1 DEF AtATask, LeftForAReason, In
  <2>3. QED
    BY <1>1, <2>1, <2>2, RunStep
<1>6. CASE LoopEnds
  <2>1. /\ run' = [run EXCEPT !.pc = "end"]
        /\ run' \in Run /\ run'.pc = "end" /\ run'.stop = "none"
    BY <1>1, <1>6 DEF LoopEnds, Run
  <2>2. AtATask'
    BY <2>1 DEF AtATask, In
  <2>3. config.skipOnFail => OutOfLimits \/ Pending(file, run.skipped) = {}
    BY <1>2, <1>6, RunnableProgress DEF LoopEnds
  <2>4. run'.skipped = run.skipped /\ OutOfLimits' = OutOfLimits
    BY <1>1, <2>1 DEF OutOfLimits, Run
  <2>5. Pending(file', run'.skipped) = Pending(file, run.skipped)
    BY <1>1, <2>4 DEF ghosts
  <2>6. LeftForAReason'
    BY <1>1, <2>3, <2>4, <2>5 DEF LeftForAReason
  <2>7. QED
    BY <1>1, <2>1, <2>2, <2>6, RunStep
<1>7. CASE Skip
  <2>1. NextKey \in Key /\ run.skipped \cup {NextKey} \in SUBSET Key
    BY <1>1, <1>3, <1>7 DEF Skip, Run
  <2>2. Retries(NextKey) + 1 \in Nat
    BY <1>1, <2>1, RetriesTyped
  <2>3. /\ Retries(NextKey) + 1 \in Nat
        /\ WithRetries(NextKey, Retries(NextKey) + 1) \in UNION {[K -> Nat] : K \in SUBSET Key}
    BY <1>1, <2>1, <2>2, RetriesTyped
  <2>4. run' \in Run /\ run'.pc = "loop" /\ run'.stop = "none"
    BY <1>1, <1>7, <2>1, <2>3 DEF Skip, AtTask, In, Run
  <2>5. AtATask' /\ LeftForAReason'
    BY <2>4 DEF AtATask, LeftForAReason, In
  <2>6. QED
    BY <1>1, <2>4, <2>5, RunStep
<1>8. CASE StartTask
  <2>1. /\ NextKey \in Key /\ Present(file, NextKey) /\ file[NextLine].id \in 1..lines
        /\ run.iterations < MaxIterations
    BY <1>3, <1>8 DEF StartTask
  <2>2. /\ run' \in Run /\ run'.pc = "ask" /\ run'.stop = "none"
        /\ run'.key = NextKey /\ run'.id = file[NextLine].id
        /\ run'.iterations = run.iterations
    <3>1. run' = [run EXCEPT !.pc = "ask", !.key = NextKey, !.id = file[NextLine].id,
                             !.cancelled = FALSE, !.recovered = FALSE]
      BY <1>8 DEF StartTask
    <3>2. file[NextLine].id \in Nat
      BY <1>2, <2>1
    <3>3. QED
      BY <1>1, <2>1, <3>1, <3>2 DEF Run
  <2>3. Present(file', run'.key)
    BY <1>1, <2>1, <2>2
  <2>4. AtATask' /\ LeftForAReason'
    BY <1>1, <2>1, <2>2, <2>3 DEF AtATask, LeftForAReason, In, ghosts
  <2>5. QED
    BY <1>1, <2>2, <2>4, RunStep
<1>9. QED
  BY <1>4, <1>5, <1>6, <1>7, <1>8

\* What holds while a task is attempted.
LEMMA Attempt ==
  ASSUME IInv, In({"ask", "commit"})
  PROVE  /\ Types /\ run \in Run /\ run.stop = "none"
         /\ run.key \in Key /\ run.id \in 1..lines
         /\ run.iterations < MaxIterations /\ run.cancelled \in BOOLEAN
         /\ Retries(run.key) \in Nat /\ Retries(run.key) + 1 \in Nat
         /\ lines \in Nat /\ Numbered(file, lines) /\ Numbered(head, lines)
         /\ Numbered(index, lines)
<1>1. Types /\ run \in Run /\ AtATask /\ StopsAtEnd
  BY DEF IInv, Types
<1>2. /\ run.key \in Key /\ run.id \in 1..lines /\ run.iterations < MaxIterations
      /\ run.stop = "none" /\ run.cancelled \in BOOLEAN
  BY <1>1 DEF AtATask, StopsAtEnd, In, Run
<1>3. Retries(run.key) \in Nat
  BY <1>1, <1>2, RetriesTyped
<1>4. QED
  BY <1>1, <1>2, <1>3 DEF Types

LEMMA AttemptInv ==
  ASSUME IInv,
         \/ AskThrows \/ PromptTooBig \/ Recover \/ Blocked
         \/ \E kind \in {"edit", "newfile"} : Work(kind)
         \/ CancelAttempt
  PROVE  IInv'
<1>1. In({"ask", "commit"})
  BY DEF AskThrows, PromptTooBig, Recover, Blocked, Work, CancelAttempt, In
<1>2. /\ Types /\ run \in Run /\ run.stop = "none"
      /\ run.key \in Key /\ run.id \in 1..lines
      /\ run.iterations < MaxIterations /\ run.cancelled \in BOOLEAN
      /\ Retries(run.key) \in Nat /\ Retries(run.key) + 1 \in Nat /\ MaxRetries \in Nat
  BY <1>1, Attempt, AntonAssumption
<1>3. CASE AskThrows
  BY <1>1, <1>2, <1>3, RecordStep DEF AskThrows
<1>4. CASE PromptTooBig
  BY <1>1, <1>2, <1>4, RecordStep DEF PromptTooBig
<1>5. CASE Blocked
  BY <1>1, <1>2, <1>5, RecordStep DEF Blocked
<1>6. CASE Recover \/ CancelAttempt
  <2>1. UNCHANGED <<config, file, git, ghosts>>
    BY <1>6 DEF Recover, CancelAttempt
  <2>2. /\ run' \in Run /\ run'.pc = run.pc /\ run'.stop = "none" /\ run'.key = run.key
        /\ run'.id = run.id /\ run'.iterations = run.iterations
    BY <1>2, <1>6 DEF Recover, CancelAttempt, Run
  <2>3. AtATask'
    BY <1>1, <2>1, <2>2 DEF IInv, AtATask, In, Present, ghosts
  <2>4. LeftForAReason'
    BY <1>1, <2>2 DEF LeftForAReason, In
  <2>5. QED
    BY <2>1, <2>2, <2>3, <2>4, RunStep
<1>7. ASSUME NEW kind \in {"edit", "newfile"}, Work(kind) PROVE IInv'
  <2>1. UNCHANGED <<config, file, head, index, staged, place, run, runs, ghosts>>
    BY <1>7 DEF Work
  <2>2. edits' \subseteq 1..lines /\ newfiles' \in BOOLEAN
    BY <1>2, <1>7 DEF Work, Types
  <2>3. Types'
    BY <1>2, <2>1, <2>2 DEF Types, ghosts
  <2>4. AtATask' /\ LeftForAReason' /\ StopsAtEnd' /\ NothingLeftBehind'
    BY <1>1, <2>1 DEF IInv, AtATask, LeftForAReason, StopsAtEnd, NothingLeftBehind, In,
                      Present, ghosts
  <2>5. QED
    BY <2>3, <2>4 DEF IInv
<1>8. QED
  BY <1>3, <1>4, <1>5, <1>6, <1>7

LEMMA DecomposeInv ==
  ASSUME IInv, NEW items \in Subtasks, Decompose(items)
  PROVE  IInv'
<1>1. In({"ask"}) /\ In({"ask", "commit"})
  BY DEF Decompose, In
<1>2. /\ Types /\ run.stop = "none" /\ run.key \in Key
      /\ run.iterations < MaxIterations /\ Retries(run.key) + 1 \in Nat
      /\ lines \in Nat /\ Numbered(file, lines) /\ Numbered(head, lines)
      /\ Numbered(index, lines)
  BY <1>1, Attempt
<1>3. items \in Seq(Texts) /\ Len(items) \in Nat
  BY AntonAssumption
<1>4. Present(file, run.key)
  BY <1>1 DEF IInv, AtATask, In
<1>5. /\ lines' = lines + Len(items)
      /\ file' = WithSubtasks(file, run.key, items, lines)
      /\ UNCHANGED <<config, head, index, staged, place, edits, newfiles, passed, undone>>
      /\ Recorded(FALSE, 1, Retries(run.key) + 1) /\ alike' = (alike \/ Alike(file'))
  BY DEF Decompose, git
<1>6. /\ lines' \in Nat /\ lines <= lines'
      /\ Numbered(file', lines') /\ Numbered(head', lines') /\ Numbered(index', lines')
  <2>1. lines' \in Nat /\ lines <= lines'
    BY <1>2, <1>3, <1>5
  <2>2. Numbered(file', lines')
    BY <1>2, <1>3, <1>4, <1>5, SubtasksNumbered
  <2>3. Numbered(head', lines') /\ Numbered(index', lines')
    BY <1>2, <1>5, <2>1, NumberedLater
  <2>4. QED
    BY <2>1, <2>2, <2>3
<1>7. run' \in Run /\ AtATask' /\ LeftForAReason' /\ StopsAtEnd' /\ NothingLeftBehind'
  BY <1>2, <1>5, RecordedKeeps
<1>8. passed' \cup undone' \cup edits' \subseteq 1..lines'
  <2>1. passed \cup undone \cup edits \subseteq 1..lines /\ 1..lines \subseteq 1..lines'
    BY <1>2, <1>6 DEF Types
  <2>2. QED
    BY <1>5, <2>1
<1>9. Types'
  BY <1>2, <1>5, <1>6, <1>7, <1>8 DEF Types, Alike
<1>10. QED
  BY <1>7, <1>9 DEF IInv

LEMMA FailedInv ==
  ASSUME IInv, Failed
  PROVE  IInv'
<1>1. In({"ask", "commit"})
  BY DEF Failed, In
<1>2. /\ Types /\ run.stop = "none" /\ run.key \in Key /\ run.id \in 1..lines
      /\ run.iterations < MaxIterations /\ run.cancelled \in BOOLEAN
      /\ Retries(run.key) + 1 \in Nat
      /\ lines \in Nat /\ Numbered(file, lines) /\ Numbered(head, lines)
      /\ Numbered(index, lines)
  BY <1>1, Attempt
<1>3. /\ file' \in {file, index}
      /\ undone' \subseteq undone \cup passed /\ passed' = passed \ {run.id}
      /\ UNCHANGED <<config, head, index, staged, lines, alike>>
      /\ edits' \subseteq edits /\ newfiles' \in BOOLEAN /\ place' \in Places
      /\ \/ Recorded(TRUE, 1, Retries(run.key) + 1)
         \/ Recorded(~run.cancelled, 0, Retries(run.key) + 1)
  BY <1>2 DEF Failed, RolledBack, Types, Places
<1>4. Numbered(file', lines') /\ Numbered(head', lines') /\ Numbered(index', lines')
  BY <1>2, <1>3
<1>5. run' \in Run /\ AtATask' /\ LeftForAReason' /\ StopsAtEnd' /\ NothingLeftBehind'
  BY <1>2, <1>3, RecordedKeeps
<1>6. Types'
  BY <1>2, <1>3, <1>4, <1>5 DEF Types
<1>7. QED
  BY <1>5, <1>6 DEF IInv

LEMMA PassedInv ==
  ASSUME IInv, Passed \/ Commit \/ CommitFails
  PROVE  IInv'
<1>1. In({"ask", "commit"})
  BY DEF Passed, Commit, CommitFails, In
<1>2. /\ Types /\ run \in Run /\ run.stop = "none" /\ run.key \in Key /\ run.id \in 1..lines
      /\ run.iterations < MaxIterations /\ Retries(run.key) \in Nat
      /\ lines \in Nat /\ Numbered(file, lines) /\ Numbered(head, lines)
      /\ Numbered(index, lines) /\ run.cancelled \in BOOLEAN /\ Retries(run.key) + 1 \in Nat
  BY <1>1, Attempt
<1>3. Numbered(Ticked(file, run.key), lines)
  BY <1>2, TickedNumbered
<1>4. CASE Passed
  <2>1. /\ file' = Ticked(file, run.key)
        /\ passed' = passed \cup {run.id}
        /\ undone' = undone \ {run.id}
        /\ UNCHANGED <<config, git, lines, alike>>
        /\ \/ run' = [run EXCEPT !.pc = "commit"]
           \/ Recorded(FALSE, 1, Retries(run.key))
    BY <1>4 DEF Passed
  <2>2. ASSUME run' \in Run PROVE Types'
    BY <1>2, <1>3, <2>1, <2>2 DEF Types, git
  <2>3. CASE run' = [run EXCEPT !.pc = "commit"]
    <3>1. /\ run' \in Run /\ run'.pc = "commit" /\ run'.stop = "none" /\ run'.key = run.key
          /\ run'.id = run.id /\ run'.iterations = run.iterations
      BY <1>2, <2>3 DEF Run
    <3>2. AtATask' /\ LeftForAReason' /\ StopsAtEnd' /\ NothingLeftBehind'
      BY <1>2, <2>1, <3>1 DEF AtATask, LeftForAReason, StopsAtEnd, NothingLeftBehind, In
    <3>3. QED
      BY <2>2, <3>1, <3>2 DEF IInv
  <2>4. CASE Recorded(FALSE, 1, Retries(run.key))
    <3>1. /\ run' \in Run /\ AtATask' /\ LeftForAReason' /\ StopsAtEnd'
          /\ NothingLeftBehind'
      BY <1>2, <2>1, <2>4, RecordedKeeps
    <3>2. QED
      BY <2>2, <3>1 DEF IInv
  <2>5. QED
    BY <2>1, <2>3, <2>4
<1>5. CASE Commit \/ CommitFails
  <2>1. /\ {head', index'} \subseteq {file, head, index} /\ place' \in Places
        /\ edits' \subseteq edits /\ {newfiles', staged'} \subseteq BOOLEAN
        /\ UNCHANGED <<config, file, lines, passed, undone, alike>>
        /\ \/ Recorded(FALSE, 1, Retries(run.key))
           \/ Recorded(~run.cancelled, 0, Retries(run.key) + 1)
    <3>1. CASE Commit
      BY <1>2, <3>1 DEF Commit, AddAll, Types, Places, ghosts
    <3>2. CASE CommitFails
      BY <1>2, <3>2 DEF CommitFails, AddAll, Types, Places, ghosts, git
    <3>3. QED
      BY <1>5, <3>1, <3>2
  <2>2. run' \in Run /\ AtATask' /\ LeftForAReason' /\ StopsAtEnd' /\ NothingLeftBehind'
    BY <1>2, <2>1, RecordedKeeps
  <2>3. Types'
    BY <1>2, <2>1, <2>2 DEF Types
  <2>4. QED
    BY <2>2, <2>3 DEF IInv
<1>6. QED
  BY <1>4, <1>5

\* The reason for which a run stops is read off where the loop left it.
LEMMA ReturnInv ==
  ASSUME IInv, Return
  PROVE  IInv'
<1>1. /\ Types /\ run \in Run /\ LeftForAReason /\ run.pc = "end"
      /\ run' = [run EXCEPT !.pc = "done", !.stop = Reason]
      /\ UNCHANGED <<config, file, git, ghosts>>
  BY DEF IInv, Types, Return, In
<1>2. Reason \in {"abort", "max_iterations", "budget", "max_tasks_exceeded",
                   "fatal_error", "all_done"}
  BY DEF Reason
<1>3. /\ run' \in Run /\ run'.pc = "done" /\ run'.stop = Reason
      /\ run'.skipped = run.skipped
  BY <1>1, <1>2 DEF Run, Ended
<1>4. AtATask' /\ LeftForAReason' /\ StopsAtEnd'
  BY <1>3 DEF AtATask, LeftForAReason, StopsAtEnd, In
<1>5. ASSUME Reason = "all_done", config.skipOnFail
      PROVE  Pending(file, run.skipped) = {}
  <2>1. ~OutOfLimits
    BY <1>1, <1>5, AntonAssumption DEF Reason, OutOfLimits, Run
  <2>2. QED
    BY <1>1, <1>5, <2>1 DEF LeftForAReason
<1>6. Pending(file', run'.skipped) = Pending(file, run.skipped)
  BY <1>1, <1>3
<1>7. NothingLeftBehind'
  BY <1>1, <1>3, <1>5, <1>6 DEF NothingLeftBehind
<1>8. Types'
  BY <1>1, <1>3 DEF Types, ghosts, git
<1>9. QED
  BY <1>4, <1>7, <1>8 DEF IInv

LEMMA EnvironmentInv ==
  ASSUME IInv, Stop \/ Spend \/ Crash \/ Again
  PROVE  IInv'
<1>1. /\ run \in Run /\ StopsAtEnd /\ AtATask /\ LeftForAReason
      /\ UNCHANGED <<config, file, git, ghosts>>
  BY DEF IInv, Types, Stop, Spend, Crash, Again
<1>2. CASE Stop \/ Spend
  <2>1. /\ run.stop = "none" /\ run' \in Run /\ run'.stop = "none" /\ run'.pc = run.pc
        /\ run'.key = run.key /\ run'.id = run.id /\ run'.iterations = run.iterations
        /\ run'.skipped = run.skipped
        /\ (run.aborted => run'.aborted) /\ (run.spent => run'.spent)
    BY <1>1, <1>2 DEF Stop, Spend, StopsAtEnd, In, Ended, Run
  <2>2. Present(file', run'.key) <=> Present(file, run.key)
    BY <1>1, <2>1 DEF Present
  <2>3. Pending(file', run'.skipped) = Pending(file, run.skipped)
    BY <1>1, <2>1
  <2>4. AtATask'
    BY <1>1, <2>1, <2>2 DEF AtATask, In, ghosts
  <2>5. OutOfLimits => OutOfLimits'
    BY <1>1, <2>1 DEF OutOfLimits
  <2>6. LeftForAReason'
    BY <1>1, <2>1, <2>3, <2>5 DEF LeftForAReason
  <2>7. QED
    BY <1>1, <2>1, <2>4, <2>6, RunStep
<1>3. CASE Crash \/ Again
  <2>1. run' \in Run /\ run'.stop = "none" /\ run'.pc \in {"start", "threw"}
    <3>1. Fresh.stop = "none" /\ Fresh.pc = "start" /\ Threw.stop = "none" /\ Threw.pc = "threw"
      BY DEF Fresh, Threw
    <3>2. QED
      BY <1>3, <3>1, FreshTyped DEF Crash, Again
  <2>2. AtATask' /\ LeftForAReason'
    BY <2>1 DEF AtATask, LeftForAReason, In
  <2>3. QED
    BY <1>1, <2>1, <2>2, RunStep
<1>4. QED
  BY <1>2, <1>3

LEMMA NextInv == IInv /\ [Next]_vars => IInv'
<1> SUFFICES ASSUME IInv, [Next]_vars PROVE IInv'
  OBVIOUS
<1>1. CASE Begin \/ BeginFails \/ LoopEnds \/ Skip \/ StartTask \/ Throws
  BY <1>1, LoopInv
<1>2. CASE \/ AskThrows \/ PromptTooBig \/ Recover \/ Blocked
           \/ \E kind \in {"edit", "newfile"} : Work(kind)
           \/ CancelAttempt
  BY <1>2, AttemptInv
<1>3. ASSUME NEW items \in Subtasks, Decompose(items) PROVE IInv'
  BY <1>3, DecomposeInv
<1>4. CASE Failed
  BY <1>4, FailedInv
<1>5. CASE Passed \/ Commit \/ CommitFails
  BY <1>5, PassedInv
<1>6. CASE Return
  BY <1>6, ReturnInv
<1>7. CASE Stop \/ Spend \/ Crash \/ Again
  BY <1>7, EnvironmentInv
<1>8. CASE UNCHANGED vars
  BY <1>8 DEF vars, ghosts, git, IInv, Types, AtATask, LeftForAReason, StopsAtEnd,
              NothingLeftBehind, OutOfLimits, Present, In
<1>9. QED
  BY <1>1, <1>2, <1>3, <1>4, <1>5, <1>6, <1>7, <1>8 DEF Next, Step, Environment

\* The inductive invariant, in every behaviour.
THEOREM RunInvariant == Spec => []IInv
BY InitInv, NextInv, PTL DEF Spec

\* The variables of a run keep their types: the counter of attempts stays within its
\* limit, the keys it holds are keys of tasks.
THEOREM RunTypes == Spec => []TypeOK
<1>1. IInv => TypeOK
  <2>1. ASSUME IInv PROVE TypeOK
    <3>1. Types /\ AtATask /\ run \in Run
      BY <2>1 DEF IInv, Types
    <3>2. IsWorklist(file) /\ IsWorklist(head) /\ IsWorklist(index)
      BY <3>1 DEF Types, Numbered, IsWorklist
    <3>3. {file[i].id : i \in DOMAIN file} \cup passed \cup undone \cup edits \subseteq 1..lines
      BY <3>1 DEF Types, Numbered
    <3>4. In({"ask", "commit"}) => run.key \in Key
      BY <3>1 DEF AtATask
    <3>5. QED
      BY <3>1, <3>2, <3>3, <3>4 DEF TypeOK, Types, Places, Run
  <2>2. QED
    BY <2>1
<1>2. QED
  BY <1>1, RunInvariant, PTL

\* However tasks nest, share texts, are decomposed, fail and are given up: a run that may
\* skip tasks and stops with "all_done" has no task left that it never decided on.
THEOREM NothingIsLeftBehind == Spec => []NothingLeftBehind
<1>1. IInv => NothingLeftBehind
  BY DEF IInv
<1>2. QED
  BY <1>1, RunInvariant, PTL

-----------------------------------------------------------------------------
(* What is ticked *)

\* c are the lines ticked after 0, 1, ..., n turns of autoCompleteAncestors.
IsClimb(c, f, k, n) ==
  c = [m \in 0..n |-> IF m = 0 THEN {First(f, k)} ELSE Climbed(f, c[m - 1])]

LEMMA ClimbStarts ==
  ASSUME NEW f, NEW k
  PROVE  \E c : IsClimb(c, f, k, 0)
<1> DEFINE c == [m \in 0..0 |-> {First(f, k)}]
<1>1. c = [m \in 0..0 |-> IF m = 0 THEN {First(f, k)} ELSE Climbed(f, c[m - 1])]
  <2>1. \A m \in 0..0 : m = 0
    OBVIOUS
  <2> QED BY <2>1
<1> QED BY <1>1 DEF IsClimb

LEMMA ClimbGoesOn ==
  ASSUME NEW f, NEW k, NEW n \in Nat, NEW c, IsClimb(c, f, k, n)
  PROVE  \E d : IsClimb(d, f, k, n + 1)
<1> DEFINE d == [m \in 0..(n + 1) |-> IF m = 0 THEN {First(f, k)} ELSE Climbed(f, c[m - 1])]
<1>1. ASSUME NEW m \in 0..n PROVE d[m] = c[m]
  <2>1. c[m] = IF m = 0 THEN {First(f, k)} ELSE Climbed(f, c[m - 1])
    BY DEF IsClimb
  <2>2. m \in 0..(n + 1)
    OBVIOUS
  <2> QED BY <2>1, <2>2
<1>2. ASSUME NEW m \in 0..(n + 1), m # 0 PROVE d[m] = Climbed(f, d[m - 1])
  <2>1. m - 1 \in 0..n
    BY <1>2
  <2>2. d[m - 1] = c[m - 1]
    BY <1>1, <2>1
  <2> QED BY <1>2, <2>2
<1>3. d[0] = {First(f, k)} /\ DOMAIN d = 0..(n + 1)
  OBVIOUS
<1>4. d = [m \in 0..(n + 1) |-> IF m = 0 THEN {First(f, k)} ELSE Climbed(f, d[m - 1])]
  <2>1. d = [m \in 0..(n + 1) |-> d[m]]
    OBVIOUS
  <2> HIDE DEF d
  <2> QED BY <1>2, <1>3, <2>1
<1> QED BY <1>4 DEF IsClimb

LEMMA ClimbIs ==
  ASSUME NEW f, NEW k, NEW n \in Nat
  PROVE  \E c : IsClimb(c, f, k, n)
<1> DEFINE S == {m \in Nat : ~\E c : IsClimb(c, f, k, m)}
<1> SUFFICES ASSUME S # {} PROVE FALSE
  OBVIOUS
<1>1. S \in SUBSET Nat
  OBVIOUS
<1>2. PICK i \in S : \A j \in S : i <= j
  BY <1>1, FirstLine
<1>3. i # 0
  BY ClimbStarts
<1>4. i - 1 \in Nat /\ i - 1 \notin S /\ (i - 1) + 1 = i
  BY <1>1, <1>2, <1>3
<1>5. \E c : IsClimb(c, f, k, i - 1)
  BY <1>4
<1>6. \E c : IsClimb(c, f, k, i)
  BY <1>4, <1>5, ClimbGoesOn
<1> QED BY <1>6

LEMMA TickedByClimb ==
  ASSUME NEW f \in Seq(Line), NEW k
  PROVE  \E c : IsClimb(c, f, k, Len(f)) /\ Ticked(f, k) = WithTicks(f, c[Len(f)])
<1> DEFINE climb[n \in 0..Len(f)] == IF n = 0 THEN {First(f, k)} ELSE Climbed(f, climb[n - 1])
<1>1. Ticked(f, k) = WithTicks(f, climb[Len(f)])
  BY DEF Ticked
<1>2. IsClimb(climb, f, k, Len(f))
  <2>1. \E c : IsClimb(c, f, k, Len(f))
    <3>1. Len(f) \in Nat
      OBVIOUS
    <3> QED BY <3>1, ClimbIs
  <2>2. climb = CHOOSE c : IsClimb(c, f, k, Len(f))
    BY DEF IsClimb
  <2> HIDE DEF climb
  <2> QED BY <2>1, <2>2
<1> HIDE DEF climb
<1> QED BY <1>1, <1>2

\* The lines T are ticked with the first of key k: each of the others had a child line, and
\* all the children of it are ticked.
Earned(f, k, T) ==
  /\ First(f, k) \in T /\ T \subseteq DOMAIN f
  /\ \A i \in T : i # First(f, k) =>
       /\ \E p, c \in DOMAIN f : p \in Parents(f, c) /\ i = First(f, Keys(f)[p])
       /\ \A c \in Children(f, i) : f[c].checked \/ c \in T

\* Ticking changes nothing of a line but its box.
LEMMA TicksAre ==
  ASSUME NEW f \in Seq(Line), NEW T
  PROVE  /\ DOMAIN WithTicks(f, T) = DOMAIN f /\ DOMAIN f = 1..Len(f) /\ Len(f) \in Nat
         /\ \A i \in DOMAIN f :
              /\ WithTicks(f, T)[i].text = f[i].text
              /\ WithTicks(f, T)[i].depth = f[i].depth /\ WithTicks(f, T)[i].id = f[i].id
              /\ WithTicks(f, T)[i].checked <=> f[i].checked \/ i \in T
<1>1. DOMAIN WithTicks(f, T) = DOMAIN f /\ DOMAIN f = 1..Len(f) /\ Len(f) \in Nat
  BY DEF WithTicks
<1>2. ASSUME NEW i \in DOMAIN f
      PROVE  /\ WithTicks(f, T)[i].text = f[i].text
             /\ WithTicks(f, T)[i].depth = f[i].depth /\ WithTicks(f, T)[i].id = f[i].id
             /\ WithTicks(f, T)[i].checked <=> f[i].checked \/ i \in T
  <2>1. f[i] \in Line
    OBVIOUS
  <2>2. WithTicks(f, T)[i] = [f[i] EXCEPT !.checked = @ \/ i \in T]
    BY DEF WithTicks
  <2>3. f[i] = [text |-> f[i].text, depth |-> f[i].depth, checked |-> f[i].checked, id |-> f[i].id]
        /\ f[i].checked \in BOOLEAN
    BY <2>1 DEF Line
  <2> QED BY <2>2, <2>3
<1> QED BY <1>1, <1>2

\* Lines that are indented alike have the same children.
LEMMA SameChildren ==
  ASSUME NEW f, NEW g, DOMAIN g = DOMAIN f, DOMAIN f \subseteq Nat, NEW L \in Nat, DOMAIN f = 1..L,
         \A i \in DOMAIN f : g[i].depth = f[i].depth, NEW i \in DOMAIN f
  PROVE  Parents(g, i) = Parents(f, i) /\ Children(g, i) = Children(f, i)
<1>1. ASSUME NEW c \in DOMAIN f PROVE Parents(g, c) = Parents(f, c)
  <2>1. \A j \in 1..(c - 1) : j \in DOMAIN f /\ \A m \in (j + 1)..(c - 1) : m \in DOMAIN f
    OBVIOUS
  <2>2. \A j \in 1..(c - 1) :
           (g[j].depth < g[c].depth <=> f[j].depth < f[c].depth)
           /\ \A m \in (j + 1)..(c - 1) : g[m].depth >= g[c].depth <=> f[m].depth >= f[c].depth
    BY <2>1
  <2> QED BY <2>2 DEF Parents
<1> QED BY <1>1 DEF Children

\* Lines that say the same, indented alike, have the same keys.
LEMMA SameKeys ==
  ASSUME NEW f, NEW g, DOMAIN g = DOMAIN f, DOMAIN f \subseteq Nat, NEW L \in Nat, DOMAIN f = 1..L,
         \A i \in DOMAIN f : g[i].depth = f[i].depth /\ g[i].text = f[i].text
  PROVE  Keys(g) = Keys(f)
<1>1. \A i \in DOMAIN f : Parents(g, i) = Parents(f, i)
  BY SameChildren
<1>2. ASSUME NEW key, NEW i \in DOMAIN f PROVE KeyOf(g, key, i) = KeyOf(f, key, i)
  <2>1. \A j \in 1..(i - 1) : j \in DOMAIN f
    OBVIOUS
  <2>2. Twins(g, key, i) = Twins(f, key, i)
    BY <1>1, <2>1 DEF Twins
  <2> QED BY <2>2 DEF KeyOf
<1>3. ASSUME NEW key
      PROVE  [i \in DOMAIN g |-> KeyOf(g, key, i)] = [i \in DOMAIN f |-> KeyOf(f, key, i)]
  BY <1>2
<1> DEFINE kf == CHOOSE key : key = [i \in DOMAIN f |-> KeyOf(f, key, i)]
           kg == CHOOSE key : key = [i \in DOMAIN g |-> KeyOf(g, key, i)]
<1>4. kg = kf
  BY <1>3
<1>5. /\ Keys(f) = [i \in DOMAIN f |-> KeyOf(f, kf, i)]
      /\ Keys(g) = [i \in DOMAIN g |-> KeyOf(g, kg, i)]
  BY DEF Keys
<1> HIDE DEF kf, kg
<1> QED BY <1>2, <1>4, <1>5

LEMMA ClimbedEarned ==
  ASSUME NEW f \in Seq(Line), NEW k, NEW T, Earned(f, k, T)
  PROVE  Earned(f, k, Climbed(f, T))
<1> DEFINE g   == WithTicks(f, T)
           top == CHOOSE i \in T : \A j \in T : i <= j
           Q   == {q \in {First(f, Keys(f)[p]) : p \in Parents(f, top)} :
                     ~g[q].checked /\ Completes(g, q)}
<1>1. Climbed(f, T) = T \cup Q
  BY DEF Climbed
<1>2. T \subseteq DOMAIN f /\ T # {} /\ T \in SUBSET Nat /\ DOMAIN f = 1..Len(f) /\ Len(f) \in Nat
  BY DEF Earned
<1>3. top \in T /\ top \in DOMAIN f
  BY <1>2, FirstLine
<1> HIDE DEF top
<1>4. ASSUME NEW q \in Q
      PROVE  /\ q \in DOMAIN f
             /\ \E p, c \in DOMAIN f : p \in Parents(f, c) /\ q = First(f, Keys(f)[p])
             /\ \A c \in Children(f, q) : f[c].checked \/ c \in T
  <2>1. PICK p \in Parents(f, top) : q = First(f, Keys(f)[p])
    OBVIOUS
  <2>2. p \in DOMAIN f
    BY <1>2, <1>3 DEF Parents
  <2>3. q \in DOMAIN f
    BY <2>1, <2>2, FirstIsFirst DEF Present
  <2>4. Completes(g, q)
    OBVIOUS
  <2>5. Children(g, q) = Children(f, q)
    BY <1>2, <2>3, TicksAre, SameChildren
  <2>6. \A c \in Children(f, q) : c \in DOMAIN f /\ g[c].checked
    BY <2>4, <2>5 DEF Completes, Children
  <2>7. \A c \in Children(f, q) : f[c].checked \/ c \in T
    BY <2>6, TicksAre
  <2> QED BY <1>3, <2>1, <2>2, <2>3, <2>7
<1> HIDE DEF Q
<1> QED BY <1>1, <1>4 DEF Earned

LEMMA ClimbEarned ==
  ASSUME NEW f \in Seq(Line), NEW k, Present(f, k), NEW n \in Nat, NEW c, IsClimb(c, f, k, n)
  PROVE  Earned(f, k, c[n])
<1> DEFINE S == {m \in 0..n : ~Earned(f, k, c[m])}
<1> SUFFICES ASSUME S # {} PROVE FALSE
  BY DEF S
<1>1. S \in SUBSET Nat
  OBVIOUS
<1>2. PICK i \in S : \A j \in S : i <= j
  BY <1>1, FirstLine
<1>3. i \in 0..n /\ c[i] = IF i = 0 THEN {First(f, k)} ELSE Climbed(f, c[i - 1])
  BY DEF IsClimb
<1>4. i # 0
  BY <1>3, FirstIsFirst DEF Earned
<1>5. i - 1 \in 0..n /\ i - 1 \notin S
  BY <1>1, <1>2, <1>3, <1>4
<1>6. Earned(f, k, c[i - 1])
  BY <1>5
<1> QED BY <1>3, <1>4, <1>6, ClimbedEarned

\* What markTaskChecked and autoCompleteAncestors tick: the first line with the key, and
\* lines with children that are all ticked then, or that are taken for such a line.
LEMMA TickedEarned ==
  ASSUME NEW f \in Seq(Line), NEW k, Present(f, k)
  PROVE  /\ Ticked(f, k) \in Seq(Line) /\ DOMAIN Ticked(f, k) = DOMAIN f
         /\ Keys(Ticked(f, k)) = Keys(f)
         /\ \A i \in DOMAIN f : /\ Ticked(f, k)[i].id = f[i].id
                                /\ Children(Ticked(f, k), i) = Children(f, i)
                                /\ f[i].checked => Ticked(f, k)[i].checked
         /\ \A i \in DOMAIN f :
              ~f[i].checked /\ Ticked(f, k)[i].checked =>
                \/ i = First(f, k)
                \/ Children(f, i) # {} /\ \A c \in Children(f, i) : Ticked(f, k)[c].checked
                \/ \E j \in DOMAIN f \ {i} : Keys(f)[j] = Keys(f)[i]
<1>1. PICK c : IsClimb(c, f, k, Len(f)) /\ Ticked(f, k) = WithTicks(f, c[Len(f)])
  BY TickedByClimb
<1> DEFINE T == c[Len(f)]
           g == WithTicks(f, T)
<1>2. Len(f) \in Nat /\ DOMAIN f = 1..Len(f)
  OBVIOUS
<1>3. Earned(f, k, T)
  BY <1>1, <1>2, ClimbEarned
<1> HIDE DEF T
<1>4. /\ DOMAIN g = DOMAIN f
      /\ \A i \in DOMAIN f : g[i].depth = f[i].depth /\ g[i].id = f[i].id
                             /\ (g[i].checked <=> f[i].checked \/ i \in T)
  BY TicksAre
<1>5. \A i \in DOMAIN f : Children(g, i) = Children(f, i)
  BY <1>2, <1>4, SameChildren
<1>6. ASSUME NEW i \in DOMAIN f, ~f[i].checked, g[i].checked, i # First(f, k),
             \A j \in DOMAIN f \ {i} : Keys(f)[j] # Keys(f)[i]
      PROVE  Children(f, i) # {} /\ \A d \in Children(f, i) : g[d].checked
  <2>1. i \in T
    BY <1>4, <1>6
  <2>2. PICK p \in DOMAIN f, d \in DOMAIN f : p \in Parents(f, d) /\ i = First(f, Keys(f)[p])
    BY <1>3, <1>6, <2>1 DEF Earned
  <2>3. Keys(f)[i] = Keys(f)[p]
    BY <2>2, FirstIsFirst DEF Present
  <2>4. p = i
    BY <1>6, <2>2, <2>3
  <2>5. d \in Children(f, i)
    BY <2>2, <2>4 DEF Children
  <2>6. \A e \in Children(f, i) : e \in DOMAIN f /\ (f[e].checked \/ e \in T)
    BY <1>3, <1>6, <2>1 DEF Earned, Children
  <2> QED BY <1>4, <2>5, <2>6
<1>7. g \in Seq(Line)
  <2>1. \A i \in 1..Len(f) : g[i] \in Line
    <3> TAKE i \in 1..Len(f)
    <3>1. f[i] \in Line /\ g[i] = [f[i] EXCEPT !.checked = @ \/ i \in T]
      BY <1>2 DEF WithTicks
    <3> QED BY <3>1 DEF Line
  <2>2. g = [i \in 1..Len(f) |-> g[i]]
    BY <1>2 DEF WithTicks
  <2> HIDE DEF g
  <2> QED BY <1>2, <2>1, <2>2
<1> HIDE DEF g
<1>8. Ticked(f, k) = g
  BY <1>1 DEF g, T
<1>9. Keys(g) = Keys(f)
  <2>1. \A i \in DOMAIN f : g[i].depth = f[i].depth /\ g[i].text = f[i].text
    BY TicksAre DEF g
  <2> QED BY <1>2, <1>4, <2>1, SameKeys
<1> QED BY <1>4, <1>5, <1>6, <1>7, <1>8, <1>9

\* runnableTasks[0] is the first pending line; the first line of its key is itself, or is
\* ticked.
LEMMA NextIsFirst ==
  ASSUME NEW f \in Seq(Line), NEW skipped, Runnable(f, skipped) # {}
  PROVE  LET n == Next1(f, skipped)
         IN  /\ n \in DOMAIN f /\ ~f[n].checked
             /\ First(f, Keys(f)[n]) = n \/ f[First(f, Keys(f)[n])].checked
<1> DEFINE n == Next1(f, skipped)
<1>1. Runnable(f, skipped) \in SUBSET Nat /\ Pending(f, skipped) \in SUBSET Nat
      /\ Pending(f, skipped) # {}
  BY DEF Runnable, Pending
<1>2. n \in Runnable(f, skipped) /\ \A j \in Runnable(f, skipped) : n <= j
  BY <1>1, FirstLine DEF Next1
<1>3. n \in Pending(f, skipped) /\ n \in DOMAIN f /\ n \in Nat
  BY <1>1, <1>2 DEF Runnable, Pending
<1>4. PICK i \in Pending(f, skipped) : \A j \in Pending(f, skipped) : i <= j
  BY <1>1, FirstLine
<1>5. i \in DOMAIN f /\ i \in Nat /\ DOMAIN f = 1..Len(f)
  BY <1>4 DEF Pending
<1>6. ASSUME NEW p \in Parents(f, i) PROVE First(f, Keys(f)[p]) \notin Pending(f, skipped)
  <2>1. p \in DOMAIN f /\ p \in Nat /\ p < i
    BY <1>5 DEF Parents
  <2>2. First(f, Keys(f)[p]) \in DOMAIN f /\ First(f, Keys(f)[p]) <= p
    BY <2>1, FirstIsFirst DEF Present
  <2> QED BY <1>4, <1>5, <2>1, <2>2
<1>7. i \in Runnable(f, skipped)
  BY <1>4, <1>6 DEF Runnable, Waits
<1>8. \A j \in Pending(f, skipped) : n <= j
  BY <1>1, <1>2, <1>3, <1>4, <1>5, <1>7
<1> HIDE DEF n
<1>9. ASSUME First(f, Keys(f)[n]) # n PROVE f[First(f, Keys(f)[n])].checked
  <2> DEFINE m == First(f, Keys(f)[n])
  <2>1. m \in DOMAIN f /\ m \in Nat /\ Keys(f)[m] = Keys(f)[n] /\ m <= n
    BY <1>3, FirstIsFirst DEF Present
  <2>2. m \notin Pending(f, skipped)
    BY <1>3, <1>8, <1>9, <2>1
  <2> HIDE DEF m
  <2>3. f[m].checked
    BY <1>3, <2>1, <2>2 DEF Pending
  <2> QED BY <2>3 DEF m
<1> QED BY <1>3, <1>9 DEF Pending, n

\* insertSubTasks: the lines after the parent move down, and between are new open lines.
Inserted(f, k, items, n, g) ==
  LET p == First(f, k)
      m == Len(items)
  IN  /\ p \in 1..Len(f) /\ DOMAIN g = 1..(Len(f) + m) /\ Len(g) = Len(f) + m
      /\ \A i \in 1..p : g[i] = f[i]
      /\ \A i \in (p + 1)..Len(f) : g[i + m] = f[i]
      /\ \A i \in 1..m : /\ g[p + i].depth = f[p].depth + 1 /\ ~g[p + i].checked
                         /\ g[p + i].id = n + i

LEMMA SubtaskLines ==
  ASSUME NEW f \in Seq(Line), NEW k, Present(f, k), NEW items \in Seq(Texts), NEW n \in Nat
  PROVE  Inserted(f, k, items, n, WithSubtasks(f, k, items, n))
<1> DEFINE p   == First(f, k)
           m   == Len(items)
           new == [i \in DOMAIN items |->
                     [text |-> items[i], depth |-> f[p].depth + 1, checked |-> FALSE, id |-> n + i]]
           fst == SubSeq(f, 1, p)
           rst == SubSeq(f, p + 1, Len(f))
<1>1. DOMAIN f = 1..Len(f) /\ Len(f) \in Nat /\ m \in Nat /\ DOMAIN items = 1..m
  OBVIOUS
<1>2. p \in 1..Len(f) /\ p \in Nat
  BY <1>1, FirstIsFirst
<1>3. WithSubtasks(f, k, items, n) = (fst \o new) \o rst
  BY DEF WithSubtasks
<1> HIDE DEF p
<1>4. f[p].depth \in Nat
  <2>1. f[p] \in Line
    BY <1>1, <1>2
  <2> QED BY <2>1 DEF Line
<1>5. /\ new \in Seq(Line) /\ Len(new) = m
      /\ \A i \in 1..m : /\ new[i].depth = f[p].depth + 1 /\ ~new[i].checked
                        /\ new[i].id = n + i
  <2>1. \A i \in 1..m : new[i] \in Line
    BY <1>1, <1>4 DEF Line
  <2>2. new \in Seq(Line) /\ Len(new) = m
    BY <1>1, <2>1
  <2> QED BY <1>1, <2>2
<1>6. fst \in Seq(Line) /\ Len(fst) = p /\ \A i \in 1..p : fst[i] = f[i]
  BY <1>1, <1>2
<1>7. rst \in Seq(Line) /\ Len(rst) = Len(f) - p /\ \A i \in 1..(Len(f) - p) : rst[i] = f[p + i]
  <2>1. p + 1 \in Int /\ Len(f) \in Int /\ \A i \in (p + 1)..Len(f) : f[i] \in Line
    BY <1>1, <1>2
  <2>2. /\ rst \in Seq(Line) /\ Len(rst) = IF p + 1 <= Len(f) THEN Len(f) - (p + 1) + 1 ELSE 0
        /\ \A i \in 1..(Len(f) - (p + 1) + 1) : rst[i] = f[p + 1 + i - 1]
    BY <2>1, SubSeqProperties
  <2>3. Len(f) - (p + 1) + 1 = Len(f) - p /\ \A i \in Nat : p + 1 + i - 1 = p + i
    BY <1>1, <1>2
  <2>4. Len(rst) = Len(f) - p
    <3>1. CASE p + 1 <= Len(f)
      BY <2>2, <2>3, <3>1
    <3>2. CASE ~(p + 1 <= Len(f))
      <4>1. Len(f) - p = 0
        <5>1. \A l, q \in Nat : q <= l /\ ~(q + 1 <= l) => l - q = 0
          OBVIOUS
        <5>2. p <= Len(f)
          BY <1>1, <1>2
        <5> QED BY <1>1, <1>2, <3>2, <5>1, <5>2
      <4> QED BY <2>2, <3>2, <4>1
    <3> QED BY <3>1, <3>2
  <2>5. \A i \in 1..(Len(f) - p) : rst[i] = f[p + i]
    BY <2>2, <2>3
  <2> QED BY <2>2, <2>4, <2>5
<1> HIDE DEF new, fst, rst, m
<1> DEFINE top == fst \o new
           g   == top \o rst
<1>8. Len(new) \in Nat /\ Len(fst) \in Nat /\ Len(rst) \in Nat
  BY <1>1, <1>2, <1>5, <1>6, <1>7
<1>9. /\ Len(top) = p + m /\ \A i \in 1..p : top[i] = fst[i]
      /\ \A i \in 1..m : p + i \in 1..(p + m) /\ top[p + i] = new[i]
  <2>1. Len(top) = p + m
    <3>1. Len(top) = Len(fst) + Len(new)
      BY <1>5, <1>6, ConcatProperties DEF top
    <3> QED BY <1>5, <1>6, <3>1
  <2>2. \A i \in 1..p : top[i] = fst[i]
    BY <1>5, <1>6, <1>8 DEF top
  <2>3. ASSUME NEW i \in 1..m PROVE p + i \in 1..(p + m) /\ top[p + i] = new[i]
    <3>1. p + i \in 1..(p + m) /\ p + i > p /\ (p + i) - p = i
      BY <1>1, <1>2
    <3> QED BY <1>1, <1>2, <1>5, <1>6, <3>1
  <2> QED BY <2>1, <2>2, <2>3
<1> HIDE DEF top
<1>10. /\ Len(g) = Len(f) + m /\ \A i \in 1..(p + m) : g[i] = top[i]
       /\ \A i \in (p + 1)..Len(f) : g[i + m] = rst[i - p]
  <2>1. top \in Seq(Line)
    BY <1>5, <1>6 DEF top
  <2>2. Len(g) = Len(f) + m
    <3>1. Len(g) = Len(top) + Len(rst)
      BY <1>7, <2>1, ConcatProperties
    <3>2. p + m + (Len(f) - p) = Len(f) + m
      BY <1>1, <1>2
    <3> QED BY <1>7, <1>9, <3>1, <3>2
  <2>3. \A i \in 1..(p + m) : g[i] = top[i]
    BY <1>1, <1>2, <1>7, <1>9, <2>1
  <2>4. ASSUME NEW i \in (p + 1)..Len(f) PROVE g[i + m] = rst[i - p]
    <3>1. i + m \in 1..(Len(f) + m) /\ i + m > p + m /\ (i + m) - (p + m) = i - p
      BY <1>1, <1>2
    <3> QED BY <1>1, <1>2, <1>7, <1>9, <2>1, <3>1
  <2> QED BY <2>2, <2>3, <2>4
<1>11. g \in Seq(Line)
  BY <1>5, <1>6, <1>7 DEF top
<1>12. DOMAIN g = 1..(Len(f) + m)
  BY <1>10, <1>11
<1> HIDE DEF g
<1>13. \A i \in 1..p : g[i] = f[i]
  BY <1>1, <1>2, <1>6, <1>9, <1>10
<1>14. ASSUME NEW i \in (p + 1)..Len(f) PROVE g[i + m] = f[i]
  <2>1. i - p \in 1..(Len(f) - p) /\ p + (i - p) = i
    BY <1>1, <1>2
  <2> QED BY <1>7, <1>10, <2>1
<1>15. \A i \in 1..m : g[p + i] = new[i]
  BY <1>9, <1>10
<1>16. WithSubtasks(f, k, items, n) = g
  BY <1>3 DEF g, top
<1> QED BY <1>2, <1>5, <1>10, <1>12, <1>13, <1>14, <1>15, <1>16 DEF p, m, Inserted

\* Where line i is when m lines came in after line p.
Moved(i, p, m) == IF i <= p THEN i ELSE i + m

\* Only the line that was decomposed can lose children, to its own new ones.
LEMMA ChildrenStay ==
  ASSUME NEW f \in Seq(Line), NEW k, Present(f, k), NEW items \in Seq(Texts), NEW n \in Nat,
         NEW j \in DOMAIN f, j # First(f, k), Children(f, j) # {}
  PROVE  Children(WithSubtasks(f, k, items, n), Moved(j, First(f, k), Len(items))) # {}
<1> DEFINE p == First(f, k)
           m == Len(items)
           g == WithSubtasks(f, k, items, n)
<1>1. /\ p \in 1..Len(f) /\ DOMAIN g = 1..(Len(f) + m)
      /\ \A i \in 1..p : g[i] = f[i]
      /\ \A i \in (p + 1)..Len(f) : g[i + m] = f[i]
      /\ \A i \in 1..m : g[p + i].depth = f[p].depth + 1
  BY SubtaskLines DEF Inserted
<1>2. Len(f) \in Nat /\ DOMAIN f = 1..Len(f) /\ m \in Nat /\ p \in Nat /\ p # j
  BY <1>1
<1>3. \A i \in DOMAIN f : f[i].depth \in Nat
  <2> TAKE i \in DOMAIN f
  <2>1. f[i] \in Line
    OBVIOUS
  <2> QED BY <2>1 DEF Line
<1>4. PICK c \in DOMAIN f : j \in Parents(f, c)
  BY DEF Children
<1>5. /\ j \in 1..(c - 1) /\ f[j].depth < f[c].depth
      /\ \A q \in (j + 1)..(c - 1) : f[q].depth >= f[c].depth
  BY <1>4 DEF Parents
<1> HIDE DEF p, m, g
<1> DEFINE a == Moved(j, p, m)
           b == Moved(c, p, m)
<1>6. /\ j \in Nat /\ c \in Nat /\ c <= Len(f) /\ j < c /\ p <= Len(f)
      /\ a \in DOMAIN g /\ b \in DOMAIN g /\ a \in 1..(b - 1) /\ a \in Nat /\ b \in Nat
  BY <1>1, <1>2, <1>4, <1>5 DEF Moved
<1>7. \A i \in DOMAIN f : g[Moved(i, p, m)] = f[i]
  BY <1>1, <1>2 DEF Moved
<1>8. ASSUME NEW q \in (a + 1)..(b - 1) PROVE g[q].depth >= f[c].depth
  <2>0. q \in Nat /\ a < q /\ q < b
    BY <1>6
  <2>1. CASE q <= p
    <3>1. q \in (j + 1)..(c - 1) /\ q \in 1..p
      BY <1>2, <1>6, <2>0, <2>1 DEF Moved
    <3> QED BY <1>1, <1>5, <3>1
  <2>2. CASE p < q /\ q <= p + m
    <3>1. q - p \in 1..m /\ p + (q - p) = q
      BY <1>2, <2>0, <2>2
    <3>2. j < p /\ p < c
      BY <1>2, <1>6, <2>0, <2>2 DEF Moved
    <3>3. p \in (j + 1)..(c - 1) /\ p \in DOMAIN f
      BY <1>1, <1>2, <1>6, <3>2
    <3>4. f[p].depth >= f[c].depth /\ g[q].depth = f[p].depth + 1
      BY <1>1, <1>5, <3>1, <3>3
    <3> QED BY <1>3, <1>4, <3>3, <3>4
  <2>3. CASE p + m < q
    <3>1. q - m \in (p + 1)..Len(f) /\ (q - m) + m = q /\ q - m \in (j + 1)..(c - 1)
      BY <1>2, <1>6, <2>0, <2>3 DEF Moved
    <3>2. g[q] = f[q - m]
      BY <1>1, <3>1
    <3> QED BY <1>5, <3>1, <3>2
  <2> QED BY <1>2, <2>0, <2>1, <2>2, <2>3
<1>9. a \in Parents(g, b)
  BY <1>4, <1>5, <1>6, <1>7, <1>8 DEF Parents
<1>10. b \in Children(g, a)
  BY <1>6, <1>9 DEF Children
<1> QED BY <1>10 DEF p, m, g

-----------------------------------------------------------------------------
(* Ticks and work *)

Distinct(f) == \A i, j \in DOMAIN f : f[i].id = f[j].id => i = j

\* An attempt is at a line that is open; the first one of its key is this one or is ticked.
AtOpenLine ==
  In({"ask"}) =>
    \E j \in DOMAIN file :
      /\ run.key = Keys(file)[j] /\ run.id = file[j].id /\ ~file[j].checked
      /\ First(file, run.key) = j \/ file[First(file, run.key)].checked

\* What is staged is behind the work tree: it has no line, and no tick, more.
Behind ==
  /\ Len(index) <= Len(file)
  /\ Len(index) = Len(file) => \A i \in DOMAIN index : index[i].checked => file[i].checked
  /\ \A i \in DOMAIN index : \E j \in DOMAIN file :
        file[j].id = index[i].id /\ (index[i].checked => file[j].checked)

\* The work of what is ticked in the index is staged or committed.
TicksHaveCommits ==
  config.place = "tracked" =>
    /\ place = "tracked"
    /\ \A i \in DOMAIN index : index[i].checked => index[i].id \notin edits
    /\ ~alike => \A i \in DOMAIN index :
                   index[i].checked /\ Children(index, i) = {} => index[i].id \notin undone

WorkInv ==
  /\ Distinct(file) /\ Distinct(index) /\ (~alike => ~Alike(file) /\ ~Alike(index))
  /\ AtOpenLine /\ Behind /\ TicksHaveCommits /\ TicksHaveWork

\* A step that leaves the file, git and the work alone, and begins no attempt.
LEMMA WorkStays ==
  ASSUME WorkInv, UNCHANGED <<config, file, git, ghosts>>, AtOpenLine'
  PROVE  WorkInv'
BY DEF WorkInv, Behind, TicksHaveCommits, TicksHaveWork, ghosts, git, Distinct, Alike

LEMMA WorkStarts == Init => WorkInv
<1> SUFFICES ASSUME Init PROVE WorkInv
  OBVIOUS
<1>1. file \in Lists /\ index = file /\ \A i \in DOMAIN file : file[i].id = i
  BY AntonAssumption DEF Init
<1>2. file \in Seq(Line) /\ Len(file) \in Nat
  BY <1>1, AntonAssumption
<1>3. Distinct(file) /\ Distinct(index) /\ (~alike => ~Alike(file) /\ ~Alike(index))
  BY <1>1 DEF Init, Distinct
<1>4. AtOpenLine
  BY DEF Init, Fresh, AtOpenLine, In
<1>5. Behind
  BY <1>1, <1>2 DEF Behind
<1>6. TicksHaveCommits /\ TicksHaveWork
  BY <1>1 DEF Init, TicksHaveCommits, TicksHaveWork
<1> QED BY <1>3, <1>4, <1>5, <1>6 DEF WorkInv

\* An attempt that is recorded is over.
LEMMA RecordedEnds ==
  ASSUME run \in Run, NEW fails, NEW counts, NEW n, Recorded(fails, counts, n)
  PROVE  AtOpenLine'
<1>1. run'.pc \in {"end", "loop"}
  BY DEF Recorded, Run
<1> QED BY <1>1 DEF AtOpenLine, In

\* Where keys tell lines apart, the attempt is at the first line of its key.
LEMMA AtTheFirst ==
  ASSUME IInv, WorkInv, In({"ask"})
  PROVE  /\ Present(file, run.key) /\ First(file, run.key) \in DOMAIN file
         /\ \E j \in DOMAIN file :
              /\ run.id = file[j].id /\ ~file[j].checked
              /\ First(file, run.key) = j \/ file[First(file, run.key)].checked
              /\ ~alike => First(file, run.key) = j
<1>1. Present(file, run.key) /\ file \in Seq(Line)
  BY DEF IInv, AtATask, Types, Numbered, In
<1>2. First(file, run.key) \in DOMAIN file /\ Keys(file)[First(file, run.key)] = run.key
  BY <1>1, FirstIsFirst
<1>3. PICK j \in DOMAIN file :
        /\ run.key = Keys(file)[j] /\ run.id = file[j].id /\ ~file[j].checked
        /\ First(file, run.key) = j \/ file[First(file, run.key)].checked
  BY DEF WorkInv, AtOpenLine
<1>4. ~alike => First(file, run.key) = j
  BY <1>2, <1>3 DEF WorkInv, Alike
<1> QED BY <1>1, <1>2, <1>3, <1>4

LEMMA LoopWork ==
  ASSUME IInv, WorkInv, Begin \/ BeginFails \/ LoopEnds \/ Skip \/ StartTask \/ Throws \/ Return
  PROVE  WorkInv'
<1>1. UNCHANGED <<config, file, git, ghosts>> /\ run \in Run /\ file \in Seq(Line)
  BY DEF IInv, Types, Numbered, Begin, BeginFails, LoopEnds, Skip, StartTask, Throws, Return
<1>2. CASE Begin \/ BeginFails \/ LoopEnds \/ Skip \/ Throws \/ Return
  <2>1. run'.pc \in {"loop", "threw", "end", "done"}
    BY <1>1, <1>2 DEF Begin, BeginFails, LoopEnds, Skip, Throws, Return, Threw, Fresh, Run,
                      AtTask, In
  <2>2. AtOpenLine'
    BY <2>1 DEF AtOpenLine, In
  <2> QED BY <1>1, <2>2, WorkStays
<1>3. CASE StartTask
  <2>1. Runnable(file, run.skipped) # {}
    BY <1>3 DEF StartTask, AtTask
  <2>2. run'.key = Keys(file)[NextLine] /\ run'.id = file[NextLine].id
    BY <1>1, <1>3 DEF StartTask, NextKey, Run
  <2>3. /\ NextLine \in DOMAIN file /\ ~file[NextLine].checked
        /\ \/ First(file, Keys(file)[NextLine]) = NextLine
           \/ file[First(file, Keys(file)[NextLine])].checked
    BY <1>1, <2>1, NextIsFirst DEF NextLine
  <2>4. AtOpenLine'
    BY <1>1, <2>2, <2>3 DEF AtOpenLine
  <2> QED BY <1>1, <2>4, WorkStays
<1> QED BY <1>2, <1>3

LEMMA AttemptWork ==
  ASSUME IInv, WorkInv,
         \/ AskThrows \/ PromptTooBig \/ Recover \/ Blocked
         \/ CancelAttempt \/ Stop \/ Spend \/ Crash \/ Again
  PROVE  WorkInv'
<1>1. UNCHANGED <<config, file, git, ghosts>> /\ run \in Run
  BY DEF IInv, Types, AskThrows, PromptTooBig, Recover, Blocked, CancelAttempt,
         Stop, Spend, Crash, Again
<1>2. CASE AskThrows \/ PromptTooBig \/ Blocked
  <2>1. AtOpenLine'
    BY <1>1, <1>2, RecordedEnds DEF AskThrows, PromptTooBig, Blocked
  <2> QED BY <1>1, <2>1, WorkStays
<1>3. CASE Recover \/ CancelAttempt \/ Stop \/ Spend
  <2>1. run'.pc = run.pc /\ run'.key = run.key /\ run'.id = run.id
    BY <1>1, <1>3 DEF Recover, CancelAttempt, Stop, Spend, Run
  <2>2. AtOpenLine'
    BY <1>1, <2>1 DEF WorkInv, AtOpenLine, In
  <2> QED BY <1>1, <2>2, WorkStays
<1>4. CASE Crash \/ Again
  <2>1. run'.pc \in {"threw", "start"}
    BY <1>4 DEF Crash, Again, Threw, Fresh
  <2>2. AtOpenLine'
    BY <2>1 DEF AtOpenLine, In
  <2> QED BY <1>1, <2>2, WorkStays
<1> QED BY <1>2, <1>3, <1>4

\* What an attempt does is of a line that is open, and so is not part of what was staged
\* with a tick.
LEMMA WorkWork ==
  ASSUME IInv, WorkInv, NEW kind \in {"edit", "newfile"}, Work(kind)
  PROVE  WorkInv'
<1>1. /\ UNCHANGED <<config, file, index, place, run, ghosts>> /\ In({"ask"})
      /\ edits' \subseteq edits \cup {run.id}
  BY DEF Work
<1>2. PICK j \in DOMAIN file : run.id = file[j].id /\ ~file[j].checked
  BY <1>1, AtTheFirst
<1>3. ASSUME NEW i \in DOMAIN index, index[i].checked PROVE index[i].id # run.id
  <2>1. PICK l \in DOMAIN file : file[l].id = index[i].id /\ file[l].checked
    BY <1>3 DEF WorkInv, Behind
  <2> QED BY <1>2, <2>1 DEF WorkInv, Distinct
<1>4. TicksHaveCommits'
  BY <1>1, <1>3 DEF WorkInv, TicksHaveCommits, ghosts
<1>5. AtOpenLine' /\ Behind' /\ TicksHaveWork'
  BY <1>1 DEF WorkInv, AtOpenLine, Behind, TicksHaveWork, ghosts, In
<1> QED BY <1>1, <1>4, <1>5 DEF WorkInv, Distinct, Alike, ghosts

LEMMA DecomposeWork ==
  ASSUME IInv, WorkInv, NEW items \in Subtasks, Decompose(items)
  PROVE  WorkInv'
<1> DEFINE k == run.key
           p == First(file, k)
           m == Len(items)
<1>1. /\ In({"ask"}) /\ file' = WithSubtasks(file, k, items, lines)
      /\ lines' = lines + m /\ alike' = (alike \/ Alike(file'))
      /\ Recorded(FALSE, 1, Retries(k) + 1)
      /\ UNCHANGED <<config, index, place, edits, passed, undone>>
  BY DEF Decompose, git
<1>2. /\ run \in Run /\ lines \in Nat /\ file \in Seq(Line) /\ index \in Seq(Line)
      /\ \A i \in DOMAIN file : file[i].id \in 1..lines
  BY DEF IInv, Types, Numbered
<1>3. items \in Seq(Texts) /\ m \in Nat
  BY AntonAssumption
<1>4. Present(file, k) /\ p \in DOMAIN file /\ (~alike => ~file[p].checked)
  BY <1>1, AtTheFirst
<1>5. /\ p \in 1..Len(file) /\ DOMAIN file' = 1..(Len(file) + m) /\ Len(file') = Len(file) + m
      /\ \A i \in 1..p : file'[i] = file[i]
      /\ \A i \in (p + 1)..Len(file) : file'[i + m] = file[i]
      /\ \A i \in 1..m : ~file'[p + i].checked /\ file'[p + i].id = lines + i
  <2>1. Inserted(file, k, items, lines, file')
    BY <1>1, <1>2, <1>3, <1>4, SubtaskLines
  <2> QED BY <2>1 DEF Inserted
<1>6. Len(file) \in Nat /\ DOMAIN file = 1..Len(file) /\ p \in Nat /\ Len(index) \in Nat
      /\ DOMAIN index = 1..Len(index)
  BY <1>2, <1>4
<1>7. ASSUME NEW j \in DOMAIN file, j # p, Children(file, j) # {}
      PROVE  Children(file', Moved(j, p, m)) # {}
  BY <1>1, <1>2, <1>3, <1>4, <1>7, ChildrenStay
<1> HIDE DEF k, p, m
<1>8. \A i \in DOMAIN file : Moved(i, p, m) \in DOMAIN file' /\ file'[Moved(i, p, m)] = file[i]
  BY <1>3, <1>5, <1>6 DEF Moved
<1>9. ASSUME NEW i \in DOMAIN file'
      PROVE  \/ \E j \in DOMAIN file : i = Moved(j, p, m)
             \/ \E l \in 1..m : i = p + l
  <2>1. CASE i <= p
    BY <1>5, <1>6, <2>1 DEF Moved
  <2>2. CASE p < i /\ i <= p + m
    <3>1. i - p \in 1..m /\ p + (i - p) = i
      BY <1>3, <1>5, <1>6, <2>2
    <3> QED BY <3>1
  <2>3. CASE p + m < i
    <3>1. i - m \in DOMAIN file /\ ~(i - m <= p) /\ (i - m) + m = i
      BY <1>3, <1>5, <1>6, <2>3
    <3> QED BY <3>1 DEF Moved
  <2> QED BY <1>3, <1>5, <1>6, <2>1, <2>2, <2>3
<1>10. Distinct(file')
  <2> SUFFICES ASSUME NEW a \in DOMAIN file', NEW b \in DOMAIN file', file'[a].id = file'[b].id
               PROVE  a = b
    BY DEF Distinct
  <2>1. \A j \in DOMAIN file : file'[Moved(j, p, m)].id = file[j].id /\ file[j].id \in 1..lines
    BY <1>2, <1>8
  <2>2. \A l \in 1..m : file'[p + l].id = lines + l
    BY <1>5
  <2>3. CASE /\ \E j \in DOMAIN file : a = Moved(j, p, m)
             /\ \E j \in DOMAIN file : b = Moved(j, p, m)
    <3>1. PICK i \in DOMAIN file, j \in DOMAIN file : a = Moved(i, p, m) /\ b = Moved(j, p, m)
      BY <2>3
    <3>2. file[i].id = file[j].id
      BY <2>1, <3>1
    <3> QED BY <3>1, <3>2 DEF WorkInv, Distinct
  <2>4. CASE (\E l \in 1..m : a = p + l) /\ (\E l \in 1..m : b = p + l)
    <3>1. PICK i \in 1..m, j \in 1..m : a = p + i /\ b = p + j
      BY <2>4
    <3>2. lines + i = lines + j
      BY <2>2, <3>1
    <3> QED BY <1>2, <1>3, <3>1, <3>2
  <2>5. \A j \in DOMAIN file, l \in 1..m : file'[Moved(j, p, m)].id # file'[p + l].id
    <3> TAKE j \in DOMAIN file, l \in 1..m
    <3>1. file[j].id \in 1..lines /\ lines + l > lines
      BY <1>2, <1>3
    <3> QED BY <1>2, <2>1, <2>2, <3>1
  <2> QED BY <1>9, <2>3, <2>4, <2>5
<1>11. Behind'
  <2>0. Len(index) <= Len(file)
    BY DEF WorkInv, Behind
  <2>1. Len(index) <= Len(file')
    BY <1>3, <1>5, <1>6, <2>0
  <2>2. ASSUME Len(index) = Len(file'), NEW i \in DOMAIN index, index[i].checked PROVE file'[i].checked
    <3>1. m = 0 /\ Len(index) = Len(file)
      <4>1. Len(file') = Len(file) + m /\ Len(index) = Len(file')
        BY <1>5, <2>2
      <4>2. \A a, b, c \in Nat : a <= b /\ a = b + c => c = 0 /\ a = b
        OBVIOUS
      <4> QED BY <1>3, <1>6, <2>0, <4>1, <4>2
    <3>2. file[i].checked /\ i \in DOMAIN file
      BY <1>6, <2>2, <3>1 DEF WorkInv, Behind
    <3>3. Moved(i, p, m) = i
      BY <1>6, <3>1, <3>2 DEF Moved
    <3> QED BY <1>8, <3>2, <3>3
  <2>3. \A i \in DOMAIN index : \E j \in DOMAIN file' :
           file'[j].id = index[i].id /\ (index[i].checked => file'[j].checked)
    BY <1>8 DEF WorkInv, Behind
  <2> QED BY <1>1, <2>1, <2>2, <2>3 DEF Behind
<1>12. TicksHaveCommits'
  BY <1>1 DEF WorkInv, TicksHaveCommits
<1>13. TicksHaveWork'
  <2> SUFFICES ASSUME config.place = "tracked", ~alike', NEW i \in DOMAIN file', file'[i].checked,
                      Children(file', i) = {}
               PROVE  file'[i].id \notin undone
    BY <1>1 DEF TicksHaveWork
  <2>1. PICK j \in DOMAIN file : i = Moved(j, p, m)
    BY <1>5, <1>9
  <2>2. file[j].checked /\ file'[i].id = file[j].id
    BY <1>8, <2>1
  <2>3. ~alike
    BY <1>1
  <2>4. Children(file, j) = {}
    BY <1>4, <1>7, <2>1, <2>2, <2>3
  <2> QED BY <2>2, <2>3, <2>4 DEF WorkInv, TicksHaveWork
<1>14. ~alike' => ~Alike(file') /\ ~Alike(index')
  BY <1>1 DEF WorkInv, Alike
<1>15. AtOpenLine' /\ Distinct(index')
  BY <1>1, <1>2, RecordedEnds DEF WorkInv, Distinct
<1> QED BY <1>10, <1>11, <1>12, <1>13, <1>14, <1>15 DEF WorkInv

LEMMA FailedWork ==
  ASSUME IInv, WorkInv, Failed
  PROVE  WorkInv'
<1>1. /\ In({"ask"}) /\ UNCHANGED <<config, index, lines, alike>> /\ edits' \subseteq edits
      /\ \/ file' = file /\ undone' = undone
         \/ file' = RolledBack /\ undone' = undone \cup (passed \cap edits)
      /\ place = "tracked" => place' = "tracked"
      /\ \E fails, counts, n : Recorded(fails, counts, n)
  BY DEF Failed
<1>2. run \in Run /\ file \in Seq(Line) /\ index \in Seq(Line)
  BY DEF IInv, Types, Numbered
<1>3. AtOpenLine'
  BY <1>1, <1>2, RecordedEnds
<1>4. file' = file \/ file' = index
  BY <1>1 DEF RolledBack
<1>5. Distinct(file') /\ Distinct(index') /\ (~alike' => ~Alike(file') /\ ~Alike(index'))
  BY <1>1, <1>4 DEF WorkInv, Distinct, Alike
<1>6. Behind'
  <2>1. Len(index) \in Nat
    BY <1>2
  <2>2. CASE file' = file
    BY <1>1, <2>2 DEF WorkInv, Behind
  <2>3. CASE file' = index
    BY <1>1, <2>1, <2>3 DEF Behind
  <2> QED BY <1>4, <2>2, <2>3
<1>7. TicksHaveCommits'
  <2> SUFFICES ASSUME config.place = "tracked" PROVE TicksHaveCommits'
    BY <1>1 DEF TicksHaveCommits
  <2>1. place' = "tracked"
    BY <1>1 DEF WorkInv, TicksHaveCommits
  <2>2. \A i \in DOMAIN index : index[i].checked => index[i].id \notin edits
    BY DEF WorkInv, TicksHaveCommits
  <2>3. ASSUME ~alike, NEW i \in DOMAIN index, index[i].checked, Children(index, i) = {}
        PROVE  index[i].id \notin undone'
    <3>1. index[i].id \notin undone
      BY <2>3 DEF WorkInv, TicksHaveCommits
    <3> QED BY <1>1, <2>2, <2>3, <3>1
  <2> QED BY <1>1, <2>1, <2>2, <2>3 DEF TicksHaveCommits
<1>8. TicksHaveWork'
  <2> SUFFICES ASSUME config.place = "tracked" PROVE TicksHaveWork'
    BY <1>1 DEF TicksHaveWork
  <2>1. CASE file' = file /\ undone' = undone
    BY <1>1, <2>1 DEF WorkInv, TicksHaveWork
  <2>2. CASE file' = RolledBack
    <3>1. file' = index
      BY <2>2 DEF RolledBack, WorkInv, TicksHaveCommits
    <3> QED BY <1>1, <1>7, <3>1 DEF TicksHaveWork, TicksHaveCommits
  <2> QED BY <1>1, <2>1, <2>2
<1> QED BY <1>3, <1>5, <1>6, <1>7, <1>8 DEF WorkInv

\* The worklist after a task has passed.
LEMMA PassedTicks ==
  ASSUME IInv, WorkInv, Passed
  PROVE  /\ file' \in Seq(Line) /\ DOMAIN file' = DOMAIN file /\ Keys(file') = Keys(file)
         /\ \A i \in DOMAIN file : /\ file'[i].id = file[i].id
                                   /\ Children(file', i) = Children(file, i)
                                   /\ file[i].checked => file'[i].checked
         /\ \A i \in DOMAIN file :
              ~file[i].checked /\ file'[i].checked =>
                \/ i = First(file, run.key)
                \/ Children(file, i) # {} /\ \A c \in Children(file, i) : file'[c].checked
                \/ \E j \in DOMAIN file \ {i} : Keys(file)[j] = Keys(file)[i]
<1>1. In({"ask"}) /\ file' = Ticked(file, run.key)
  BY DEF Passed
<1>2. file \in Seq(Line) /\ Present(file, run.key)
  BY <1>1, AtTheFirst DEF IInv, Types, Numbered
<1> QED BY <1>1, <1>2, TickedEarned

LEMMA PassedWork ==
  ASSUME IInv, WorkInv, Passed
  PROVE  WorkInv'
<1>1. /\ In({"ask"}) /\ file' = Ticked(file, run.key) /\ undone' = undone \ {run.id}
      /\ UNCHANGED <<config, index, place, edits, lines, alike>>
  BY DEF Passed, git
<1>2. run \in Run /\ file \in Seq(Line) /\ index \in Seq(Line)
  BY DEF IInv, Types, Numbered
<1>3. AtOpenLine'
  <2>1. CASE run' = [run EXCEPT !.pc = "commit"]
    BY <1>2, <2>1 DEF AtOpenLine, In, Run
  <2>2. CASE Recorded(FALSE, 1, Retries(run.key))
    BY <1>2, <2>2, RecordedEnds
  <2> QED BY <2>1, <2>2 DEF Passed
<1>4. Present(file, run.key) /\ (~alike => file[First(file, run.key)].id = run.id)
  BY <1>1, AtTheFirst
<1>5. /\ file' \in Seq(Line) /\ DOMAIN file' = DOMAIN file /\ Keys(file') = Keys(file)
      /\ \A i \in DOMAIN file : /\ file'[i].id = file[i].id
                                /\ Children(file', i) = Children(file, i)
                                /\ file[i].checked => file'[i].checked
      /\ \A i \in DOMAIN file :
           ~file[i].checked /\ file'[i].checked =>
             \/ i = First(file, run.key)
             \/ Children(file, i) # {} /\ \A c \in Children(file, i) : file'[c].checked
             \/ \E j \in DOMAIN file \ {i} : Keys(file)[j] = Keys(file)[i]
  BY PassedTicks
<1>6. Len(file') = Len(file) /\ Len(file) \in Nat
  BY <1>2, <1>5
<1>7. Distinct(file') /\ Distinct(index')
  BY <1>1, <1>5 DEF WorkInv, Distinct
<1>8. ~alike' => ~Alike(file') /\ ~Alike(index')
  BY <1>1, <1>5 DEF WorkInv, Alike
<1>9. Behind'
  <2>1. Len(index) = Len(file) => DOMAIN index = DOMAIN file
    BY <1>2
  <2>2. /\ Len(index) <= Len(file)
        /\ Len(index) = Len(file) => \A i \in DOMAIN index : index[i].checked => file[i].checked
        /\ \A i \in DOMAIN index : \E j \in DOMAIN file :
             file[j].id = index[i].id /\ (index[i].checked => file[j].checked)
    BY DEF WorkInv, Behind
  <2>3. Len(index) = Len(file') =>
          \A i \in DOMAIN index : index[i].checked => file'[i].checked
    BY <1>5, <1>6, <2>1, <2>2
  <2>4. \A i \in DOMAIN index : \E j \in DOMAIN file' :
          file'[j].id = index[i].id /\ (index[i].checked => file'[j].checked)
    BY <1>5, <2>2
  <2> QED BY <1>1, <1>6, <2>2, <2>3, <2>4 DEF Behind
<1>10. TicksHaveCommits'
  BY <1>1 DEF WorkInv, TicksHaveCommits
<1>11. TicksHaveWork'
  <2> SUFFICES ASSUME config.place = "tracked", ~alike, NEW i \in DOMAIN file, file'[i].checked,
                      Children(file, i) = {}
               PROVE  file[i].id \notin undone \ {run.id}
    BY <1>1, <1>5 DEF TicksHaveWork
  <2>1. CASE file[i].checked
    BY <2>1 DEF WorkInv, TicksHaveWork
  <2>2. CASE ~file[i].checked
    <3>1. \A j \in DOMAIN file \ {i} : Keys(file)[j] # Keys(file)[i]
      BY DEF WorkInv, Alike
    <3>2. i = First(file, run.key)
      BY <1>5, <2>2, <3>1
    <3> QED BY <1>4, <3>2
  <2> QED BY <2>1, <2>2
<1> QED BY <1>3, <1>7, <1>8, <1>9, <1>10, <1>11 DEF WorkInv

LEMMA CommitWork ==
  ASSUME IInv, WorkInv, Commit \/ CommitFails
  PROVE  WorkInv'
<1>1. /\ UNCHANGED <<config, file, ghosts>> /\ \E fails, counts, n : Recorded(fails, counts, n)
      /\ \/ place = "outside" /\ UNCHANGED <<index, place>> /\ edits' = {}
         \/ index' = file /\ (place = "tracked" => place' = "tracked") /\ edits' = {}
         \/ UNCHANGED <<index, place, edits>>
  BY DEF Commit, CommitFails, AddAll, git
<1>2. run \in Run /\ file \in Seq(Line)
  BY DEF IInv, Types, Numbered
<1>3. AtOpenLine'
  BY <1>1, <1>2, RecordedEnds
<1>4. CASE UNCHANGED <<index, place>> /\ edits' \subseteq edits
  BY <1>1, <1>3, <1>4 DEF WorkInv, Behind, TicksHaveCommits, TicksHaveWork, ghosts, Distinct,
                          Alike
<1>5. CASE index' = file /\ (place = "tracked" => place' = "tracked") /\ edits' = {}
  <2>1. Behind'
    <3>1. Len(file) \in Nat
      BY <1>2
    <3> QED BY <1>1, <1>5, <3>1 DEF Behind
  <2>2. TicksHaveCommits' /\ TicksHaveWork'
    BY <1>1, <1>5 DEF WorkInv, TicksHaveCommits, TicksHaveWork, ghosts
  <2> QED BY <1>1, <1>3, <1>5, <2>1, <2>2 DEF WorkInv, ghosts, Distinct, Alike
<1> QED BY <1>1, <1>4, <1>5

LEMMA NextWork == IInv /\ WorkInv /\ [Next]_vars => WorkInv'
<1> SUFFICES ASSUME IInv, WorkInv, [Next]_vars PROVE WorkInv'
  OBVIOUS
<1>1. CASE Begin \/ BeginFails \/ LoopEnds \/ Skip \/ StartTask \/ Throws \/ Return
  BY <1>1, LoopWork
<1>2. CASE \/ AskThrows \/ PromptTooBig \/ Recover \/ Blocked
           \/ CancelAttempt \/ Stop \/ Spend \/ Crash \/ Again
  BY <1>2, AttemptWork
<1>3. ASSUME NEW kind \in {"edit", "newfile"}, Work(kind) PROVE WorkInv'
  BY <1>3, WorkWork
<1>4. ASSUME NEW items \in Subtasks, Decompose(items) PROVE WorkInv'
  BY <1>4, DecomposeWork
<1>5. CASE Failed
  BY <1>5, FailedWork
<1>6. CASE Passed
  BY <1>6, PassedWork
<1>7. CASE Commit \/ CommitFails
  BY <1>7, CommitWork
<1>8. CASE UNCHANGED vars
  BY <1>8 DEF vars, ghosts, git, WorkInv, Distinct, Alike, AtOpenLine, Behind, TicksHaveCommits,
              TicksHaveWork, In
<1> QED BY <1>1, <1>2, <1>3, <1>4, <1>5, <1>6, <1>7, <1>8 DEF Next, Step, Environment

\* What a run's ticks, commits and roll-backs keep between them, in every behaviour.
THEOREM WorkInvariant == Spec => []WorkInv
BY WorkStarts, NextWork, RunInvariant, PTL DEF Spec

\* Whatever is attempted, decomposed, committed and rolled back, in any number of runs: as
\* long as the worklist is tracked and keys tell its lines apart, no tick outlives the work
\* of its task.
THEOREM TicksKeepWork == Spec => []TicksHaveWork
<1>1. WorkInv => TicksHaveWork
  BY DEF WorkInv
<1> QED BY <1>1, WorkInvariant, PTL

\* A step ticks the line of a task that has passed, or lines above it whose subtasks are all
\* ticked, or a line that shares its key with another.
THEOREM EveryTickIsEarned == Spec => TicksAreEarned
<1>1. ASSUME IInv, WorkInv, [Next]_vars,
             NEW i \in DOMAIN file, i \in DOMAIN file', Len(file') = Len(file),
             ~file[i].checked, file'[i].checked
      PROVE  \/ file[i].id \in passed'
             \/ Children(file, i) # {} /\ (\A c \in Children(file, i) : file'[c].checked)
             \/ \E j \in DOMAIN file \ {i} : Keys(file)[j] = Keys(file)[i]
  <2>1. file \in Seq(Line) /\ index \in Seq(Line) /\ lines \in Nat
    BY <1>1 DEF IInv, Types, Numbered
  <2>2. file' # file
    BY <1>1
  <2>3. Failed \/ Passed \/ \E items \in Subtasks : Decompose(items)
    BY <1>1, <2>2 DEF Next, Step, Environment, vars, Begin, BeginFails, LoopEnds, Skip, StartTask,
                      Throws, AskThrows, PromptTooBig, Recover, Blocked, Commit, CommitFails,
                      Return, Work, Stop, Spend, CancelAttempt, Crash, Again
  <2>4. CASE Failed
    <3>1. file' = index
      BY <2>2, <2>4 DEF Failed, RolledBack
    <3>2. i \in DOMAIN index /\ Len(index) = Len(file) /\ index[i].checked
      BY <1>1, <3>1
    <3>3. file[i].checked
      BY <1>1, <3>2 DEF WorkInv, Behind
    <3> QED BY <1>1, <3>3
  <2>5. CASE Passed
    <3>1. In({"ask"}) /\ run.id \in passed'
      BY <2>5 DEF Passed
    <3>2. /\ Present(file, run.key)
          /\ \E j \in DOMAIN file :
               /\ run.id = file[j].id
               /\ First(file, run.key) = j \/ file[First(file, run.key)].checked
      BY <1>1, <3>1, AtTheFirst
    <3>3. \/ i = First(file, run.key)
          \/ Children(file, i) # {} /\ \A c \in Children(file, i) : file'[c].checked
          \/ \E j \in DOMAIN file \ {i} : Keys(file)[j] = Keys(file)[i]
      BY <1>1, <2>5, PassedTicks
    <3>4. i = First(file, run.key) => file[i].id \in passed'
      BY <1>1, <3>1, <3>2
    <3> QED BY <3>3, <3>4
  <2>6. ASSUME NEW items \in Subtasks, Decompose(items) PROVE FALSE
    <3>1. file' = WithSubtasks(file, run.key, items, lines) /\ Present(file, run.key)
      BY <1>1, <2>6, AtTheFirst DEF Decompose
    <3>2. items \in Seq(Texts) /\ Len(items) \in Nat /\ Len(file) \in Nat
      BY <2>1, AntonAssumption
    <3>3. Inserted(file, run.key, items, lines, file')
      BY <2>1, <3>1, <3>2, SubtaskLines
    <3>4. Len(items) = 0
      BY <1>1, <3>2, <3>3 DEF Inserted
    <3>5. i \in 1..Len(file) /\ First(file, run.key) \in 1..Len(file)
      BY <1>1, <2>1, <3>3 DEF Inserted
    <3>6. file'[i] = file[i]
      <4>1. CASE i <= First(file, run.key)
        <5>1. i \in 1..First(file, run.key)
          BY <3>5, <4>1
        <5> QED BY <3>3, <5>1 DEF Inserted
      <4>2. CASE ~(i <= First(file, run.key))
        <5>1. i \in (First(file, run.key) + 1)..Len(file) /\ i + 0 = i
          BY <3>2, <3>5, <4>2
        <5> QED BY <3>3, <3>4, <5>1 DEF Inserted
      <4> QED BY <4>1, <4>2
    <3> QED BY <1>1, <3>6
  <2> QED BY <2>3, <2>4, <2>5, <2>6
<1>2. IInv /\ WorkInv /\ [Next]_vars =>
        [\A i \in DOMAIN file :
           i \in DOMAIN file' /\ Len(file') = Len(file) /\ ~file[i].checked /\ file'[i].checked =>
             \/ file[i].id \in passed'
             \/ Children(file, i) # {} /\ (\A c \in Children(file, i) : file'[c].checked)
             \/ \E j \in DOMAIN file \ {i} : Keys(file)[j] = Keys(file)[i]]_vars
  BY <1>1
<1> QED BY <1>2, RunInvariant, WorkInvariant, PTL DEF Spec, TicksAreEarned
=============================================================================

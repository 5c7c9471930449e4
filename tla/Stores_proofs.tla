--------------------------- MODULE Stores_proofs ---------------------------
(***************************************************************************)
(* What is left on disk, for any number of sessions and processes: the     *)
(* backups and checkpoints of a file (FileEdits), the vault (Vault), what  *)
(* a rollback installs (Upgrade), the tree after a headless run (OneShot)  *)
(* and the verdict on the work of a task (Verification).                   *)
(***************************************************************************)
EXTENDS FileEdits, Vault, Upgrade, OneShot, Verification, FiniteSetTheorems, TLAPS

-----------------------------------------------------------------------------
(* The backups and the checkpoints *)

Places == {"idle", "read", "backed", "written", "blobbed", "listed", "rotating", "cleaning",
           "restoring"}
Ops == {"none", "edit", "patch", "undo", "rewind"}
Jobs == [op : Ops, read : Nat, out : Nat, id : Nat, rows : Seq(Nat)]

FilesTypes ==
  /\ file \in Nat /\ made \in Nat
  /\ backups \in Seq(Nat) /\ index \in Seq(Nat) /\ before \in Seq(Nat)
  /\ blobs \subseteq 1..Len(before)
  /\ pc \in [Writers -> Places] /\ job \in [Writers -> Jobs]

\* Who is about to write has the file as the latest backup, unless it has changed since.
BackedUp ==
  \A w \in Writers : At(w, {"backed"}) /\ w \notin touched /\ file # 0 =>
    Len(backups) > 0 /\ backups[Len(backups)] = file

\* What Newest keeps of a sequence is its end, and all of it when that is short.
LEMMA NewestIsEnd ==
  ASSUME NEW s \in Seq(Nat), NEW n \in Nat \ {0}
  PROVE  LET l == Newest(n, s) IN
         /\ l \in Seq(Nat) /\ Len(s) \in Nat /\ Len(l) = IF Len(s) > n THEN n ELSE Len(s)
         /\ \A i \in 1..Len(l) : l[i] = s[Len(s) - Len(l) + i]
<1> DEFINE m == IF Len(s) > n THEN Len(s) - n + 1 ELSE 1
<1>1. Len(s) \in Nat /\ m \in 1..(Len(s) + 1) /\ Len(s) - m + 1 = IF Len(s) > n THEN n ELSE Len(s)
  OBVIOUS
<1>2. Newest(n, s) = SubSeq(s, m, Len(s))
  BY DEF Newest
<1> HIDE DEF m
<1>3. /\ SubSeq(s, m, Len(s)) \in Seq(Nat) /\ Len(SubSeq(s, m, Len(s))) = Len(s) - m + 1
      /\ \A i \in 1..(Len(s) - m + 1) : SubSeq(s, m, Len(s))[i] = s[m + i - 1]
  BY <1>1
<1> QED BY <1>1, <1>2, <1>3

LEMMA Extended ==
  ASSUME NEW s \in Seq(Nat), NEW e \in Nat
  PROVE  /\ Append(s, e) \in Seq(Nat) /\ Len(s) \in Nat /\ Len(Append(s, e)) = Len(s) + 1
         /\ Append(s, e)[Len(s) + 1] = e
         /\ \A i \in 1..Len(s) : Append(s, e)[i] = s[i]
  OBVIOUS

\* A session that goes on keeps a place and a job.
LEMMA GoesTo ==
  ASSUME FilesTypes, NEW w \in Writers, NEW place \in Places, Go(w, place)
  PROVE  pc' \in [Writers -> Places]
  BY DEF FilesTypes, Go

LEMMA Does ==
  ASSUME FilesTypes, NEW w \in Writers, NEW j \in Jobs, Do(w, j)
  PROVE  job' \in [Writers -> Jobs]
  BY DEF FilesTypes, Do

LEMMA JobWith ==
  /\ NoJob \in Jobs
  /\ \A op \in Ops, a, b \in Nat :
       /\ [NoJob EXCEPT !.op = op, !.read = a] \in Jobs
       /\ [NoJob EXCEPT !.op = op, !.read = a, !.out = b] \in Jobs
  /\ \A j \in Jobs, a \in Nat : [j EXCEPT !.id = a] \in Jobs
  /\ \A j \in Jobs, r \in Seq(Nat) : [j EXCEPT !.rows = r] \in Jobs
<1>1. NoJob \in Jobs
  BY DEF NoJob, Jobs, Ops
<1>2. ASSUME NEW op \in Ops, NEW a \in Nat, NEW b \in Nat
      PROVE  /\ [NoJob EXCEPT !.op = op, !.read = a] \in Jobs
             /\ [NoJob EXCEPT !.op = op, !.read = a, !.out = b] \in Jobs
  BY <1>1 DEF Jobs
<1>3. ASSUME NEW j \in Jobs, NEW a \in Nat PROVE [j EXCEPT !.id = a] \in Jobs
  BY DEF Jobs
<1>4. ASSUME NEW j \in Jobs, NEW r \in Seq(Nat) PROVE [j EXCEPT !.rows = r] \in Jobs
  BY DEF Jobs
<1> QED BY <1>1, <1>2, <1>3, <1>4

\* What a session stops with.
LEMMA Stops ==
  ASSUME FilesTypes, NEW w \in Writers, Stop(w)
  PROVE  pc' \in [Writers -> Places] /\ job' \in [Writers -> Jobs]
  BY GoesTo, Does, JobWith DEF Stop, Places

LEMMA FilesTypesStart == FilesInit => FilesTypes
<1> SUFFICES ASSUME FilesInit PROVE FilesTypes
  OBVIOUS
<1>1. NoJob \in Jobs
  BY DEF NoJob, Jobs, Ops
<1>2. pc \in [Writers -> Places] /\ job \in [Writers -> Jobs]
  BY <1>1 DEF FilesInit, Places
<1> QED BY <1>2 DEF FilesInit, FilesTypes

LEMMA FilesTypesKept == FilesTypes /\ [FilesNext]_fvars => FilesTypes'
<1> SUFFICES ASSUME FilesTypes, [FilesNext]_fvars PROVE FilesTypes'
  OBVIOUS
<1> USE FilesAssumption
<1> DEFINE
      Data ==
        /\ file \in Nat /\ made \in Nat
        /\ backups \in Seq(Nat) /\ index \in Seq(Nat) /\ before \in Seq(Nat)
        /\ blobs \subseteq 1..Len(before)
      Sessions == pc \in [Writers -> Places] /\ job \in [Writers -> Jobs]
<1>0. Data /\ Sessions
  BY DEF FilesTypes
<1>a. ASSUME NEW w \in Writers
      PROVE  /\ job[w].read \in Nat /\ job[w].out \in Nat /\ job[w].id \in Nat
             /\ job[w].rows \in Seq(Nat) /\ job[w] \in Jobs
  BY <1>0 DEF Jobs
<1>1. ASSUME NEW w \in Writers, NEW op \in {"edit", "patch"}, Begins(w, op) PROVE Data' /\ Sessions'
  <2>1. [NoJob EXCEPT !.op = op, !.read = file] \in Jobs
    BY <1>0, JobWith DEF Ops
  <2> QED BY <1>0, <1>1, <2>1, GoesTo, Does DEF Begins, Places
<1>2. ASSUME NEW w \in Writers, BeginUndo(w) PROVE Data' /\ Sessions'
  <2>1. Last(backups) \in Nat
    BY <1>0, <1>2 DEF BeginUndo, Last
  <2>2. [NoJob EXCEPT !.op = "undo", !.read = file, !.out = Last(backups)] \in Jobs
    BY <1>0, <2>1, JobWith DEF Ops
  <2> QED BY <1>0, <1>2, <2>2, GoesTo, Does DEF BeginUndo, Places
<1>3. ASSUME NEW w \in Writers, Backup(w) PROVE Data' /\ Sessions'
  <2>1. BackupsKept(Append(backups, file)) \in Seq(Nat)
    BY <1>0, NewestIsEnd, Extended DEF BackupsKept
  <2> QED BY <1>0, <1>3, <2>1, GoesTo DEF Backup, Places
<1>4. ASSUME NEW w \in Writers, Refused(w) PROVE Data' /\ Sessions'
  BY <1>0, <1>4, Stops DEF Refused
<1>5. ASSUME NEW w \in Writers, Write(w) PROVE Data' /\ Sessions'
  <2>1. CASE job[w].op = "undo"
    BY <1>0, <1>a, <1>5, <2>1, Stops DEF Write, Put
  <2>2. CASE job[w].op # "undo"
    BY <1>0, <1>5, <2>2, GoesTo DEF Write, Put, Places
  <2> QED BY <2>1, <2>2
<1>6. ASSUME NEW w \in Writers, BeginRewind(w) PROVE Data' /\ Sessions'
  <2>1. PICK i \in 1..Len(index) :
          IF index[i] \in blobs
          THEN Go(w, "written") /\ Do(w, [NoJob EXCEPT !.op = "rewind", !.read = file,
                                                       !.out = before[index[i]]])
          ELSE Stop(w)
    BY <1>6 DEF BeginRewind
  <2>2. CASE index[i] \in blobs
    <3>1. before[index[i]] \in Nat
      BY <1>0, <2>2
    <3>2. [NoJob EXCEPT !.op = "rewind", !.read = file, !.out = before[index[i]]] \in Jobs
      BY <1>0, <3>1, JobWith DEF Ops
    <3> QED BY <1>0, <1>6, <2>1, <2>2, <3>2, GoesTo, Does DEF BeginRewind, Places
  <2> QED BY <1>0, <1>6, <2>1, <2>2, Stops DEF BeginRewind
<1>7. ASSUME NEW w \in Writers, StoreBlobs(w) PROVE Data' /\ Sessions'
  <2>0. Len(before) \in Nat
    BY <1>0
  <2> DEFINE id == Len(before) + 1
  <2>00. id \in Nat
    BY <2>0
  <2> HIDE DEF id
  <2>01. [job[w] EXCEPT !.id = id] \in Jobs
    BY <1>a, <2>00, JobWith
  <2>1. Len(before) \in Nat /\ [job[w] EXCEPT !.id = Len(before) + 1] \in Jobs
    BY <2>0, <2>01 DEF id
  <2>2. /\ before' \in Seq(Nat) /\ Len(before') = Len(before) + 1
        /\ blobs' = blobs \cup {Len(before) + 1}
    BY <1>0, <1>a, <1>7, Extended DEF StoreBlobs
  <2>3. blobs' \subseteq 1..Len(before')
    BY <1>0, <2>1, <2>2
  <2> QED BY <1>0, <1>7, <2>1, <2>2, <2>3, GoesTo, Does DEF StoreBlobs, Places
<1>8. ASSUME NEW w \in Writers, AppendRow(w) PROVE Data' /\ Sessions'
  <2>1. index' \in Seq(Nat)
    BY <1>0, <1>a, <1>8, Extended DEF AppendRow
  <2> QED BY <1>0, <1>8, <2>1, GoesTo DEF AppendRow, Places
<1>b. ASSUME NEW w \in Writers, Checkpointed(w) PROVE Sessions'
  BY <1>0, <1>b, GoesTo, Stops DEF Checkpointed, Places
<1>9. ASSUME NEW w \in Writers, ReadIndex(w) PROVE Data' /\ Sessions'
  <2>1. [job[w] EXCEPT !.rows = RowsKept(index)] \in Jobs
    BY <1>0, <1>a, JobWith, NewestIsEnd DEF RowsKept
  <2> QED BY <1>0, <1>b, <1>9, <2>1, GoesTo, Does DEF ReadIndex, Places
<1>10. ASSUME NEW w \in Writers, RewriteIndex(w) PROVE Data' /\ Sessions'
  BY <1>0, <1>a, <1>10, GoesTo DEF RewriteIndex, Places
<1>11. ASSUME NEW w \in Writers, CleanBlobs(w) PROVE Data' /\ Sessions'
  BY <1>0, <1>b, <1>11 DEF CleanBlobs
<1>12. ASSUME NEW w \in Writers, Restore(w) PROVE Data' /\ Sessions'
  BY <1>0, <1>a, <1>12, Stops DEF Restore, Put
<1>13. ASSUME NEW w \in Writers, Crash(w) PROVE Data' /\ Sessions'
  <2>0. <<>> \in Seq(Nat)
    OBVIOUS
  <2>1. index' \in Seq(Nat)
    BY <1>0, <1>13, <2>0 DEF Crash
  <2> QED BY <1>0, <1>13, <2>1, Stops DEF Crash
<1>14. ASSUME Other PROVE Data' /\ Sessions'
  BY <1>0, <1>14 DEF Other
<1>15. ASSUME UNCHANGED fvars PROVE Data' /\ Sessions'
  BY <1>0, <1>15 DEF fvars
<1>16. Data' /\ Sessions'
  BY <1>1, <1>2, <1>3, <1>4, <1>5, <1>6, <1>7, <1>8, <1>9, <1>10, <1>11, <1>12, <1>13, <1>14, <1>15
     DEF FilesNext, WriteFile, InsertFile, ApplyPatch, EditFile, EditRange
<1> QED BY <1>16 DEF FilesTypes

THEOREM FilesTypesHold == FilesSpec => []FilesTypes
  BY FilesTypesStart, FilesTypesKept, PTL DEF FilesSpec

-----------------------------------------------------------------------------
(* The backups *)

LEMMA BackedUpKept == FilesTypes /\ BackedUp /\ [FilesNext]_fvars => BackedUp'
<1> SUFFICES ASSUME FilesTypes, BackedUp, [FilesNext]_fvars,
                    NEW x \in Writers, pc'[x] = "backed", x \notin touched', file' # 0
             PROVE  (Len(backups) > 0 /\ backups[Len(backups)] = file)'
  BY DEF BackedUp, At
<1> USE FilesAssumption
<1> DEFINE Quiet(w) ==
      /\ UNCHANGED <<file, backups, touched>>
      /\ \E place \in Places \ {"backed"} : Go(w, place)
<1>1. ASSUME NEW w \in Writers, Quiet(w) PROVE (Len(backups) > 0 /\ backups[Len(backups)] = file)'
  BY <1>1 DEF Go, At, FilesTypes, BackedUp
<1>2. ASSUME NEW w \in Writers, Backup(w)
      PROVE (Len(backups) > 0 /\ backups[Len(backups)] = file)'
  <2> DEFINE a == Append(backups, file)
  <2>1. backups' = BackupsKept(a) /\ file' = file
    BY <1>2 DEF Backup
  <2>2. /\ a \in Seq(Nat) /\ Len(a) \in Nat /\ Len(a) >= 1 /\ a[Len(a)] = file
    BY Extended DEF FilesTypes
  <2> HIDE DEF a
  <2>3. /\ Len(backups') = IF Len(a) > Limit THEN Limit ELSE Len(a)
        /\ \A i \in 1..Len(backups') : backups'[i] = a[Len(a) - Len(backups') + i]
    BY <2>1, <2>2, NewestIsEnd DEF BackupsKept
  <2>4. Len(backups') \in 1..Len(backups') /\ Len(a) - Len(backups') + Len(backups') = Len(a)
    BY <2>2, <2>3
  <2>5. backups'[Len(backups')] = a[Len(a) - Len(backups') + Len(backups')]
    BY <2>3, <2>4
  <2>6. backups'[Len(backups')] = file
    BY <2>2, <2>4, <2>5
  <2> QED BY <2>1, <2>4, <2>6
<1>3. ASSUME NEW w \in Writers, touched' = Writers \ {w}, pc'[w] # "backed" PROVE FALSE
  BY <1>3
<1>4. ASSUME NEW w \in Writers,
             \/ \E op \in {"edit", "patch"} : Begins(w, op)
             \/ BeginUndo(w) \/ Refused(w) \/ BeginRewind(w) \/ StoreBlobs(w) \/ AppendRow(w)
             \/ ReadIndex(w) \/ RewriteIndex(w) \/ CleanBlobs(w) \/ Crash(w)
      PROVE  Quiet(w)
  BY <1>4 DEF Begins, BeginUndo, Refused, BeginRewind, StoreBlobs, AppendRow, ReadIndex,
              RewriteIndex, CleanBlobs, Crash, Stop, Checkpointed, Places
<1>5. ASSUME NEW w \in Writers, Write(w) \/ Restore(w) PROVE FALSE
  BY <1>3, <1>5 DEF Write, Restore, Put, Stop, Go, FilesTypes
<1>6. CASE Other
  BY <1>6 DEF Other
<1>7. CASE UNCHANGED fvars
  BY <1>7 DEF fvars, BackedUp, At
<1> QED BY <1>1, <1>2, <1>4, <1>5, <1>6, <1>7
        DEF FilesNext, WriteFile, InsertFile, ApplyPatch, EditFile, EditRange

\* What a tool or an undo overwrites is among the backups.
THEOREM ReplacedIsBackedUp == FilesSpec => ReplacedIsKept
<1>1. FilesInit => BackedUp
  BY DEF FilesInit, BackedUp, At
<1>2. FilesTypes /\ BackedUp /\ [FilesNext]_fvars
        => [\A w \in Writers :
              Write(w) /\ w \notin touched => file \in ToSet(backups) \cup {0}]_fvars
  <2> SUFFICES ASSUME FilesTypes, BackedUp, NEW w \in Writers, Write(w), w \notin touched, file # 0
               PROVE  file \in ToSet(backups)
    BY DEF fvars
  <2>1. Len(backups) > 0 /\ backups[Len(backups)] = file
    BY DEF Write, BackedUp
  <2> QED BY <2>1 DEF ToSet, FilesTypes
<1> QED BY <1>1, <1>2, FilesTypesHold, BackedUpKept, PTL DEF FilesSpec, ReplacedIsKept

-----------------------------------------------------------------------------
(* The checkpoints *)

InCheckpoint(w) == At(w, {"blobbed", "listed", "rotating", "cleaning"})

\* The checkpoints that have had their line in the index: all but one that is being made.
ListedUpTo == IF \E w \in Writers : At(w, {"blobbed"}) THEN Len(before) - 1 ELSE Len(before)

\* One session at a time makes a checkpoint, the latest one.
OneCheckpoint ==
  /\ \A w, x \in Writers : InCheckpoint(w) /\ InCheckpoint(x) => w = x
  /\ \A w \in Writers : InCheckpoint(w) => job[w].id = Len(before)

\* What a checkpoint is about to list is stored, and what it keeps of the index is there.
StoredFirst ==
  /\ \A w \in Writers : At(w, {"blobbed"}) => Len(before) \in blobs
  /\ \A i \in 1..Len(index) : index[i] \in blobs
  /\ \A w \in Writers : At(w, {"rotating"}) => job[w].rows = RowsKept(index)
  /\ \A w \in Writers : At(w, {"cleaning"}) => job[w].rows = index

\* The index is the end of the checkpoints' order.
IndexIsEnd ==
  /\ \A i \in 1..Len(index) : index[i] = ListedUpTo - Len(index) + i
  /\ Len(index) >= ListedUpTo \/ Len(index) >= MaxCheckpoints

CheckpointInv == beside \/ (OneCheckpoint /\ StoredFirst /\ (crashed \/ IndexIsEnd))

\* A session that is in no checkpoint, or leaves its own, disturbs nothing.
LEMMA LeavesCheckpoint ==
  ASSUME FilesTypes, OneCheckpoint, StoredFirst, crashed \/ IndexIsEnd,
         NEW w \in Writers, ~InCheckpoint(w)', pc[w] # "blobbed" \/ crashed',
         \A x \in Writers \ {w} : pc'[x] = pc[x] /\ job'[x] = job[x],
         UNCHANGED <<index, before>>, crashed => crashed',
         UNCHANGED blobs \/ InCheckpoint(w),
         \A i \in 1..Len(index) : index[i] \in blobs'
  PROVE  OneCheckpoint' /\ StoredFirst' /\ (crashed' \/ IndexIsEnd')
<1>1. OneCheckpoint'
  BY DEF OneCheckpoint, InCheckpoint, At
<1>2. StoredFirst'
  BY DEF OneCheckpoint, StoredFirst, InCheckpoint, At, RowsKept
<1>3. ASSUME ~crashed' PROVE IndexIsEnd'
  <2>1. pc[w] # "blobbed" /\ pc'[w] # "blobbed"
    BY <1>3 DEF InCheckpoint, At
  <2>2. \A x \in Writers : pc'[x] = "blobbed" <=> pc[x] = "blobbed"
    BY <2>1
  <2>3. ListedUpTo' = ListedUpTo
    BY <2>2 DEF ListedUpTo, At
  <2> QED BY <1>3, <2>3 DEF IndexIsEnd
<1> QED BY <1>1, <1>2, <1>3

LEMMA CheckpointKept == FilesTypes /\ CheckpointInv /\ [FilesNext]_fvars => CheckpointInv'
<1> SUFFICES ASSUME FilesTypes, CheckpointInv, [FilesNext]_fvars, ~beside'
             PROVE  OneCheckpoint' /\ StoredFirst' /\ (crashed' \/ IndexIsEnd')
  BY DEF CheckpointInv
<1> USE FilesAssumption
<1> DEFINE Kept == OneCheckpoint' /\ StoredFirst' /\ (crashed' \/ IndexIsEnd')
<1>a. ~beside => OneCheckpoint /\ StoredFirst /\ (crashed \/ IndexIsEnd)
  BY DEF CheckpointInv
<1>b. ASSUME beside' = beside PROVE OneCheckpoint /\ StoredFirst /\ (crashed \/ IndexIsEnd)
  BY <1>a, <1>b
<1>c. ASSUME NEW w \in Writers, Stop(w)
      PROVE  ~InCheckpoint(w)' /\ \A x \in Writers \ {w} : pc'[x] = pc[x] /\ job'[x] = job[x]
  BY <1>c DEF Stop, Go, Do, InCheckpoint, At, FilesTypes
<1>1. ASSUME NEW w \in Writers, NEW place \in {"idle", "read", "backed", "written", "restoring"},
             Go(w, place), \A x \in Writers \ {w} : job'[x] = job[x], pc[w] # "blobbed",
             UNCHANGED <<index, blobs, before, beside, crashed>>
      PROVE  Kept
  <2>1. /\ ~InCheckpoint(w)'
        /\ \A x \in Writers \ {w} : pc'[x] = pc[x] /\ job'[x] = job[x]
    BY <1>1 DEF Go, InCheckpoint, At, FilesTypes
  <2>2. \A i \in 1..Len(index) : index[i] \in blobs'
    BY <1>b, <1>1 DEF StoredFirst
  <2> QED BY <1>b, <1>1, <2>1, <2>2, LeavesCheckpoint
<1>d. ASSUME NEW w \in Writers, NEW j, Do(w, j) PROVE \A x \in Writers \ {w} : job'[x] = job[x]
  BY <1>d DEF Do, FilesTypes
<1>2. ASSUME NEW w \in Writers, \E op \in {"edit", "patch"} : Begins(w, op) PROVE Kept
  BY <1>1, <1>2, <1>d DEF Begins, At
<1>3. ASSUME NEW w \in Writers, BeginUndo(w) PROVE Kept
  BY <1>1, <1>3, <1>d DEF BeginUndo, At
<1>4. ASSUME NEW w \in Writers, Backup(w) PROVE Kept
  BY <1>1, <1>4 DEF Backup, At
<1>5. ASSUME NEW w \in Writers, Refused(w) PROVE Kept
  BY <1>1, <1>5, <1>d DEF Refused, Stop, At
<1>6. ASSUME NEW w \in Writers, Write(w) PROVE Kept
  <2>1. CASE job[w].op = "undo"
    BY <1>1, <1>6, <1>d, <2>1 DEF Write, Stop, At
  <2>2. CASE job[w].op # "undo"
    BY <1>1, <1>6, <2>2 DEF Write, At
  <2> QED BY <2>1, <2>2
<1>7. ASSUME NEW w \in Writers, BeginRewind(w) PROVE Kept
  BY <1>1, <1>7, <1>d DEF BeginRewind, Stop, At
<1>8. ASSUME NEW w \in Writers, StoreBlobs(w) PROVE Kept
  <2>1. ~beside /\ Storing(w) = {}
    BY <1>8 DEF StoreBlobs
  <2>2. OneCheckpoint /\ StoredFirst /\ (crashed \/ IndexIsEnd)
    BY <1>a, <2>1
  <2>3. \A x \in Writers : ~InCheckpoint(x)
    BY <1>8, <2>1 DEF StoreBlobs, Storing, InCheckpoint, At
  <2>4. Len(before) \in Nat /\ Len(before') = Len(before) + 1
    BY <1>8, Extended DEF StoreBlobs, FilesTypes, Jobs
  <2>5. /\ pc' = [pc EXCEPT ![w] = "blobbed"] /\ UNCHANGED <<index, crashed>>
        /\ blobs' = blobs \cup {Len(before) + 1}
        /\ job'[w].id = Len(before) + 1
    BY <1>8 DEF StoreBlobs, Go, Do, FilesTypes, Jobs
  <2>6. \A x \in Writers : InCheckpoint(x)' <=> x = w
    BY <2>3, <2>5 DEF InCheckpoint, At, FilesTypes
  <2>7. pc'[w] = "blobbed"
    BY <2>5 DEF FilesTypes
  <2>8. OneCheckpoint'
    BY <2>4, <2>5, <2>6 DEF OneCheckpoint
  <2>9. StoredFirst'
    BY <2>2, <2>4, <2>5, <2>6, <2>7 DEF StoredFirst, InCheckpoint, At
  <2>10. ListedUpTo' = ListedUpTo
    BY <2>3, <2>4, <2>7 DEF ListedUpTo, At, InCheckpoint
  <2>11. crashed' \/ IndexIsEnd'
    BY <2>2, <2>5, <2>10 DEF IndexIsEnd
  <2> QED BY <2>8, <2>9, <2>11
<1>9. ASSUME NEW w \in Writers, AppendRow(w) PROVE Kept
  <2>1. OneCheckpoint /\ StoredFirst /\ (crashed \/ IndexIsEnd)
    BY <1>9, <1>b DEF AppendRow
  <2>2. /\ pc[w] = "blobbed" /\ pc' = [pc EXCEPT ![w] = "listed"] /\ job[w].id = Len(before)
        /\ UNCHANGED <<blobs, before, job, crashed>> /\ Len(before) \in blobs
        /\ \A x \in Writers : InCheckpoint(x) => x = w
    BY <1>9, <2>1 DEF AppendRow, At, Go, OneCheckpoint, StoredFirst, InCheckpoint
  <2>3. \A x \in Writers : (InCheckpoint(x)' => x = w) /\ pc'[x] # "blobbed" /\ pc'[w] = "listed"
    BY <2>2 DEF InCheckpoint, At, FilesTypes
  <2>4. OneCheckpoint'
    BY <2>2, <2>3 DEF OneCheckpoint
  <2>5. /\ index \in Seq(Nat) /\ Len(before) \in Nat /\ index' = Append(index, Len(before))
    BY <1>9, <2>2 DEF AppendRow, FilesTypes
  <2>6. /\ Len(index) \in Nat /\ Len(index') = Len(index) + 1
        /\ index'[Len(index) + 1] = Len(before)
        /\ \A i \in 1..Len(index) : index'[i] = index[i]
    BY <2>5, Extended
  <2>7. \A i \in 1..Len(index') : index'[i] \in blobs'
    BY <2>1, <2>2, <2>6 DEF StoredFirst
  <2>8. StoredFirst'
    BY <2>3, <2>7 DEF StoredFirst, InCheckpoint, At
  <2>9. ListedUpTo = Len(before) - 1 /\ ListedUpTo' = Len(before)
    BY <2>2, <2>3 DEF ListedUpTo, At
  <2>10. ASSUME ~crashed PROVE IndexIsEnd'
    <3>1. IndexIsEnd
      BY <2>1, <2>10
    <3>2. ASSUME NEW i \in 1..Len(index') PROVE index'[i] = ListedUpTo' - Len(index') + i
      BY <2>5, <2>6, <2>9, <3>1 DEF IndexIsEnd
    <3>3. Len(index') >= ListedUpTo' \/ Len(index') >= MaxCheckpoints
      BY <2>5, <2>6, <2>9, <3>1 DEF IndexIsEnd
    <3> QED BY <3>2, <3>3 DEF IndexIsEnd
  <2> QED BY <2>2, <2>4, <2>8, <2>10
<1>10. ASSUME NEW w \in Writers, Checkpointed(w), InCheckpoint(w), pc[w] # "blobbed",
              UNCHANGED <<index, before, beside, crashed>>, \A i \in 1..Len(index) : index[i] \in blobs'
       PROVE  Kept
  <2>1. ~InCheckpoint(w)' /\ \A x \in Writers \ {w} : pc'[x] = pc[x] /\ job'[x] = job[x]
    <3>1. CASE job[w].op = "rewind"
      BY <1>10, <3>1 DEF Checkpointed, Go, InCheckpoint, At, FilesTypes
    <3> QED BY <1>c, <1>10, <3>1 DEF Checkpointed
  <2> QED BY <1>b, <1>10, <2>1, LeavesCheckpoint
<1>11. ASSUME NEW w \in Writers, ReadIndex(w) PROVE Kept
  <2>1. OneCheckpoint /\ StoredFirst /\ (crashed \/ IndexIsEnd)
    BY <1>11, <1>b DEF ReadIndex
  <2>2. CASE Len(index) <= MaxCheckpoints
    BY <1>10, <1>11, <2>1, <2>2 DEF ReadIndex, InCheckpoint, At, StoredFirst
  <2>3. CASE ~(Len(index) <= MaxCheckpoints)
    <3>1. /\ pc[w] = "listed" /\ pc' = [pc EXCEPT ![w] = "rotating"]
          /\ job' = [job EXCEPT ![w] = [job[w] EXCEPT !.rows = RowsKept(index)]]
          /\ UNCHANGED <<index, blobs, before, crashed>>
      BY <1>11, <2>3 DEF ReadIndex, At, Go, Do
    <3>2. job'[w].rows = RowsKept(index) /\ job'[w].id = job[w].id
      BY <3>1 DEF FilesTypes, Jobs
    <3>3. \A x \in Writers \ {w} : pc'[x] = pc[x] /\ job'[x] = job[x] /\ ~InCheckpoint(x)
      BY <2>1, <3>1 DEF FilesTypes, OneCheckpoint, InCheckpoint, At
    <3>4. pc'[w] = "rotating"
      BY <3>1 DEF FilesTypes
    <3>5. OneCheckpoint'
      BY <2>1, <3>1, <3>2, <3>3, <3>4 DEF OneCheckpoint, InCheckpoint, At
    <3>6. StoredFirst'
      BY <2>1, <3>1, <3>2, <3>3, <3>4 DEF StoredFirst, InCheckpoint, At, RowsKept
    <3>7. ListedUpTo' = ListedUpTo
      <4>1. \A x \in Writers : pc'[x] # "blobbed" /\ pc[x] # "blobbed"
        BY <3>1, <3>3, <3>4 DEF InCheckpoint, At
      <4> QED BY <3>1, <4>1 DEF ListedUpTo, At
    <3>8. crashed' \/ IndexIsEnd'
      BY <2>1, <3>1, <3>7 DEF IndexIsEnd
    <3> QED BY <3>5, <3>6, <3>8
  <2> QED BY <2>2, <2>3
<1>12. ASSUME NEW w \in Writers, RewriteIndex(w) PROVE Kept
  <2>1. OneCheckpoint /\ StoredFirst /\ (crashed \/ IndexIsEnd)
    BY <1>12, <1>b DEF RewriteIndex
  <2>2. /\ pc[w] = "rotating" /\ pc' = [pc EXCEPT ![w] = "cleaning"]
        /\ UNCHANGED <<blobs, before, job, crashed>>
        /\ job[w].rows = Newest(MaxCheckpoints, index) /\ index' = job[w].rows
    BY <1>12, <2>1 DEF RewriteIndex, StoredFirst, At, Go, RowsKept
  <2>3. \A x \in Writers \ {w} : pc'[x] = pc[x] /\ ~InCheckpoint(x)
    BY <2>1, <2>2 DEF FilesTypes, OneCheckpoint, InCheckpoint, At
  <2>4. pc'[w] = "cleaning"
    BY <2>2 DEF FilesTypes
  <2>5. OneCheckpoint'
    BY <2>1, <2>2, <2>3, <2>4 DEF OneCheckpoint, InCheckpoint, At
  <2>6. /\ Len(index) \in Nat
        /\ Len(index') = IF Len(index) > MaxCheckpoints THEN MaxCheckpoints ELSE Len(index)
        /\ \A i \in 1..Len(index') : index'[i] = index[Len(index) - Len(index') + i]
    <3>1. index \in Seq(Nat) /\ index' = Newest(MaxCheckpoints, index)
      BY <2>2 DEF FilesTypes
    <3> QED BY <3>1, NewestIsEnd
  <2>7. \A i \in 1..Len(index') :
           /\ Len(index) - Len(index') + i \in 1..Len(index)
           /\ index'[i] = index[Len(index) - Len(index') + i]
    <3>1. Len(index') \in Nat /\ Len(index') <= Len(index)
      BY <2>6
    <3>2. ASSUME NEW i \in 1..Len(index') PROVE Len(index) - Len(index') + i \in 1..Len(index)
      BY <2>6, <3>1
    <3> QED BY <2>6, <3>2
  <2>8. \A i \in 1..Len(index') : index'[i] \in blobs'
    BY <2>1, <2>2, <2>7 DEF StoredFirst
  <2>9. StoredFirst'
    BY <2>2, <2>3, <2>4, <2>8 DEF StoredFirst, InCheckpoint, At
  <2>10. ListedUpTo' = ListedUpTo /\ ListedUpTo = Len(before) /\ Len(before) \in Nat
    <3>1. \A x \in Writers : pc'[x] # "blobbed" /\ pc[x] # "blobbed"
      BY <2>2, <2>3, <2>4 DEF InCheckpoint, At
    <3> QED BY <2>2, <3>1 DEF ListedUpTo, At, FilesTypes
  <2>11. ASSUME ~crashed PROVE IndexIsEnd'
    <3>1. IndexIsEnd
      BY <2>1, <2>11
    <3>2. ASSUME NEW i \in 1..Len(index') PROVE index'[i] = ListedUpTo' - Len(index') + i
      <4> DEFINE k == Len(index) - Len(index') + i
      <4>1. k \in 1..Len(index) /\ index'[i] = index[k]
        BY <2>7
      <4>2. index[k] = ListedUpTo - Len(index) + k
        BY <3>1, <4>1 DEF IndexIsEnd
      <4> QED BY <2>6, <2>10, <4>1, <4>2
    <3>3. Len(index') >= ListedUpTo' \/ Len(index') >= MaxCheckpoints
      BY <2>6, <2>10, <3>1 DEF IndexIsEnd
    <3> QED BY <3>2, <3>3 DEF IndexIsEnd
  <2> QED BY <2>2, <2>5, <2>9, <2>11
<1>13. ASSUME NEW w \in Writers, CleanBlobs(w) PROVE Kept
  <2>1. OneCheckpoint /\ StoredFirst /\ (crashed \/ IndexIsEnd)
    BY <1>13, <1>b DEF CleanBlobs
  <2>2. pc[w] = "cleaning" /\ job[w].rows = index /\ blobs' = blobs \cap ToSet(index)
    BY <1>13, <2>1 DEF CleanBlobs, At, StoredFirst
  <2>3. \A i \in 1..Len(index) : index[i] \in blobs'
    BY <2>1, <2>2 DEF StoredFirst, ToSet, FilesTypes
  <2> QED BY <1>10, <1>13, <2>2, <2>3 DEF CleanBlobs, InCheckpoint, At
<1>14. ASSUME NEW w \in Writers, Restore(w) PROVE Kept
  BY <1>1, <1>14, <1>d DEF Restore, Stop, At
<1>15. ASSUME NEW w \in Writers, Crash(w) PROVE Kept
  <2>1. OneCheckpoint /\ StoredFirst /\ (crashed \/ IndexIsEnd)
    BY <1>15, <1>b DEF Crash
  <2>2. /\ crashed' = TRUE /\ UNCHANGED <<blobs, before>>
        /\ ~InCheckpoint(w)' /\ \A x \in Writers \ {w} : pc'[x] = pc[x] /\ job'[x] = job[x]
    BY <1>c, <1>15 DEF Crash
  <2>3. CASE index' = index
    BY <2>1, <2>2, <2>3, LeavesCheckpoint DEF StoredFirst
  <2>4. CASE index' # index
    <3>1. pc[w] = "rotating" /\ index' = <<>>
      BY <1>15, <2>4 DEF Crash, At
    <3>2. \A x \in Writers : ~InCheckpoint(x)'
      BY <2>1, <2>2, <3>1 DEF OneCheckpoint, InCheckpoint, At
    <3>3. Len(index') = 0
      BY <3>1
    <3> QED BY <2>2, <3>2, <3>3 DEF OneCheckpoint, StoredFirst, InCheckpoint, At
  <2> QED BY <2>3, <2>4
<1>16. ASSUME UNCHANGED <<index, blobs, before, pc, job, beside, crashed>> PROVE Kept
  BY <1>b, <1>16
     DEF OneCheckpoint, StoredFirst, IndexIsEnd, InCheckpoint, At, ListedUpTo, RowsKept
<1> QED BY <1>2, <1>3, <1>4, <1>5, <1>6, <1>7, <1>8, <1>9, <1>11, <1>12, <1>13, <1>14, <1>15, <1>16
        DEF FilesNext, WriteFile, InsertFile, ApplyPatch, EditFile, EditRange, Other, fvars

THEOREM CheckpointInvariant == FilesSpec => []CheckpointInv
<1>1. FilesInit => CheckpointInv
  BY DEF FilesInit, CheckpointInv, OneCheckpoint, StoredFirst, IndexIsEnd, InCheckpoint, At, ListedUpTo
<1> QED BY <1>1, FilesTypesHold, CheckpointKept, PTL DEF FilesSpec

\* What the index lists can be brought back; and it lists the newest checkpoints.
THEOREM CheckpointsAreKept == FilesSpec => []CheckpointsStay
<1>1. FilesTypes /\ CheckpointInv => CheckpointsStay
  <2> SUFFICES ASSUME FilesTypes, OneCheckpoint, StoredFirst, crashed \/ IndexIsEnd
               PROVE  /\ ToSet(index) \subseteq blobs
                      /\ crashed \/ {id \in Done : id > Len(before) - MaxCheckpoints}
                                      \subseteq ToSet(index)
    BY DEF CheckpointInv, CheckpointsStay
  <2>1. ToSet(index) \subseteq blobs
    BY DEF StoredFirst, ToSet, FilesTypes
  <2>2. ASSUME ~crashed, NEW id \in Done, id > Len(before) - MaxCheckpoints
        PROVE  id \in ToSet(index)
    <3>1. /\ id \in 1..Len(before) /\ Len(before) \in Nat /\ Len(index) \in Nat
          /\ \A w \in Writers : job[w].id # id
      BY <2>2 DEF Done, FilesTypes
    <3>2. ListedUpTo \in Int /\ ListedUpTo <= Len(before) /\ id <= ListedUpTo
      <4>1. CASE \E w \in Writers : At(w, {"blobbed"})
        <5>1. id # Len(before)
          BY <3>1, <4>1 DEF OneCheckpoint, InCheckpoint, At
        <5> QED BY <3>1, <4>1, <5>1 DEF ListedUpTo
      <4>2. CASE ~ \E w \in Writers : At(w, {"blobbed"})
        BY <3>1, <4>2 DEF ListedUpTo
      <4> QED BY <4>1, <4>2
    <3>3. /\ \A i \in 1..Len(index) : index[i] = ListedUpTo - Len(index) + i
          /\ Len(index) >= ListedUpTo \/ Len(index) >= MaxCheckpoints
      BY <2>2 DEF IndexIsEnd
    <3> DEFINE i == id - ListedUpTo + Len(index)
    <3>4. i \in 1..Len(index) /\ ListedUpTo - Len(index) + i = id
      BY <2>2, <3>1, <3>2, <3>3, FilesAssumption
    <3> HIDE DEF i
    <3>5. index[i] = id
      BY <3>3, <3>4
    <3> QED BY <3>4, <3>5 DEF ToSet, FilesTypes
  <2> QED BY <2>1, <2>2
<1> QED BY <1>1, FilesTypesHold, CheckpointInvariant, PTL

-----------------------------------------------------------------------------
(* The vault *)

Row(r) == \E id \in Nat : \E kind, key, value :
            r = [id |-> id, kind |-> kind, key |-> key, value |-> value]

\* The rows of a file: finitely many, numbered below the next number, each once.
Rows(rows, next) ==
  /\ IsFiniteSet(rows) /\ next \in Nat
  /\ \A r \in rows : Row(r) /\ r.id < next
  /\ \A r, s \in rows : r.id = s.id => r = s

VaultInv ==
  /\ path \in 1..Databases /\ open \in [Processes -> 0..Databases]
  /\ DOMAIN db = 1..Databases
  /\ db = [d \in 1..Databases |-> [rows |-> db[d].rows, next |-> db[d].next]]
  /\ \A d \in 1..Databases : Rows(db[d].rows, db[d].next)

\* What ReviewsStay says of a file that had the rows `old` and has the rows `new`.
ReviewsKept(old, new) ==
  \A r \in old :
    r.kind \in {"latest", "item"} /\ (\A s \in new : s.id # r.id) =>
      /\ r.kind = "item"
      /\ Cardinality({s \in new : s.kind = "item" /\ s.key = r.key /\ s.id > r.id}) >= PerProject

\* A set of naturals has a least element.
LEMMA LeastNatural ==
  ASSUME NEW T \in SUBSET Nat, T # {}
  PROVE  \E m \in T : \A k \in T : m <= k
<1> DEFINE R == {ss \in Nat \X Nat : ss[1] < ss[2]}
<1>1. IsWellFoundedOn(R, Nat)
  BY NatLessThanWellFounded DEF OpToRel
<1> HIDE DEF R
<1>2. PICK m \in T : \A k \in T : ~ (<<k, m>> \in R)
  BY <1>1, WFMin
<1>3. ASSUME NEW k \in T PROVE m <= k
  <2>1. k \in Nat /\ m \in Nat
    OBVIOUS
  <2>2. k < m => <<k, m>> \in R
    BY <2>1 DEF R
  <2>3. ~(k < m)
    BY <1>2, <2>2
  <2> QED BY <2>1, <2>3
<1> QED BY <1>3

\* In a finite set of numbered things and a part of it, some member of the part has no
\* member of the part beyond it.
LEMMA LatestOf ==
  ASSUME NEW S, IsFiniteSet(S), \A r \in S : r.id \in Nat, NEW C \in SUBSET S, C # {}
  PROVE  \E r \in C : \A s \in C : s.id <= r.id
<1> DEFINE Newer(r) == {s \in S : s.id > r.id}
           Counts == {Cardinality(Newer(r)) : r \in C}
<1>1. ASSUME NEW r \in S PROVE IsFiniteSet(Newer(r)) /\ Cardinality(Newer(r)) \in Nat
  BY FS_Subset, FS_CardinalityType
<1>2. Counts \in SUBSET Nat /\ Counts # {}
  BY <1>1
<1>3. PICK m \in Counts : \A k \in Counts : m <= k
  BY <1>2, LeastNatural
<1>4. PICK r \in C : m = Cardinality(Newer(r))
  BY <1>3
<1>5. ASSUME NEW s \in C, s.id > r.id PROVE FALSE
  <2>1. Newer(s) \subseteq Newer(r) /\ s \in Newer(r) /\ s \notin Newer(s)
    BY <1>5
  <2>2. Newer(s) # Newer(r) /\ Newer(s) \in SUBSET Newer(r)
    BY <2>1
  <2>3. IsFiniteSet(Newer(r)) /\ Cardinality(Newer(r)) \in Nat /\ Cardinality(Newer(s)) \in Nat
    BY <1>1
  <2>4. Cardinality(Newer(s)) <= Cardinality(Newer(r)) /\ Cardinality(Newer(s)) # Cardinality(Newer(r))
    BY <2>2, <2>3, FS_Subset
  <2>5. m <= Cardinality(Newer(s))
    BY <1>3
  <2> QED BY <1>4, <2>3, <2>4, <2>5
<1> QED BY <1>5

-----------------------------------------------------------------------------
(* Retention *)

LEMMA PrunedIs ==
  ASSUME NEW rows
  PROVE  /\ Pruned(rows) \subseteq rows
         /\ \A r \in rows : r.kind \in {"latest", "item"} /\ r \notin ImmutableOverflow(rows)
                              => r \in Pruned(rows)
  BY DEF Pruned, Prunable, Oldest

LEMMA PartOfRows ==
  ASSUME NEW rows, NEW next, Rows(rows, next), NEW part \in SUBSET rows
  PROVE  Rows(part, next)
  BY FS_Subset DEF Rows

\* A review that pruning removes has as many newer ones as are kept, and they are kept.
LEMMA PruningKeepsReviews ==
  ASSUME NEW rows, NEW next, Rows(rows, next)
  PROVE  ReviewsKept(rows, Pruned(rows))
<1> USE VaultAssumption
<1> SUFFICES ASSUME NEW r \in rows, r.kind \in {"latest", "item"},
                    \A s \in Pruned(rows) : s.id # r.id
             PROVE  /\ r.kind = "item"
                    /\ Cardinality({s \in Pruned(rows) : s.kind = "item" /\ s.key = r.key
                                                         /\ s.id > r.id}) >= PerProject
  BY DEF ReviewsKept
<1>0. IsFiniteSet(rows) /\ \A s \in rows : s.id \in Nat
  BY DEF Rows, Row
<1>1. r \in ImmutableOverflow(rows)
  BY PrunedIs
<1>2. r.kind = "item"
  BY <1>1 DEF ImmutableOverflow
<1> DEFINE Newer(s) == {t \in rows : t.kind = "item" /\ t.key = s.key /\ t.id > s.id}
           Over == {s \in rows : s.kind = "item" /\ s.key = r.key /\ Cardinality(Newer(s)) >= PerProject}
           Left == {s \in Pruned(rows) : s.kind = "item" /\ s.key = r.key /\ s.id > r.id}
<1>3. r \in Over
  BY <1>1, <1>2 DEF ImmutableOverflow
<1>4. PICK s \in Over : \A t \in Over : t.id <= s.id
  <2>1. Over \in SUBSET rows /\ Over # {}
    BY <1>3
  <2> HIDE DEF Over
  <2> QED BY <1>0, <2>1, LatestOf
<1>5. s \in rows /\ s.key = r.key /\ r.id <= s.id /\ Cardinality(Newer(s)) >= PerProject
  BY <1>3, <1>4
<1>6. Newer(s) \subseteq Left
  <2> SUFFICES ASSUME NEW t \in Newer(s) PROVE t \in Left
    OBVIOUS
  <2>1. t \in rows /\ t.kind = "item" /\ t.key = r.key /\ t.id > s.id
    BY <1>5
  <2>2. t \notin Over
    BY <1>0, <1>4, <1>5, <2>1
  <2>3. ~(Cardinality(Newer(t)) >= PerProject)
    BY <2>1, <2>2
  <2>4. t \notin ImmutableOverflow(rows)
    BY <2>3 DEF ImmutableOverflow
  <2>5. t \in Pruned(rows)
    BY <2>1, <2>4, PrunedIs
  <2>6. t.id > r.id
    BY <1>0, <1>5, <2>1
  <2> QED BY <2>1, <2>5, <2>6
<1>7. IsFiniteSet(Left) /\ Cardinality(Left) \in Nat
  <2>1. Left \in SUBSET rows
    BY PrunedIs
  <2> HIDE DEF Left
  <2> QED BY <1>0, <2>1, FS_Subset, FS_CardinalityType
<1>8. Cardinality(Newer(s)) \in Nat /\ Cardinality(Newer(s)) <= Cardinality(Left)
  <2> HIDE DEF Left, Newer
  <2>1. Newer(s) \in SUBSET Left
    BY <1>6
  <2> QED BY <1>7, <2>1, FS_Subset, FS_CardinalityType
<1>9. Cardinality(Left) >= PerProject
  <2> HIDE DEF Left, Newer
  <2> QED BY <1>5, <1>7, <1>8
<1> QED BY <1>2, <1>9

\* Rows that a write adds, or writes over, leave every review in its place before pruning.
LEMMA PrunedAfter ==
  ASSUME NEW old, NEW rows, NEW next, Rows(rows, next),
         \A r \in old : r.kind \in {"latest", "item"} =>
           \E s \in rows : s.id = r.id /\ s.kind = r.kind /\ s.key = r.key
  PROVE  Rows(Pruned(rows), next) /\ ReviewsKept(old, Pruned(rows))
<1>1. Rows(Pruned(rows), next)
  BY PrunedIs, PartOfRows
<1>2. ReviewsKept(rows, Pruned(rows))
  BY PruningKeepsReviews
<1>3. ASSUME NEW r \in old, r.kind \in {"latest", "item"}, \A s \in Pruned(rows) : s.id # r.id
      PROVE  /\ r.kind = "item"
             /\ Cardinality({s \in Pruned(rows) : s.kind = "item" /\ s.key = r.key
                                                  /\ s.id > r.id}) >= PerProject
  <2>1. PICK q \in rows : q.id = r.id /\ q.kind = r.kind /\ q.key = r.key
    BY <1>3
  <2> QED BY <1>2, <1>3, <2>1 DEF ReviewsKept
<1> QED BY <1>1, <1>3 DEF ReviewsKept

LEMMA InsertedIs ==
  ASSUME NEW rows, NEW next, Rows(rows, next), NEW kind, NEW key, NEW value
  PROVE  LET more == rows \cup {[id |-> next, kind |-> kind, key |-> key, value |-> value]} IN
         /\ Inserted([rows |-> rows, next |-> next], kind, key, value)
              = [rows |-> more, next |-> next + 1]
         /\ Rows(more, next + 1) /\ ReviewsKept(rows, more)
<1> DEFINE new == [id |-> next, kind |-> kind, key |-> key, value |-> value]
           more == rows \cup {new}
<1> DEFINE d == [rows |-> rows, next |-> next]
<1>1. Inserted(d, kind, key, value) = [rows |-> more, next |-> next + 1]
  <2>1. /\ Inserted(d, kind, key, value) = [d EXCEPT !.rows = @ \cup {new}, !.next = @ + 1]
    BY DEF Inserted
  <2> HIDE DEF new
  <2> QED BY <2>1
<1>2. next \in Nat /\ new.id = next /\ Row(new)
  BY DEF Rows, Row
<1> HIDE DEF new
<1>3. \A r \in rows : Row(r) /\ r.id \in Nat /\ r.id < next
  BY DEF Rows, Row
<1>4. IsFiniteSet(more)
  BY FS_AddElement DEF Rows
<1>5. \A r \in more : Row(r) /\ r.id < next + 1
  BY <1>2, <1>3
<1>6. \A r, s \in more : r.id = s.id => r = s
  BY <1>2, <1>3 DEF Rows
<1>7. Rows(more, next + 1)
  BY <1>2, <1>4, <1>5, <1>6 DEF Rows
<1>8. ReviewsKept(rows, more)
  BY DEF ReviewsKept
<1> QED BY <1>1, <1>7, <1>8 DEF new

\* The row that Upserted writes over is one of its kind and key.
LEMMA LastIsOne ==
  ASSUME NEW rows, NEW next, Rows(rows, next), NEW same \in SUBSET rows, same # {}
  PROVE  (CHOOSE r \in same : \A s \in same : s.id <= r.id) \in same
<1>1. IsFiniteSet(rows) /\ \A r \in rows : r.id \in Nat
  BY DEF Rows, Row
<1>2. \E r \in same : \A s \in same : s.id <= r.id
  BY <1>1, LatestOf
<1> QED BY <1>2

LEMMA WrittenOver ==
  ASSUME NEW rows, NEW next, Rows(rows, next), NEW last \in rows,
         NEW over, Row(over), over.id = last.id, over.kind = last.kind, over.key = last.key
  PROVE  LET put == (rows \ {last}) \cup {over} IN
         /\ Rows(put, next)
         /\ \A r \in rows : \E s \in put : s.id = r.id /\ s.kind = r.kind /\ s.key = r.key
<1> DEFINE put == (rows \ {last}) \cup {over}
<1>1. IsFiniteSet(put)
  BY FS_RemoveElement, FS_AddElement DEF Rows
<1>2. \A r \in put : Row(r) /\ r.id < next
  BY DEF Rows
<1>3. \A r, s \in put : r.id = s.id => r = s
  BY DEF Rows
<1>4. Rows(put, next)
  BY <1>1, <1>2, <1>3 DEF Rows
<1>5. \A r \in rows : \E s \in put : s.id = r.id /\ s.kind = r.kind /\ s.key = r.key
  OBVIOUS
<1> QED BY <1>4, <1>5

LEMMA UpsertedIs ==
  ASSUME NEW rows, NEW next, Rows(rows, next), NEW kind, NEW key, NEW value,
         NEW d, d = [rows |-> rows, next |-> next]
  PROVE  \E new, n : /\ Upserted(d, kind, key, value) = [rows |-> new, next |-> n]
                     /\ Rows(new, n) /\ ReviewsKept(rows, new)
<1> DEFINE same == Same(d, kind, key)
           last == CHOOSE r \in same : \A s \in same : s.id <= r.id
           put == IF same = {} THEN Inserted(d, kind, key, value)
                  ELSE [d EXCEPT !.rows = (@ \ {last}) \cup {[last EXCEPT !.value = value]}]
<1>1. Upserted(d, kind, key, value) = [put EXCEPT !.rows = Pruned(@)]
  BY DEF Upserted
<1>2. \E more, n : /\ put = [rows |-> more, next |-> n] /\ Rows(more, n)
                   /\ \A r \in rows : r.kind \in {"latest", "item"} =>
                        \E s \in more : s.id = r.id /\ s.kind = r.kind /\ s.key = r.key
  <2>1. CASE same = {}
    <3> DEFINE more == rows \cup {[id |-> next, kind |-> kind, key |-> key, value |-> value]}
    <3>1. put = [rows |-> more, next |-> next + 1] /\ Rows(more, next + 1) /\ rows \subseteq more
      BY <2>1, InsertedIs
    <3> QED BY <3>1
  <2>2. CASE same # {}
    <3> DEFINE over == [last EXCEPT !.value = value]
               more == (rows \ {last}) \cup {over}
    <3>1. same \in SUBSET rows
      BY DEF Same
    <3>2. put = [rows |-> more, next |-> next]
      <4> HIDE DEF same, last
      <4> QED BY <2>2
    <3>3. /\ Rows(more, next)
          /\ \A r \in rows : \E s \in more : s.id = r.id /\ s.kind = r.kind /\ s.key = r.key
      <4>1. last \in rows
        <5> HIDE DEF same
        <5> QED BY <2>2, <3>1, LastIsOne
      <4>2. PICK id, k, x, v :
                id \in Nat /\ last = [id |-> id, kind |-> k, key |-> x, value |-> v]
        <5> HIDE DEF last
        <5> QED BY <4>1 DEF Rows, Row
      <4>3. over = [id |-> id, kind |-> k, key |-> x, value |-> value]
        <5> HIDE DEF last
        <5> QED BY <4>2
      <4>4. Row(over) /\ over.id = last.id /\ over.kind = last.kind /\ over.key = last.key
        <5> HIDE DEF last, over
        <5> QED BY <4>2, <4>3 DEF Row
      <4> HIDE DEF same, last, over
      <4> QED BY <4>1, <4>4, WrittenOver
    <3> HIDE DEF put, more
    <3> QED BY <3>2, <3>3
  <2> QED BY <2>1, <2>2
<1> HIDE DEF put
<1>3. PICK more, n : /\ put = [rows |-> more, next |-> n] /\ Rows(more, n)
                     /\ \A r \in rows : r.kind \in {"latest", "item"} =>
                          \E s \in more : s.id = r.id /\ s.kind = r.kind /\ s.key = r.key
  BY <1>2
<1>4. [put EXCEPT !.rows = Pruned(@)] = [rows |-> Pruned(more), next |-> n]
  BY <1>3
<1>5. Rows(Pruned(more), n) /\ ReviewsKept(rows, Pruned(more))
  BY <1>3, PrunedAfter
<1> QED BY <1>1, <1>4, <1>5

-----------------------------------------------------------------------------
(* The steps *)

\* What a step does to the rows of one file.
Writes(d) ==
  \E rows, next : /\ db' = [db EXCEPT ![d] = [rows |-> rows, next |-> next]]
                  /\ Rows(rows, next) /\ ReviewsKept(db[d].rows, rows)

LEMMA FileIs ==
  ASSUME VaultInv, NEW d \in 1..Databases
  PROVE  \E rows, next : db[d] = [rows |-> rows, next |-> next] /\ Rows(rows, next)
  BY DEF VaultInv

\* Every step that changes a file writes well-formed rows that keep its reviews.
LEMMA StepWrites ==
  ASSUME VaultInv, [VaultNext]_vvars
  PROVE  /\ UNCHANGED db \/ \E d \in 1..Databases : Writes(d)
         /\ path' \in 1..Databases /\ open' \in [Processes -> 0..Databases]
<1> USE VaultAssumption
<1> DEFINE Stored == /\ UNCHANGED db \/ \E d \in 1..Databases : Writes(d)
                   /\ path' \in 1..Databases /\ open' \in [Processes -> 0..Databases]
<1>0. path \in 1..Databases /\ open \in [Processes -> 0..Databases]
  BY DEF VaultInv
<1>1. ASSUME NEW p \in Processes, NEW new, NEW rows, NEW next, WriteRows(p, new),
             new = [rows |-> rows, next |-> next], Rows(rows, next), ReviewsKept(My(p).rows, rows)
      PROVE  Stored
  <2>1. open[p] \in 1..Databases
    BY <1>0, <1>1 DEF WriteRows
  <2>2. Writes(open[p])
    BY <1>1 DEF WriteRows, Writes, My
  <2> QED BY <1>0, <1>1, <2>1, <2>2 DEF WriteRows
<1>2. ASSUME NEW p \in Processes, NEW new, WriteRows(p, new)
      PROVE  \E rows, next : My(p) = [rows |-> rows, next |-> next] /\ Rows(rows, next)
  <2>1. open[p] \in 1..Databases
    BY <1>0, <1>2 DEF WriteRows
  <2> QED BY <2>1, FileIs DEF My
<1>3. ASSUME NEW p \in Processes, NEW kind, NEW key, NEW value,
             WriteRows(p, Inserted(My(p), kind, key, value))
      PROVE  Stored
  <2>1. PICK rows, next : My(p) = [rows |-> rows, next |-> next] /\ Rows(rows, next)
    BY <1>2, <1>3
  <2> DEFINE more == rows \cup {[id |-> next, kind |-> kind, key |-> key, value |-> value]}
  <2>2. /\ Inserted(My(p), kind, key, value) = [rows |-> more, next |-> next + 1]
        /\ Rows(more, next + 1) /\ ReviewsKept(My(p).rows, more)
    BY <2>1, InsertedIs
  <2> QED BY <1>1, <1>3, <2>2
<1>4. ASSUME NEW p \in Processes, NEW kind, NEW key, NEW value,
             WriteRows(p, Upserted(My(p), kind, key, value))
      PROVE  Stored
  <2>1. PICK rows, next : My(p) = [rows |-> rows, next |-> next] /\ Rows(rows, next)
    BY <1>2, <1>4
  <2>2. PICK new, n : /\ Upserted(My(p), kind, key, value) = [rows |-> new, next |-> n]
                      /\ Rows(new, n) /\ ReviewsKept(rows, new)
    BY <2>1, UpsertedIs
  <2> QED BY <1>1, <1>4, <2>1, <2>2
<1>5. ASSUME NEW p \in Processes, Open(p) PROVE Stored
  <2>1. PICK rows, next : db[path] = [rows |-> rows, next |-> next] /\ Rows(rows, next)
    BY <1>0, FileIs
  <2>2. db' = [db EXCEPT ![path] = [rows |-> Pruned(rows), next |-> next]]
    <3>1. [db[path] EXCEPT !.rows = Pruned(@)] = [rows |-> Pruned(rows), next |-> next]
      BY <2>1
    <3>2. db' = [db EXCEPT ![path] = [db[path] EXCEPT !.rows = Pruned(@)]]
      BY <1>5 DEF Open
    <3> QED BY <3>1, <3>2
  <2>3. Rows(Pruned(rows), next) /\ ReviewsKept(db[path].rows, Pruned(rows))
    <3>1. db[path].rows = rows
      BY <2>1
    <3> QED BY <2>1, <3>1, PrunedAfter
  <2>4. Writes(path)
    BY <2>2, <2>3 DEF Writes
  <2>5. path' = path /\ open' \in [Processes -> 0..Databases]
    BY <1>0, <1>5 DEF Open
  <2> QED BY <1>0, <2>4, <2>5
<1>6. ASSUME NEW p \in Processes, OpenLocked(p) \/ Close(p) PROVE Stored
  BY <1>0, <1>6 DEF OpenLocked, Close
<1>7. ASSUME NEW p \in Processes, AddNote(p) \/ Archive(p) PROVE Stored
  BY <1>3, <1>7 DEF AddNote, Archive
<1>8. ASSUME NEW p \in Processes, Prune(p) PROVE Stored
  <2>1. PICK rows, next : My(p) = [rows |-> rows, next |-> next] /\ Rows(rows, next)
    BY <1>2, <1>8 DEF Prune
  <2>2. [My(p) EXCEPT !.rows = Pruned(@)] = [rows |-> Pruned(rows), next |-> next]
    BY <2>1
  <2>3. Rows(Pruned(rows), next) /\ ReviewsKept(My(p).rows, Pruned(rows))
    BY <2>1, PrunedAfter
  <2>4. WriteRows(p, [rows |-> Pruned(rows), next |-> next])
    BY <1>8, <2>2 DEF Prune
  <2> QED BY <1>1, <2>3, <2>4
<1>9. ASSUME NEW p \in Processes, Review(p) PROVE Stored
  BY <1>4, <1>9 DEF Review
<1>10. ASSUME NEW p \in Processes, ReviewItem(p) PROVE Stored
  <2> DEFINE put == Inserted(My(p), "item", writes[p].of, 0)
  <2>0. WriteRows(p, [put EXCEPT !.rows = Pruned(@)])
    BY <1>10 DEF ReviewItem
  <2>1. PICK rows, next : My(p) = [rows |-> rows, next |-> next] /\ Rows(rows, next)
    BY <1>2, <2>0
  <2> DEFINE more == rows \cup {[id |-> next, kind |-> "item", key |-> writes[p].of, value |-> 0]}
  <2>2. put = [rows |-> more, next |-> next + 1] /\ Rows(more, next + 1) /\ rows \subseteq more
    BY <2>1, InsertedIs
  <2> HIDE DEF put, more
  <2>3. [put EXCEPT !.rows = Pruned(@)] = [rows |-> Pruned(more), next |-> next + 1]
    BY <2>2
  <2>4. Rows(Pruned(more), next + 1) /\ ReviewsKept(rows, Pruned(more))
    BY <2>2, PrunedAfter
  <2> QED BY <1>1, <2>0, <2>1, <2>3, <2>4
<1>11. ASSUME NEW p \in Processes, Index(p) PROVE Stored
  BY <1>0, <1>11 DEF Index
<1>12. ASSUME NEW p \in Processes, IndexFile(p) PROVE Stored
  BY <1>4, <1>12 DEF IndexFile
<1>13. ASSUME NEW p \in Processes, IndexDone(p) PROVE Stored
  <2> DEFINE w == writes[p]
             gone == {r \in My(p).rows : r.kind = "note" /\ r.key \in Sources
                                         /\ w.prev[r.key] > 0 /\ w.found[r.key] = 0}
             d == [My(p) EXCEPT !.rows = @ \ gone]
  <2>0. WriteRows(p, Upserted(d, "meta", "index", w.found))
    BY <1>13 DEF IndexDone
  <2>1. PICK rows, next : My(p) = [rows |-> rows, next |-> next] /\ Rows(rows, next)
    BY <1>2, <2>0
  <2>2. gone \subseteq {r \in rows : r.kind = "note"}
    BY <2>1
  <2> HIDE DEF gone
  <2>3. d = [rows |-> rows \ gone, next |-> next]
    BY <2>1
  <2>4. Rows(rows \ gone, next)
    BY <2>1, PartOfRows
  <2>5. PICK new, n : /\ Upserted(d, "meta", "index", w.found) = [rows |-> new, next |-> n]
                      /\ Rows(new, n) /\ ReviewsKept(rows \ gone, new)
    <3> DEFINE rest == rows \ gone
               found == w.found
    <3>1. d = [rows |-> rest, next |-> next] /\ Rows(rest, next)
      BY <2>3, <2>4
    <3> HIDE DEF d, w, rest, found
    <3>2. \E new, n : /\ Upserted(d, "meta", "index", found) = [rows |-> new, next |-> n]
                      /\ Rows(new, n) /\ ReviewsKept(rest, new)
      BY <3>1, UpsertedIs
    <3> QED BY <3>2 DEF rest, found
  <2>6. ReviewsKept(rows, new)
    BY <2>2, <2>5 DEF ReviewsKept
  <2> QED BY <1>1, <2>0, <2>1, <2>5, <2>6
<1>14. ASSUME NEW p \in Processes, IndexSummary(p) PROVE Stored
  BY <1>4, <1>14 DEF IndexSummary
<1>15. ASSUME Edit \/ UNCHANGED vvars PROVE Stored
  BY <1>0, <1>15 DEF Edit, vvars
<1> QED BY <1>5, <1>6, <1>7, <1>8, <1>9, <1>10, <1>11, <1>12, <1>13, <1>14, <1>15 DEF VaultNext

LEMMA VaultKept == VaultInv /\ [VaultNext]_vvars => VaultInv'
<1> SUFFICES ASSUME VaultInv, [VaultNext]_vvars PROVE VaultInv'
  OBVIOUS
<1>1. /\ UNCHANGED db \/ \E d \in 1..Databases : Writes(d)
      /\ path' \in 1..Databases /\ open' \in [Processes -> 0..Databases]
  BY StepWrites
<1>2. CASE UNCHANGED db
  BY <1>1, <1>2 DEF VaultInv
<1>3. ASSUME NEW d \in 1..Databases, Writes(d) PROVE VaultInv'
  <2>1. PICK rows, next : /\ db' = [db EXCEPT ![d] = [rows |-> rows, next |-> next]]
                          /\ Rows(rows, next)
    BY <1>3 DEF Writes
  <2>2. /\ DOMAIN db' = 1..Databases /\ db'[d].rows = rows /\ db'[d].next = next
        /\ db'[d] = [rows |-> rows, next |-> next]
        /\ \A x \in (1..Databases) \ {d} : db'[x] = db[x]
    BY <2>1 DEF VaultInv
  <2>3. \A x \in 1..Databases : db'[x] = [rows |-> db'[x].rows, next |-> db'[x].next]
    BY <2>2, FileIs
  <2>4. db' = [x \in 1..Databases |-> [rows |-> db'[x].rows, next |-> db'[x].next]]
    BY <2>1, <2>2, <2>3 DEF VaultInv
  <2>5. \A x \in 1..Databases : Rows(db'[x].rows, db'[x].next)
    BY <2>1, <2>2 DEF VaultInv
  <2> QED BY <1>1, <2>2, <2>4, <2>5 DEF VaultInv
<1> QED BY <1>1, <1>2, <1>3

\* The inductive invariant of the vault: its rows are finitely many, and each has its number.
THEOREM VaultInvariant == VaultSpec => []VaultInv
<1> USE VaultAssumption
<1>1. VaultInit => VaultInv
  <2> SUFFICES ASSUME VaultInit PROVE VaultInv
    OBVIOUS
  <2>1. \A d \in 1..Databases : db[d] = [rows |-> {}, next |-> 1]
    BY DEF VaultInit, Empty
  <2>2. Rows({}, 1)
    BY FS_EmptySet DEF Rows
  <2>3. \A d \in 1..Databases : Rows(db[d].rows, db[d].next)
    BY <2>1, <2>2
  <2> QED BY <2>1, <2>3 DEF VaultInit, VaultInv, Empty
<1> QED BY <1>1, VaultKept, PTL DEF VaultSpec

\* Whatever is written, a review stays, or as many newer ones of its project do.
THEOREM ReviewsAreKept == VaultSpec => ReviewsStay
<1> DEFINE Stays == \A d \in 1..Databases : ReviewsKept(db[d].rows, db'[d].rows)
<1>1. VaultInv /\ [VaultNext]_vvars => [Stays]_vvars
  <2> SUFFICES ASSUME VaultInv, [VaultNext]_vvars, ~UNCHANGED vvars PROVE Stays
    OBVIOUS
  <2>1. CASE UNCHANGED db
    BY <2>1 DEF ReviewsKept
  <2>2. ASSUME NEW d \in 1..Databases, Writes(d) PROVE Stays
    <3>1. PICK rows, next : /\ db' = [db EXCEPT ![d] = [rows |-> rows, next |-> next]]
                            /\ ReviewsKept(db[d].rows, rows)
      BY <2>2 DEF Writes
    <3>2. db'[d].rows = rows /\ \A x \in (1..Databases) \ {d} : db'[x] = db[x]
      BY <3>1 DEF VaultInv
    <3>3. \A x \in (1..Databases) \ {d} : ReviewsKept(db[x].rows, db'[x].rows)
      BY <3>2 DEF ReviewsKept
    <3> QED BY <3>1, <3>2, <3>3
  <2> QED BY <2>1, <2>2, StepWrites
<1>2. [Stays]_vvars <=>
        [\A d \in 1..Databases : \A r \in db[d].rows :
           r.kind \in {"latest", "item"} /\ (\A s \in db'[d].rows : s.id # r.id) =>
             /\ r.kind = "item"
             /\ Cardinality({s \in db'[d].rows : s.kind = "item" /\ s.key = r.key
                                                 /\ s.id > r.id}) >= PerProject]_vvars
  BY DEF ReviewsKept
<1> QED BY <1>1, <1>2, VaultInvariant, PTL DEF VaultSpec, ReviewsStay

-----------------------------------------------------------------------------
(* The installation *)

Backups == [version : Int, whole : BOOLEAN, named : BOOLEAN]

UpgradeTypes ==
  /\ installed \in [version : Int, whole : BOOLEAN]
  /\ tarball \in Backups
  /\ from \in Int /\ target \in Int /\ saved \in BOOLEAN

\* An archive gets its name after it was packed; one that is being named is of
\* the version that runs, as is the one named by this process.
ArchiveIsWhole ==
  /\ tarball.named => tarball.whole
  /\ step \in {"rename", "note"} => tarball.whole /\ tarball.version = from
  /\ step = "note" => tarball.named

\* Until npm is begun, what is installed is the process's own version.
OwnVersion == step \in {"wipe", "pack", "rename", "note"} => installed.version = from

\* `saved` says that the archive is the process's own, from the note on.
SavedIsOwn ==
  /\ step \in {"wipe", "pack", "rename", "note", "restore"} => ~saved
  /\ step \in {"install", "rescue"} /\ saved => tarball.named /\ tarball.version = from

\* Who installs an archive has found it named; only a process that ended has an outcome.
RescueHasBackup ==
  /\ step \in {"rescue", "restore"} => tarball.named
  /\ outcome # "none" => step = "idle"

UpgradeInv ==
  /\ UpgradeTypes /\ ArchiveIsWhole /\ OwnVersion /\ SavedIsOwn /\ RescueHasBackup
  /\ RollbackIsWhole

USE DEF Released

LEMMA UpgradeStarts == UpgradeInit => UpgradeInv
<1> SUFFICES ASSUME UpgradeInit PROVE UpgradeInv
  OBVIOUS
<1>1. UpgradeTypes
  <2>1. tarball \in Backups /\ installed \in [version : Int, whole : BOOLEAN]
    BY DEF UpgradeInit, NoTarball, Backups
  <2>2. from \in Int /\ target \in Int
    BY DEF UpgradeInit
  <2>3. saved \in BOOLEAN
    BY Zenon DEF UpgradeInit
  <2> QED BY <2>1, <2>2, <2>3 DEF UpgradeTypes
<1>2. ~tarball.named /\ step = "idle" /\ outcome = "none" /\ note = 0
  BY DEF UpgradeInit, NoTarball
<1>3. ArchiveIsWhole /\ OwnVersion /\ SavedIsOwn /\ RescueHasBackup
  BY <1>2 DEF ArchiveIsWhole, OwnVersion, SavedIsOwn, RescueHasBackup
<1>4. RollbackIsWhole
  BY <1>2 DEF RollbackIsWhole, RollbackInfo
<1> QED BY <1>1, <1>3, <1>4 DEF UpgradeInv

LEMMA UpgradeKept ==
  ASSUME Latest \in Nat, UpgradeInv, [UpgradeNext]_upvars
  PROVE  UpgradeInv'
<1> USE DEF UpgradeInv, UpgradeTypes, ArchiveIsWhole, OwnVersion, SavedIsOwn, RescueHasBackup,
            RollbackIsWhole, RollbackInfo, Backups
<1>1. CASE Upgrades
  <2>1. target' \in Int /\ UNCHANGED <<installed, tarball, note>>
    BY <1>1 DEF Upgrades
  <2>2. /\ step' = "wipe" /\ from' = installed.version
        /\ saved' = FALSE /\ outcome' = "none"
    BY <1>1 DEF Upgrades, Starts
  <2> QED BY <2>1, <2>2
<1>2. CASE RollsBack
  BY <1>2 DEF RollsBack, Starts
<1>3. CASE ByHand
  BY <1>3 DEF ByHand
<1>4. CASE NothingToPack
  BY <1>4 DEF NothingToPack
<1>5. CASE Wipe
  <2>1. CASE tarball' = NoTarball /\ UNCHANGED <<note, step>>
    <3>1. tarball' \in Backups /\ ~tarball'.named
      BY <2>1 DEF NoTarball
    <3> QED BY <1>5, <2>1, <3>1 DEF Wipe
  <2>2. CASE note' = 0 /\ UNCHANGED <<tarball, step>>
    BY <1>5, <2>2 DEF Wipe
  <2>3. CASE step' = "pack" /\ UNCHANGED <<tarball, note>>
    BY <1>5, <2>3 DEF Wipe
  <2> QED BY <1>5, <2>1, <2>2, <2>3 DEF Wipe
<1>6. CASE Pack
  <2> DEFINE Packed(whole) == [version |-> installed.version, whole |-> whole, named |-> FALSE]
  <2>1. \A whole \in BOOLEAN : Packed(whole) \in Backups
    OBVIOUS
  <2>2. CASE tarball' = Packed(TRUE) /\ step' = "rename"
    <3>1. tarball' \in Backups
      BY <2>1, <2>2
    <3> QED BY <1>6, <2>2, <3>1 DEF Pack
  <2>3. CASE tarball' = Packed(FALSE) /\ step' = "install"
    <3>1. tarball' \in Backups
      BY <2>1, <2>3
    <3> QED BY <1>6, <2>3, <3>1 DEF Pack
  <2>4. CASE step' = "install" /\ UNCHANGED tarball
    BY <1>6, <2>4 DEF Pack
  <2> QED BY <1>6, <2>2, <2>3, <2>4 DEF Pack
<1>7. CASE Rename
  BY <1>7 DEF Rename
<1>8. CASE Note
  BY <1>8 DEF Note
<1>9. CASE NpmBegins
  BY <1>9 DEF NpmBegins
<1>10. CASE Installs
  BY <1>10 DEF Installs, Ends
<1>11. CASE InstallFails
  BY <1>11 DEF InstallFails, Ends
<1>12. CASE Rescues
  BY <1>12 DEF Rescues, Ends
<1>13. CASE Restores
  BY <1>13 DEF Restores, Ends, NoTarball
<1>14. CASE NpmFails
  BY <1>14 DEF NpmFails, Ends
<1>15. CASE Dies
  BY <1>15 DEF Dies, Ends
<1>16. CASE UNCHANGED upvars
  BY <1>16 DEF upvars
<1> QED
  BY <1>1, <1>2, <1>3, <1>4, <1>5, <1>6, <1>7, <1>8, <1>9, <1>10, <1>11, <1>12,
     <1>13, <1>14, <1>15, <1>16 DEF UpgradeNext

-----------------------------------------------------------------------------
\* The inductive invariant of upgrades and rollbacks (upgrade.ts), whatever the
\* releases and wherever processes die.
THEOREM UpgradeInvariant == ASSUME Latest \in Nat PROVE UpgradeSpec => []UpgradeInv
<1>1. UpgradeInit => UpgradeInv
  BY UpgradeStarts
<1>2. UpgradeInv /\ [UpgradeNext]_upvars => UpgradeInv'
  BY UpgradeKept
<1> QED
  BY <1>1, <1>2, PTL DEF UpgradeSpec

\* performRollback and the auto-rollback install wholly packed versions only, and
\* the auto-rollback of a process that made its backup that process's own version.
THEOREM RollbacksAreWhole ==
  ASSUME Latest \in Nat PROVE UpgradeSpec => []RollbackIsWhole
<1>1. UpgradeInv => RollbackIsWhole
  BY DEF UpgradeInv
<1> QED
  BY <1>1, UpgradeInvariant, PTL

-----------------------------------------------------------------------------
(* The headless run *)

\* A run past its preflight began in a clean tree; one that exits with 0 has reset it.
TreeInv ==
  /\ at \in {"preflight", "creating", "asking", "diffing", "cleaning", "exited"}
  /\ at \in {"creating", "asking", "diffing", "cleaning"} => ~owned
  /\ at # "exited" => code = 0
  /\ at = "preflight" => (owned <=> "own" \in changes)
  /\ TreeRestored

\* The inductive invariant of runOneShot with --diff-only.
THEOREM TreeInvariant == OneShotSpec => []TreeInv
<1> USE DEF TreeRestored, Shown
<1>1. OneShotInit => TreeInv
  BY DEF OneShotInit, TreeInv
<1>2. TreeInv /\ [OneShotNext]_oneshotvars => TreeInv'
  <2> SUFFICES ASSUME TreeInv, [OneShotNext]_oneshotvars PROVE TreeInv'
    OBVIOUS
  <2> USE DEF TreeInv, Exit
  <2>1. CASE Preflight \/ NoGit
    BY <2>1 DEF Preflight, NoGit
  <2>2. CASE Creates \/ Answers \/ Throws
    BY <2>2 DEF Creates, Answers, Throws
  <2>3. CASE Changes
    BY <2>3 DEF Changes
  <2>4. CASE Diff
    BY <2>4 DEF Diff
  <2>5. CASE Cleans
    BY <2>5 DEF Cleans, Reset
  <2>6. CASE Interrupt
    BY <2>6 DEF Interrupt
  <2>7. CASE UNCHANGED oneshotvars
    BY <2>7 DEF oneshotvars
  <2> QED BY <2>1, <2>2, <2>3, <2>4, <2>5, <2>6, <2>7 DEF OneShotNext
<1> QED BY <1>1, <1>2, PTL DEF OneShotSpec

\* A --diff-only run that exits with 0 leaves nothing that git shows but what the agent
\* created out of reach of git clean, and takes back nothing of the user's
\* (cleanupDiffOnly).
THEOREM TreeIsRestored == OneShotSpec => []TreeRestored
<1>1. TreeInv => TreeRestored
  BY DEF TreeInv
<1> QED BY <1>1, TreeInvariant, PTL

-----------------------------------------------------------------------------
(* The verification *)

\* A kind that is behind `now` has its verdict, and who held it succeeded at home.
VerifyInv ==
  /\ now \in 1..4 /\ DOMAIN result = Kinds
  /\ commands \in SUBSET Kinds /\ waiting \in BOOLEAN
  /\ waiting => now \in commands
  /\ stage = "level0" => now = 1
  /\ stage \in {"opening", "asking"} => now = 4 /\ L1All /\ reviewed /\ ~passed
  /\ home => \A k \in commands : k < now => result[k] = "false" \/ k \in held
  /\ passed => now = 4 /\ L1All /\ stage = "over" /\ (reviewed => ai = "true")
  /\ session = "open" <=> stage = "asking"

LEMMA SettlesKeeps ==
  ASSUME VerifyInv, NEW verdict, Settles(verdict), UNCHANGED held \/ held' = held \union {now},
         home => verdict = "false" \/ now \in held'
  PROVE  VerifyInv'
<1>1. /\ stage = "commands" /\ waiting /\ waiting' = FALSE /\ now' = now + 1
      /\ result' = [result EXCEPT ![now] = verdict]
      /\ UNCHANGED <<stage, commands, reviewed, home, ai, session, passed>>
  BY DEF Settles, given
<1>2. now \in Kinds /\ now \in commands
  BY <1>1 DEF VerifyInv
<1>3. result'[now] = verdict /\ (\A k \in Kinds : k # now => result'[k] = result[k]) /\ DOMAIN result' = Kinds
  BY <1>1, <1>2 DEF VerifyInv
<1>4. held \subseteq held'
  OBVIOUS
<1>5. now' \in 1..4
  BY <1>1, <1>2 DEF Kinds
<1>6. ASSUME home, NEW k \in commands, k < now' PROVE result'[k] = "false" \/ k \in held'
  <2>1. k \in Kinds /\ now \in Kinds
    BY <1>2 DEF VerifyInv
  <2>2. k = now \/ k < now
    BY <1>1, <1>6, <2>1 DEF Kinds
  <2> QED BY <1>3, <1>4, <1>6, <2>1, <2>2 DEF VerifyInv, Kinds
<1> QED BY <1>1, <1>3, <1>5, <1>6 DEF VerifyInv

\* The inductive invariant of runVerification.
THEOREM VerificationInvariant == VerifySpec => []VerifyInv
<1>1. ASSUME VerifyInit PROVE VerifyInv
  <2>1. DOMAIN result = Kinds /\ now \in 1..4 /\ commands \in SUBSET Kinds
    BY <1>1 DEF VerifyInit
  <2>2. \A k \in commands : ~(k < now)
    BY <1>1, <2>1 DEF VerifyInit, Kinds
  <2> QED BY <1>1, <2>1, <2>2 DEF VerifyInit, VerifyInv
<1>2. VerifyInv /\ [VerifyNext]_vfvars => VerifyInv'
  <2> SUFFICES ASSUME VerifyInv, [VerifyNext]_vfvars PROVE VerifyInv'
    OBVIOUS
  <2> USE DEF given
  <2>1. CASE Level0
    BY <2>1 DEF Level0, VerifyInv, L1All
  <2>2. CASE Launch
    BY <2>2 DEF Launch, VerifyInv, L1All
  <2>3. CASE Exits
    <3>1. PICK ok \in BOOLEAN :
            /\ Settles(IF ok THEN "true" ELSE "false")
            /\ held' = IF ok /\ home THEN held \union {now} ELSE held
      BY <2>3 DEF Exits
    <3> QED BY <3>1, SettlesKeeps
  <2>4. CASE TimesOut
    BY <2>4, SettlesKeeps DEF TimesOut
  <2>5. CASE Fades
    BY <2>5 DEF Fades, VerifyInv, L1All
  <2>6. CASE Skip
    <3>1. /\ now \in Kinds \ commands /\ now' = now + 1
          /\ UNCHANGED <<stage, commands, reviewed, home, waiting, result, held, ai, session, passed>>
          /\ stage = "commands" /\ ~waiting
      BY <2>6 DEF Skip
    <3>2. now' \in 1..4 /\ \A k \in commands : k < now' => k < now
      BY <3>1 DEF VerifyInv, Kinds
    <3> QED BY <3>1, <3>2 DEF VerifyInv, L1All
  <2>7. CASE Level1Done
    BY <2>7 DEF Level1Done, VerifyInv, L1All
  <2>8. CASE Opens
    BY <2>8 DEF Opens, VerifyInv, L1All
  <2>9. CASE Reviews
    BY <2>9 DEF Reviews, Judged, VerifyInv, L1All
  <2>10. CASE UNCHANGED vfvars
    BY <2>10 DEF vfvars, VerifyInv, L1All
  <2> QED BY <2>1, <2>2, <2>3, <2>4, <2>5, <2>6, <2>7, <2>8, <2>9, <2>10 DEF VerifyNext
<1> QED BY <1>1, <1>2, PTL DEF VerifySpec

\* A verification that passed has seen every command of the task succeed, and has the
\* word of the reviewer, whose session is closed (runVerification).
THEOREM VerdictIsEarned == VerifySpec => []PassIsChecked
<1>1. VerifyInv => PassIsChecked
  <2> SUFFICES ASSUME VerifyInv PROVE PassIsChecked
    OBVIOUS
  <2>1. ASSUME passed, home, NEW k \in commands PROVE k \in held
    <3>1. k \in Kinds /\ k < now /\ L1All
      BY <2>1 DEF VerifyInv, Kinds
    <3> QED BY <2>1, <3>1 DEF VerifyInv, L1All
  <2> QED BY <2>1 DEF VerifyInv, PassIsChecked
<1> QED BY <1>1, VerificationInvariant, PTL
=============================================================================

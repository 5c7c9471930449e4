------------------------------ MODULE FileEdits ------------------------------
(***************************************************************************)
(* Edits of one file by the tools of src/src/tools.ts, the backups that    *)
(* /undo restores, and the checkpoints of ReplayStore (src/src/replay.ts)  *)
(* that /rewind restores.  Sessions share both stores, within a process    *)
(* and between processes; commands and editors change the file beside      *)
(* them.  A content of the file is a version, and no file is version 0.    *)
(* pc[w] is where session w awaits:                                        *)
(*   read      the tool has read the file and knows what to write          *)
(*   backed    backupFile returned                                         *)
(*   written   the file is renamed into place, or (rewind) read            *)
(*   blobbed   the contents of the checkpoint are stored                   *)
(*   listed    its line is in the index                                    *)
(*   rotating  the index was read and is over its limit                    *)
(*   cleaning  the index was rewritten                                     *)
(*   restoring rewind has its checkpoint and writes                        *)
(***************************************************************************)
EXTENDS Integers, Sequences, FiniteSets, SequencesExt

CONSTANTS
  Writers,         \* sessions
  Limit,           \* backups that are kept per file
  MaxCheckpoints,  \* lines the index keeps
  Versions,        \* bound: versions are 1..Versions
  Checkpoints,     \* bound: checkpoints are 1..Checkpoints
  MayCrash         \* may a process end, or the disk fail, between two steps?

ASSUME FilesAssumption == Limit \in Nat \ {0} /\ MaxCheckpoints \in Nat \ {0}

VARIABLES
  file, made,      \* the file's version; versions made so far
  backups,         \* the .bak files, oldest first
  index, blobs,    \* checkpoints.jsonl; the ids whose contents are stored
  before,          \* per checkpoint made: the version it can bring back
  pc, job,         \* per session: where it awaits; what it does
  edit,            \* the last tool's edit: what it replaced, and with what
  touched,         \* sessions whose file has changed since they backed it up
  beside, crashed  \* has a checkpoint been made beside another? has a process ended?

fvars == <<file, made, backups, index, blobs, before, pc, job, edit, touched, beside, crashed>>

NoJob == [op |-> "none", read |-> 0, out |-> 0, id |-> 0, rows |-> <<>>]

\* Mutants: the rotations sort the other way.
OldestBackups(all) == SubSeq(all, 1, IF Len(all) > Limit THEN Limit ELSE Len(all))
OldestRows(all) == SubSeq(all, 1, MaxCheckpoints)

Newest(n, s) == SubSeq(s, IF Len(s) > n THEN Len(s) - n + 1 ELSE 1, Len(s))
BackupsKept(all) == Newest(Limit, all)
RowsKept(all) == Newest(MaxCheckpoints, all)

At(w, places) == pc[w] \in places
Go(w, place) == pc' = [pc EXCEPT ![w] = place]
Do(w, j) == job' = [job EXCEPT ![w] = j]
Stop(w) == Go(w, "idle") /\ Do(w, NoJob)

\* The file gets version v from session w.
Put(w, v) == file' = v /\ touched' = Writers \ {w}

-----------------------------------------------------------------------------
(* The edit *)

Begins(w, op) ==
  /\ At(w, {"idle"}) /\ made < Versions
  /\ Go(w, "read") /\ Do(w, [NoJob EXCEPT !.op = op, !.read = file])
  /\ UNCHANGED <<file, made, backups, index, blobs, before, edit, touched, beside, crashed>>

\* A missing file is read as an empty one.
WriteFile(w) == Begins(w, "edit")
InsertFile(w) == Begins(w, "edit")
ApplyPatch(w) == Begins(w, "patch")

\* These need a file, and in it the text or the lines they replace.
EditFile(w) == file # 0 /\ Begins(w, "edit")
EditRange(w) == file # 0 /\ Begins(w, "edit")

\* undo_path: the latest backup is read before the present file is backed up.
BeginUndo(w) ==
  /\ At(w, {"idle"}) /\ backups # <<>>
  /\ Go(w, "read")
  /\ Do(w, [NoJob EXCEPT !.op = "undo", !.read = file, !.out = Last(backups)])
  /\ UNCHANGED <<file, made, backups, index, blobs, before, edit, touched, beside, crashed>>

\* backupFile reads the file again; there is nothing to back up of a missing file.
Backup(w) ==
  /\ At(w, {"read"})
  /\ backups' = IF file = 0 THEN backups ELSE BackupsKept(Append(backups, file))
  /\ touched' = touched \ {w}
  /\ Go(w, "backed")
  /\ UNCHANGED <<file, made, index, blobs, before, job, edit, beside, crashed>>

\* git apply --check refuses the patch; the backup stays.
Refused(w) ==
  /\ At(w, {"backed"}) /\ job[w].op = "patch"
  /\ Stop(w)
  /\ UNCHANGED <<file, made, backups, index, blobs, before, edit, touched, beside, crashed>>

\* atomicWrite, or git apply: a new version, or the one of the backup.
Write(w) ==
  /\ At(w, {"backed"})
  /\ IF job[w].op = "undo"
     THEN Put(w, job[w].out) /\ Stop(w) /\ UNCHANGED <<made, edit>>
     ELSE /\ made < Versions /\ made' = made + 1
          /\ Put(w, made + 1) /\ edit' = [from |-> file, to |-> made + 1]
          /\ Go(w, "written") /\ UNCHANGED job
  /\ UNCHANGED <<backups, index, blobs, before, beside, crashed>>

-----------------------------------------------------------------------------
(* The checkpoint *)

\* rewind: the checkpoint's content and the present file are read.
BeginRewind(w) ==
  /\ At(w, {"idle"})
  /\ \E i \in 1..Len(index) :
       IF index[i] \in blobs
       THEN Go(w, "written") /\ Do(w, [NoJob EXCEPT !.op = "rewind", !.read = file,
                                                     !.out = before[index[i]]])
       ELSE Stop(w)
  /\ UNCHANGED <<file, made, backups, index, blobs, before, edit, touched, beside, crashed>>

Storing(w) == {x \in Writers \ {w} : At(x, {"blobbed", "listed", "rotating", "cleaning"})}

StoreBlobs(w) ==
  /\ At(w, {"written"}) /\ Len(before) < Checkpoints
  /\ before' = Append(before, job[w].read)
  /\ blobs' = blobs \cup {Len(before) + 1}
  /\ Do(w, [job[w] EXCEPT !.id = Len(before) + 1])
  /\ Go(w, "blobbed")
  /\ beside' = (beside \/ Storing(w) # {})
  /\ UNCHANGED <<file, made, backups, index, edit, touched, crashed>>

AppendRow(w) ==
  /\ At(w, {"blobbed"})
  /\ index' = Append(index, job[w].id)
  /\ Go(w, "listed")
  /\ UNCHANGED <<file, made, backups, blobs, before, job, edit, touched, beside, crashed>>

\* What follows a checkpoint.
Checkpointed(w) ==
  IF job[w].op = "rewind" THEN Go(w, "restoring") /\ UNCHANGED job ELSE Stop(w)

\* rotate() reads the index; ...
ReadIndex(w) ==
  /\ At(w, {"listed"})
  /\ IF Len(index) <= MaxCheckpoints
     THEN Checkpointed(w)
     ELSE Go(w, "rotating") /\ Do(w, [job[w] EXCEPT !.rows = RowsKept(index)])
  /\ UNCHANGED <<file, made, backups, index, blobs, before, edit, touched, beside, crashed>>

\* ... writes what it keeps of it, ...
RewriteIndex(w) ==
  /\ At(w, {"rotating"})
  /\ index' = job[w].rows
  /\ Go(w, "cleaning")
  /\ UNCHANGED <<file, made, backups, blobs, before, job, edit, touched, beside, crashed>>

\* ... and removes every other content.
CleanBlobs(w) ==
  /\ At(w, {"cleaning"})
  /\ blobs' = blobs \cap ToSet(job[w].rows)
  /\ Checkpointed(w)
  /\ UNCHANGED <<file, made, backups, index, before, edit, touched, beside, crashed>>

\* rewind writes; an absent file comes back as an empty one, which counts as absent here.
Restore(w) ==
  /\ At(w, {"restoring"})
  /\ Put(w, job[w].out) /\ Stop(w)
  /\ UNCHANGED <<made, backups, index, blobs, before, edit, beside, crashed>>

-----------------------------------------------------------------------------
(* The surroundings *)

\* A command of the model or the user's editor changes or removes the file.
Other ==
  /\ \/ made < Versions /\ made' = made + 1 /\ file' = made + 1
     \/ file # 0 /\ file' = 0 /\ UNCHANGED made
  /\ touched' = Writers
  /\ UNCHANGED <<backups, index, blobs, before, pc, job, edit, beside, crashed>>

\* The process of a session ends, or a write fails. writeFile empties the index before
\* it writes.
Crash(w) ==
  /\ MayCrash /\ ~At(w, {"idle"})
  /\ Stop(w)
  /\ index' \in {index, IF At(w, {"rotating"}) THEN <<>> ELSE index}
  /\ crashed' = TRUE
  /\ UNCHANGED <<file, made, backups, blobs, before, edit, touched, beside>>

FilesInit ==
  /\ file \in {0, 1} /\ made = file
  /\ backups = <<>> /\ index = <<>> /\ blobs = {} /\ before = <<>>
  /\ pc = [w \in Writers |-> "idle"] /\ job = [w \in Writers |-> NoJob]
  /\ edit = [from |-> 0, to |-> 0]
  /\ touched = {} /\ beside = FALSE /\ crashed = FALSE

FilesNext ==
  \/ \E w \in Writers :
       \/ WriteFile(w) \/ InsertFile(w) \/ ApplyPatch(w) \/ EditFile(w) \/ EditRange(w)
       \/ BeginUndo(w) \/ Backup(w) \/ Refused(w) \/ Write(w)
       \/ BeginRewind(w) \/ StoreBlobs(w) \/ AppendRow(w) \/ ReadIndex(w)
       \/ RewriteIndex(w) \/ CleanBlobs(w) \/ Restore(w) \/ Crash(w)
  \/ Other

FilesSpec == FilesInit /\ [][FilesNext]_fvars

-----------------------------------------------------------------------------
(* Properties *)

\* tools.ts, backupFile before atomicWrite: what a tool or /undo overwrites is among the
\* backups, whatever the other sessions did to them, unless the file has changed since
\* the backup was made.
ReplacedIsKept ==
  [][\A w \in Writers :
       Write(w) /\ w \notin touched => file \in ToSet(backups) \cup {0}]_fvars

\* replay.ts, checkpoint and rotate: what the index lists can be brought back, also after
\* a crash; and without one the newest checkpoints are listed. Checkpoints that were
\* made one beside the other are excepted.
Done == {id \in 1..Len(before) : \A w \in Writers : job[w].id # id}
CheckpointsStay ==
  beside \/
    /\ ToSet(index) \subseteq blobs
    /\ crashed \/ {id \in Done : id > Len(before) - MaxCheckpoints} \subseteq ToSet(index)
=============================================================================

------------------------------- MODULE Vault ---------------------------------
(***************************************************************************)
(* The vault (src/src/vault.ts): one SQLite file of notes, archived tool   *)
(* outputs, review artifacts and the project index, written by the stores  *)
(* of several processes; and the two that write more than one row for one  *)
(* purpose, a review (agent.ts) and an index run (indexer.ts).             *)
(*                                                                         *)
(* The search table repeats the rows' text and is not modelled.  A write   *)
(* that finds the file locked throws and changes nothing.  `db` has the    *)
(* file at the vault's path and those that were set aside as corrupt.      *)
(***************************************************************************)
EXTENDS Integers, FiniteSets, SequencesExt

CONSTANTS
  Processes,
  Projects,      \* that get reviews
  Calls,         \* ids of tool calls
  Sources,       \* source files of the project that is indexed
  MaxEntries,    \* maxEntries
  PerProject,    \* immutableReviewArtifactsPerProject
  Databases,     \* bound: database files are 1..Databases
  MaxId,         \* bound: rows ever inserted in a file
  Edits          \* bound: versions of a source file

\* The constructor of the store raises the number of reviews that are kept to one.
ASSUME VaultAssumption ==
  MaxEntries \in Nat /\ PerProject \in Nat \ {0} /\ Databases \in Nat \ {0}

VARIABLES
  db,      \* database file -> [rows, next]
  path,    \* the database file at dbPath
  open,    \* process -> the database file its store has open, or 0
  writes,  \* process -> what it still has to write
  disk     \* source file -> its version, 0 when it does not exist

vvars == <<db, path, open, writes, disk>>

Empty == [rows |-> {}, next |-> 1]
Nothing == [kind |-> "nothing"]

VaultInit ==
  /\ db = [d \in 1..Databases |-> Empty] /\ path = 1
  /\ open = [p \in Processes |-> 0]
  /\ writes = [p \in Processes |-> Nothing]
  /\ disk = [f \in Sources |-> 1]

-----------------------------------------------------------------------------
(* Retention *)

\* The review items beyond the newest ones of their project.
ImmutableOverflow(rows) ==
  {r \in rows : /\ r.kind = "item"
                /\ Cardinality({s \in rows : s.kind = "item" /\ s.key = r.key
                                             /\ s.id > r.id}) >= PerProject}

\* Mutant: of the reviews only the items are protected.
PrunableLatest(rows) == {r \in rows : r.kind # "item"}

Prunable(rows) == {r \in rows : r.kind \notin {"latest", "item"}}

\* The `n` oldest rows of a set, or all of it.
Oldest(n, rows) == {r \in rows : Cardinality({s \in rows : s.id < r.id}) < n}

\* pruneToLimit
Pruned(rows) ==
  LET kept == rows \ ImmutableOverflow(rows)
      excess == Cardinality(kept) - MaxEntries
  IN kept \ Oldest(excess, Prunable(kept))

\* Insert a row, or write over the latest one of its kind and key.
Inserted(d, kind, key, value) ==
  [d EXCEPT !.rows = @ \cup {[id |-> d.next, kind |-> kind, key |-> key, value |-> value]},
            !.next = @ + 1]

Same(d, kind, key) == {r \in d.rows : r.kind = kind /\ r.key = key}

Upserted(d, kind, key, value) ==
  LET same == Same(d, kind, key)
      last == CHOOSE r \in same : \A s \in same : s.id <= r.id
      put == IF same = {} THEN Inserted(d, kind, key, value)
             ELSE [d EXCEPT !.rows = (@ \ {last}) \cup {[last EXCEPT !.value = value]}]
  IN [put EXCEPT !.rows = Pruned(@)]

-----------------------------------------------------------------------------
(* The store *)

\* Rows are written to the file that the store has open.
WriteRows(p, new) ==
  /\ open[p] # 0 /\ new.next <= MaxId + 1
  /\ db' = [db EXCEPT ![open[p]] = new]
  /\ UNCHANGED <<path, open, disk>>

My(p) == db[open[p]]
Idle(p) == open[p] # 0 /\ writes[p] = Nothing

\* init: migrate, rebuild the search table, prune.
Open(p) ==
  /\ open[p] = 0
  /\ open' = [open EXCEPT ![p] = path]
  /\ db' = [db EXCEPT ![path].rows = Pruned(@)]
  /\ UNCHANGED <<path, writes, disk>>

\* recoverCorruptDb, of a file that another process is writing to: it is set aside, under
\* the store that has it open.
OpenLocked(p) ==
  /\ open[p] = 0 /\ path < Databases
  /\ \E q \in Processes \ {p} : open[q] = path
  /\ path' = path + 1 /\ open' = [open EXCEPT ![p] = path + 1]
  /\ UNCHANGED <<db, writes, disk>>

\* close, or the end of the process, in the middle of what it was writing.
Close(p) ==
  /\ open[p] # 0
  /\ open' = [open EXCEPT ![p] = 0] /\ writes' = [writes EXCEPT ![p] = Nothing]
  /\ UNCHANGED <<db, path, disk>>

\* note, then pruneToLimit in a transaction of its own.
AddNote(p) ==
  /\ Idle(p) /\ WriteRows(p, Inserted(My(p), "note", "note", 0))
  /\ writes' = [writes EXCEPT ![p] = [kind |-> "prune"]]

\* archiveToolResult: once per id of a call, whichever session it is of.
Archive(p) ==
  /\ Idle(p)
  /\ \E c \in Calls : /\ Same(My(p), "tool", c) = {}
                      /\ WriteRows(p, Inserted(My(p), "tool", c, 0))
  /\ writes' = [writes EXCEPT ![p] = [kind |-> "prune"]]

Prune(p) ==
  /\ writes[p].kind = "prune"
  /\ WriteRows(p, [My(p) EXCEPT !.rows = Pruned(@)])
  /\ writes' = [writes EXCEPT ![p] = Nothing]

-----------------------------------------------------------------------------
(* A review: the latest one, then one more item, in two transactions *)

Review(p) ==
  /\ Idle(p)
  /\ \E j \in Projects :
       /\ WriteRows(p, Upserted(My(p), "latest", j, 0))
       /\ writes' = [writes EXCEPT ![p] = [kind |-> "review", of |-> j]]

ReviewItem(p) ==
  /\ writes[p].kind = "review"
  /\ LET put == Inserted(My(p), "item", writes[p].of, 0)
     IN WriteRows(p, [put EXCEPT !.rows = Pruned(@)])
  /\ writes' = [writes EXCEPT ![p] = Nothing]

-----------------------------------------------------------------------------
(* runProjectIndex *)

Edit ==
  /\ \E f \in Sources :
       \/ disk[f] < Edits /\ disk' = [disk EXCEPT ![f] = @ + 1]
       \/ disk[f] > 0 /\ disk' = [disk EXCEPT ![f] = 0]
  /\ UNCHANGED <<db, path, open, writes>>

\* What the meta row of the last run says of every file: the version it indexed, or 0.
Meta(d) ==
  IF Same(d, "meta", "index") = {} THEN [f \in Sources |-> 0]
  ELSE (CHOOSE r \in Same(d, "meta", "index") : TRUE).value

\* The walk, and the files that changed since the last run.
Index(p) ==
  /\ Idle(p)
  /\ writes' = [writes EXCEPT ![p] =
       [kind |-> "index", found |-> disk, prev |-> Meta(My(p)),
        todo |-> {f \in Sources : disk[f] > 0 /\ disk[f] # Meta(My(p))[f]}]]
  /\ UNCHANGED <<db, path, open, disk>>

IndexFile(p) ==
  /\ writes[p].kind = "index"
  /\ \E f \in writes[p].todo :
       /\ WriteRows(p, Upserted(My(p), "note", f, writes[p].found[f]))
       /\ writes' = [writes EXCEPT ![p].todo = @ \ {f}]

\* Files that are gone lose their row, and the meta row is written ...
IndexDone(p) ==
  /\ writes[p].kind = "index" /\ writes[p].todo = {}
  /\ LET w == writes[p]
         gone == {r \in My(p).rows : r.kind = "note" /\ r.key \in Sources
                                     /\ w.prev[r.key] > 0 /\ w.found[r.key] = 0}
     IN WriteRows(p, Upserted([My(p) EXCEPT !.rows = @ \ gone], "meta", "index", w.found))
  /\ writes' = [writes EXCEPT ![p] = [kind |-> "summary"]]

\* ... and the summary line's.
IndexSummary(p) ==
  /\ writes[p].kind = "summary"
  /\ WriteRows(p, Upserted(My(p), "summary", "index", 0))
  /\ writes' = [writes EXCEPT ![p] = Nothing]

-----------------------------------------------------------------------------
VaultNext ==
  \/ Edit
  \/ \E p \in Processes :
       \/ Open(p) \/ OpenLocked(p) \/ Close(p)
       \/ AddNote(p) \/ Archive(p) \/ Prune(p)
       \/ Review(p) \/ ReviewItem(p)
       \/ Index(p) \/ IndexFile(p) \/ IndexDone(p) \/ IndexSummary(p)

VaultSpec == VaultInit /\ [][VaultNext]_vvars

-----------------------------------------------------------------------------
(* Properties *)

\* Whatever is noted, archived or indexed, in however many processes, a review stays: the
\* latest one of a project is never pruned, an item only when its project has as many
\* newer ones as are kept (selectPrunableIds, immutableArtifactOverflowIds).
ReviewsStay ==
  [][\A d \in 1..Databases : \A r \in db[d].rows :
       r.kind \in {"latest", "item"} /\ (\A s \in db'[d].rows : s.id # r.id) =>
         /\ r.kind = "item"
         /\ Cardinality({s \in db'[d].rows : s.kind = "item" /\ s.key = r.key
                                             /\ s.id > r.id}) >= PerProject]_vvars
=============================================================================

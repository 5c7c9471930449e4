------------------------------ MODULE Worklist ------------------------------
(***************************************************************************)
(* The worklist of an Anton run (src/src/anton/parser.ts): a sequence of   *)
(* checkbox lines in document order, one section of one markdown file.     *)
(* A line's parent is not written anywhere: indentation gives it.          *)
(***************************************************************************)
EXTENDS Integers, Sequences, FiniteSets

CONSTANT Texts  \* the texts of tasks

\* id tells lines apart that are alike, for the properties: the code has no such thing.
Line == [text : Texts, depth : Nat, checked : BOOLEAN, id : Nat]
IsWorklist(f) == f \in Seq(Line)

\* The parent of line i, as a set of at most one: the last line before it that is
\* indented less.
Parents(f, i) ==
  {j \in 1..(i - 1) : /\ f[j].depth < f[i].depth
                      /\ \A k \in (j + 1)..(i - 1) : f[k].depth >= f[i].depth}

Children(f, i) == {c \in DOMAIN f : i \in Parents(f, c)}

\* The siblings before line i that have its text, given the keys of the lines before it.
Twins(f, key, i) ==
  {j \in 1..(i - 1) :
     /\ f[j].text = f[i].text /\ f[j].depth = f[i].depth
     /\ {key[p] : p \in Parents(f, j)} = {key[p] : p \in Parents(f, i)}}

KeyOf(f, key, i) ==
  [text |-> f[i].text, depth |-> f[i].depth, nth |-> Cardinality(Twins(f, key, i))]

\* generateTaskKey: depth, text and the ordinal among siblings of the same text.  The
\* parent is no part of the key.
Keys(f) ==
  LET key[i \in DOMAIN f] == KeyOf(f, key, i)
  IN  [i \in DOMAIN f |-> KeyOf(f, key, i)]

\* Some lines cannot be told apart by their keys.
Alike(f) == \E i, j \in DOMAIN f : i # j /\ Keys(f)[i] = Keys(f)[j]

\* allTasks.find: the first line with the key.
First(f, k) ==
  CHOOSE i \in DOMAIN f :
    Keys(f)[i] = k /\ \A j \in DOMAIN f : Keys(f)[j] = k => i <= j

-----------------------------------------------------------------------------
(* findRunnablePendingTasks *)

Pending(f, skipped) == {i \in DOMAIN f : ~f[i].checked /\ Keys(f)[i] \notin skipped}

\* Mutant: the children of a task that was given up wait for it too.
WaitsForSkipped(f, skipped, i) ==
  \E p \in Parents(f, i) : ~f[First(f, Keys(f)[p])].checked

\* The parent comes first, unless it is done or was given up.
Waits(f, skipped, i) ==
  \E p \in Parents(f, i) : First(f, Keys(f)[p]) \in Pending(f, skipped)

Runnable(f, skipped) == {i \in Pending(f, skipped) : ~Waits(f, skipped, i)}

\* runnableTasks[0]
Next1(f, skipped) ==
  CHOOSE i \in Runnable(f, skipped) : \A j \in Runnable(f, skipped) : i <= j

-----------------------------------------------------------------------------
(* Changes of the file *)

WithTicks(f, T) == [i \in DOMAIN f |-> [f[i] EXCEPT !.checked = @ \/ i \in T]]

\* Mutant: one finished child is enough.
CompletesAny(f, i) == \E c \in Children(f, i) : f[c].checked

\* autoCompleteAncestors: whether line i is ticked together with its last child.
Completes(f, i) == \A c \in Children(f, i) : f[c].checked

\* One turn of its loop, when the lines in T are ticked: the parent of the topmost of them
\* too, unless it is ticked already or has a child that is not.
Climbed(f, T) ==
  LET g   == WithTicks(f, T)
      top == CHOOSE i \in T : \A j \in T : i <= j
  IN  T \cup {q \in {First(f, Keys(f)[p]) : p \in Parents(f, top)} :
                 ~g[q].checked /\ Completes(g, q)}

\* markTaskChecked, then autoCompleteAncestors: climb[n] are the lines ticked after n turns.
Ticked(f, k) ==
  LET climb[n \in 0..Len(f)] == IF n = 0 THEN {First(f, k)} ELSE Climbed(f, climb[n - 1])
  IN  WithTicks(f, climb[Len(f)])

\* insertSubTasks: right behind the parent, one level deeper.
WithSubtasks(f, k, items, id) ==
  LET i   == First(f, k)
      new == [n \in DOMAIN items |->
                [text |-> items[n], depth |-> f[i].depth + 1, checked |-> FALSE, id |-> id + n]]
  IN  SubSeq(f, 1, i) \o new \o SubSeq(f, i + 1, Len(f))
=============================================================================

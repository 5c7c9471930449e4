---------------------------- MODULE RuntimeStore ----------------------------
(***************************************************************************)
(* runtimes.json (src/src/runtime/store.ts) and the commands that change   *)
(* it (src/src/cli/runtime-cmds.ts).  Each command is a process that reads *)
(* the file, talks to the user for as long as he likes, and then stores    *)
(* what it read with one list changed.  No lock is taken.                  *)
(* {} as a policy or filter stands for 'any'.                              *)
(***************************************************************************)
EXTENDS FiniteSets, Integers

CONSTANTS
  HostIds, BackendIds, ModelIds,
  Editors,       \* the processes
  MaxCommands    \* bound: commands run

VARIABLES
  store,     \* the file: what is in it, "missing", or "invalid"
  mine,      \* mine[p]: the configuration p read
  does,      \* does[p]: idle, creating, loaded
  commands,
  since      \* what others changed in the file since p looked at it (history variable)

rsvars == <<store, mine, does, commands, since>>

Empty == [hosts |-> {}, backends |-> {}, models |-> {}]
Absent == [is |-> "missing"]
Broken == [is |-> "invalid"]
Stored(c) == [is |-> "config", config |-> c]

Backends == [id : BackendIds, filters : SUBSET HostIds]
ModelEntries == [id : ModelIds, hosts : SUBSET HostIds, backends : SUBSET BackendIds]

\* The entries of a configuration, and those of the file.
Entries(c) == {<<"host", h>> : h \in c.hosts} \union {<<"backend", b>> : b \in c.backends}
                \union {<<"model", m>> : m \in c.models}
InFile == IF store.is = "config" THEN Entries(store.config) ELSE {}
Difference(S, T) == (S \ T) \union (T \ S)

-----------------------------------------------------------------------------
\* validateRuntimes: ids are unique, and what is referred to is there.
Unique(S) == \A x, y \in S : x.id = y.id => x = y
RefsThere(c) ==
  /\ \A b \in c.backends : b.filters \subseteq c.hosts
  /\ \A m \in c.models :
       m.hosts \subseteq c.hosts /\ m.backends \subseteq {b.id : b \in c.backends}

Valid(c) == Unique(c.backends) /\ Unique(c.models) /\ RefsThere(c)

\* bootstrapRuntimes: fs.access fails, and an empty configuration is written.
FindsNone(p) ==
  /\ does[p] = "idle" /\ commands < MaxCommands /\ store = Absent
  /\ does' = [does EXCEPT ![p] = "creating"] /\ commands' = commands + 1
  /\ UNCHANGED <<store, mine>>

Creates(p) ==
  /\ does[p] = "creating"
  /\ store' = Stored(Empty)
  /\ does' = [does EXCEPT ![p] = "idle"]
  /\ UNCHANGED <<mine, commands>>

\* loadRuntimes: a file that is not valid lets no command begin, `edit` included.
Loads(p) ==
  /\ does[p] = "idle" /\ commands < MaxCommands
  /\ store.is = "config" /\ Valid(store.config)
  /\ mine' = [mine EXCEPT ![p] = store.config]
  /\ does' = [does EXCEPT ![p] = "loaded"] /\ commands' = commands + 1
  /\ UNCHANGED store

\* saveRuntimes
Saves(p, c) ==
  /\ does[p] = "loaded"
  /\ store' = IF Valid(c) THEN Stored(c) ELSE store
  /\ does' = [does EXCEPT ![p] = "idle"] /\ mine' = [mine EXCEPT ![p] = Empty]
  /\ UNCHANGED commands

-----------------------------------------------------------------------------
(* hosts, backends, models: add and remove *)

\* An id that is there already makes two of a kind, which is refused.
AddHost(p, h) ==
  h \notin mine[p].hosts /\ Saves(p, [mine[p] EXCEPT !.hosts = @ \union {h}])
RemoveHost(p, h) ==
  h \in mine[p].hosts /\ Saves(p, [mine[p] EXCEPT !.hosts = @ \ {h}])
\* Mutant: the other lists of the configuration are not copied.
AddBackendAlone(p, b) ==
  Saves(p, [Empty EXCEPT !.backends = mine[p].backends \union {b}])

AddBackend(p, b) == Saves(p, [mine[p] EXCEPT !.backends = @ \union {b}])
RemoveBackend(p, b) ==
  b \in mine[p].backends /\ Saves(p, [mine[p] EXCEPT !.backends = @ \ {b}])
AddModel(p, m) == Saves(p, [mine[p] EXCEPT !.models = @ \union {m}])
RemoveModel(p, m) ==
  m \in mine[p].models /\ Saves(p, [mine[p] EXCEPT !.models = @ \ {m}])

\* A model split over RPC: the backend for its address is made along with it.
AddRpcModel(p, m, b) ==
  /\ b.id \notin {x.id : x \in mine[p].backends}
  /\ b.filters = m.hosts /\ m.backends = {b.id}
  /\ Saves(p, [mine[p] EXCEPT !.backends = @ \union {b}, !.models = @ \union {m}])

\* show, list, test, doctor, validate, "no" to the question, or an error.
Leaves(p) ==
  /\ does[p] # "idle"
  /\ does' = [does EXCEPT ![p] = "idle"] /\ mine' = [mine EXCEPT ![p] = Empty]
  /\ UNCHANGED <<store, commands>>

\* edit: what the editor leaves is not looked at.
Edits(p) ==
  /\ does[p] = "loaded" /\ store' = Broken
  /\ does' = [does EXCEPT ![p] = "idle"] /\ mine' = [mine EXCEPT ![p] = Empty]
  /\ UNCHANGED commands

\* The user mends a file no command opens, by throwing it away.
Mends == store = Broken /\ store' = Absent /\ UNCHANGED <<mine, does, commands>>

-----------------------------------------------------------------------------
StoreInit ==
  /\ store = Absent /\ commands = 0
  /\ mine = [p \in Editors |-> Empty] /\ does = [p \in Editors |-> "idle"]
  /\ since = [p \in Editors |-> {}]

StoreStep ==
  \/ Mends
  \/ \E p \in Editors :
       \/ FindsNone(p) \/ Creates(p) \/ Loads(p) \/ Leaves(p) \/ Edits(p)
       \/ \E h \in HostIds : AddHost(p, h) \/ RemoveHost(p, h)
       \/ \E b \in Backends : AddBackend(p, b) \/ RemoveBackend(p, b)
       \/ \E m \in ModelEntries : AddModel(p, m) \/ RemoveModel(p, m)
       \/ \E m \in ModelEntries, b \in Backends : AddRpcModel(p, m, b)

\* Every step also notes what it changed for the commands under way.
StoreNext ==
  /\ StoreStep
  /\ since' = [p \in Editors |-> IF does'[p] = "idle" THEN {}
                                 ELSE since[p] \union Difference(InFile, InFile')]

StoreSpec == StoreInit /\ [][StoreNext]_rsvars

-----------------------------------------------------------------------------
\* What the step by which p ends has changed, others' changes taken back set aside,
\* is that it added entries or removed one.
EndsWithOwn(p) ==
  does[p] # "idle" /\ does'[p] = "idle" /\ store'.is # "invalid" =>
    LET own == Difference(InFile, InFile') \ since[p]
    IN own \subseteq InFile' \/ \E x \in own : own = {x}

\* Commands that hold old copies write over each other. But all that a command does to
\* the file, besides adding entries or removing one, is to take back what others changed
\* since it looked: an update is lost, or undone, by an overlapping command only, an entry
\* nobody touched meanwhile stands, and so do commands one after the other. (`edit` is
\* the user's.)
OwnChanges == [][\A p \in Editors : EndsWithOwn(p)]_rsvars
=============================================================================

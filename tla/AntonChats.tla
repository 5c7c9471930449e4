------------------------------ MODULE AntonChats ------------------------------
(***************************************************************************)
(* /anton in the chats of one bot, and in the terminal: who starts, stops  *)
(* and forgets a run.  A session object carries antonActive and            *)
(* antonAbortSignal; a chat maps to one object or none, and a run keeps    *)
(* the object it was started from (handleAnton in src/src/bot/commands.ts, *)
(* handleDiscordAnton in src/src/bot/discord.ts, startRun and stopRun in   *)
(* src/src/cli/commands/anton.ts, where the one object is the REPL's own). *)
(* at[r] is where the run r is:                                            *)
(*   stat       the handler waits for fs.stat of the worklist              *)
(*   told       the flags are set; the worklist is counted, the user told  *)
(*   locking    runAnton, in acquireAntonLock                              *)
(*   live       runAnton works, its heartbeat beats                        *)
(*   returned   onRunComplete is called, the lock not yet released         *)
(*   threw      runAnton threw and released, its catch has not yet run     *)
(*   untold     the user could not be told: the run was never launched     *)
(* What runAnton does in between is AntonRun; the file of the lock as      *)
(* several processes see it is LockFile.                                   *)
(***************************************************************************)
EXTENDS Integers

CONSTANTS
  Chats, ChatRuns,
  Objects,      \* bound: session objects are 1..Objects
  Fronts        \* "telegram", "discord", "repl"

ASSUME ChatsAssumption == Objects \in Nat \ {0}

VARIABLES
  front,    \* the front these chats are of
  session,  \* session[c]: the object of chat c, 0 for none
  making,   \* making[c]: the sessions of chat c being made
  made,     \* objects made so far
  flags,    \* flags[o]: antonActive and antonAbortSignal (a run, or "none")
  at,       \* at[r]
  object,   \* object[r]: the session object run r was started from
  aborted,  \* aborted[r]: its abortSignal.aborted
  given     \* history: objects with a run that was given up as stale, started beside
            \* another, or left behind in an object that was replaced or forgotten

acvars == <<front, session, making, made, flags, at, object, aborted, given>>

Unset == [active |-> FALSE, signal |-> "none"]
RunGoes(r, to) == at' = [at EXCEPT ![r] = to]

\* A handler is under way that other updates, and the next line of the REPL, wait for.
Busy == front # "discord" /\ \E r \in ChatRuns : at[r] \in {"stat", "told"}

-----------------------------------------------------------------------------
(* The session of a chat *)

\* The next message, or the second half of /dir, makes a session.
Session(c) ==
  /\ front = "telegram" /\ ~Busy /\ session[c] = 0 /\ made < Objects
  /\ session' = [session EXCEPT ![c] = made + 1] /\ made' = made + 1
  /\ UNCHANGED <<front, making, flags, at, object, aborted, given>>

\* Discord: getOrCreate reserves nothing while it makes one, ...
Making(c) ==
  /\ front = "discord" /\ session[c] = 0
  /\ making[c] < 2 /\ made + making[c] < Objects
  /\ making' = [making EXCEPT ![c] = @ + 1]
  /\ UNCHANGED <<front, session, made, flags, at, object, aborted, given>>

\* ... so that of two the later takes the place of the earlier.
Make(c) ==
  /\ making[c] > 0 /\ made < Objects
  /\ making' = [making EXCEPT ![c] = @ - 1]
  /\ session' = [session EXCEPT ![c] = made + 1] /\ made' = made + 1
  /\ given' = given \union ({session[c]} \ {0})
  /\ UNCHANGED <<front, flags, at, object, aborted>>

\* Discord only: a run of the object waits for stat, and has set no flag yet.
Waiting(o) == \E r \in ChatRuns : object[r] = o /\ at[r] = "stat"

\* destroy: /new, /dir, and the cleanup of a session that runs nothing.
Destroy(c) ==
  LET o == session[c] IN
  /\ front # "repl" /\ ~Busy /\ o # 0
  /\ aborted' = [r \in ChatRuns |-> aborted[r] \/ flags[o].signal = r]
  /\ flags' = [flags EXCEPT ![o] = Unset]
  /\ session' = [session EXCEPT ![c] = 0]
  /\ given' = IF Waiting(o) THEN given \union {o} ELSE given
  /\ UNCHANGED <<front, making, made, at, object>>

-----------------------------------------------------------------------------
(* /anton <file>, /anton stop *)

\* A run that has shown no life for two minutes: its heartbeat starts with the lock.
Silent(o) == \A r \in ChatRuns : object[r] = o => at[r] # "live"

\* handleAnton: the flags of a run without life are given up.
HandleAnton(o) ==
  /\ front = "telegram"
  /\ \/ ~flags[o].active /\ UNCHANGED <<flags, given>>
     \/ /\ flags[o].active /\ Silent(o)
        /\ flags' = [flags EXCEPT ![o] = Unset] /\ given' = given \union {o}

\* handleDiscordAnton does the same, but others may pass the check before it goes on.
HandleDiscordAnton(o) ==
  /\ front = "discord"
  /\ IF flags[o].active
     THEN /\ Silent(o)
          /\ flags' = [flags EXCEPT ![o] = Unset] /\ given' = given \union {o}
     ELSE /\ given' = IF Waiting(o) THEN given \union {o} ELSE given
          /\ UNCHANGED flags

\* startRun of the REPL gives up nothing.
StartRun(o) == front = "repl" /\ ~flags[o].active /\ UNCHANGED <<flags, given>>

Start(c, r) ==
  LET o == session[c] IN
  /\ ~Busy /\ o # 0 /\ at[r] = "free"
  /\ HandleAnton(o) \/ HandleDiscordAnton(o) \/ StartRun(o)
  /\ object' = [object EXCEPT ![r] = o]
  /\ RunGoes(r, "stat")
  /\ UNCHANGED <<front, session, making, made, aborted>>

NoFile(r) ==
  /\ at[r] = "stat"
  /\ RunGoes(r, "done")
  /\ UNCHANGED <<front, session, making, made, flags, object, aborted, given>>

Begin(r) ==
  /\ at[r] = "stat"
  /\ flags' = [flags EXCEPT ![object[r]] = [active |-> TRUE, signal |-> r]]
  /\ RunGoes(r, "told")
  /\ UNCHANGED <<front, session, making, made, object, aborted, given>>

\* runAnton(...) is called and not waited for.
Launch(r) ==
  /\ at[r] = "told"
  /\ RunGoes(r, "locking")
  /\ UNCHANGED <<front, session, making, made, flags, object, aborted, given>>

\* ctx.reply throws: the flags stay set, until they are given up as stale.
Untold(r) ==
  /\ front = "telegram" /\ at[r] = "told"
  /\ RunGoes(r, "untold")
  /\ UNCHANGED <<front, session, making, made, flags, object, aborted, given>>

\* antonAbortSignal.aborted = true
Stop(c) ==
  LET o == session[c] IN
  /\ ~Busy /\ o # 0 /\ flags[o].active
  /\ aborted' = [aborted EXCEPT ![flags[o].signal] = TRUE]
  /\ UNCHANGED <<front, session, making, made, flags, at, object, given>>

-----------------------------------------------------------------------------
(* The run *)

\* A lock of the own process is taken over, so that only another's refuses.
Locked(r) ==
  /\ at[r] = "locking"
  /\ RunGoes(r, "live")
  /\ UNCHANGED <<front, session, making, made, flags, object, aborted, given>>

\* Mutant of Cleared: only the abort signal is dropped.
ClearedSignalOnly(r) == flags' = [flags EXCEPT ![object[r]].signal = "none"]

Cleared(r) == flags' = [flags EXCEPT ![object[r]] = Unset]

\* onRunComplete, for whatever reason the run stops.
Complete(r) ==
  /\ at[r] = "live"
  /\ Cleared(r)
  /\ RunGoes(r, "returned")
  /\ UNCHANGED <<front, session, making, made, object, aborted, given>>

Released(r) ==
  /\ at[r] = "returned"
  /\ RunGoes(r, "done")
  /\ UNCHANGED <<front, session, making, made, flags, object, aborted, given>>

Throws(r) ==
  /\ at[r] \in {"locking", "live"}
  /\ RunGoes(r, "threw")
  /\ UNCHANGED <<front, session, making, made, flags, object, aborted, given>>

Caught(r) ==
  /\ at[r] = "threw"
  /\ Cleared(r)
  /\ RunGoes(r, "done")
  /\ UNCHANGED <<front, session, making, made, object, aborted, given>>

-----------------------------------------------------------------------------
\* The terminal has one session; the other chats stay without.
REPL == CHOOSE c \in Chats : TRUE

ChatsInit ==
  /\ front \in Fronts
  /\ IF front = "repl" THEN made = 1 /\ session = [c \in Chats |-> IF c = REPL THEN 1 ELSE 0]
                       ELSE made = 0 /\ session = [c \in Chats |-> 0]
  /\ making = [c \in Chats |-> 0]
  /\ flags = [o \in 1..Objects |-> Unset]
  /\ at = [r \in ChatRuns |-> "free"] /\ object = [r \in ChatRuns |-> 0]
  /\ aborted = [r \in ChatRuns |-> FALSE] /\ given = {}

RunMoves(r) ==
  \/ NoFile(r) \/ Begin(r) \/ Launch(r) \/ Untold(r) \/ Locked(r)
  \/ Complete(r) \/ Released(r) \/ Throws(r) \/ Caught(r)

ChatsNext ==
  \/ \E c \in Chats : Session(c) \/ Making(c) \/ Make(c) \/ Destroy(c) \/ Stop(c)
  \/ \E c \in Chats, r \in ChatRuns : Start(c, r)
  \/ \E r \in ChatRuns : RunMoves(r)

ChatsSpec == ChatsInit /\ [][ChatsNext]_acvars

-----------------------------------------------------------------------------
\* A run that goes on was told to stop, or is the one /anton stop of its chat
\* reaches; and a chat that says a run is active has one that will clear that, or one
\* that was never launched.
\* Runs of an object whose run was given up as stale are not spoken of (the end of the
\* old one clears the flags of theirs), nor of one that two were started from at once,
\* or that its chat lost before the run had set a flag.
StopReaches ==
  /\ \A r \in ChatRuns :
       at[r] \in {"told", "locking", "live"} /\ object[r] \notin given =>
         \/ aborted[r]
         \/ /\ flags[object[r]] = [active |-> TRUE, signal |-> r]
            /\ \E c \in Chats : session[c] = object[r]
  /\ \A o \in 1..Objects :
       flags[o].active =>
         \E r \in ChatRuns : object[r] = o /\ at[r] \in {"told", "untold", "locking", "live", "threw"}
=============================================================================

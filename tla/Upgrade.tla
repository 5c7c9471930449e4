------------------------------ MODULE Upgrade -------------------------------
(***************************************************************************)
(* --upgrade and --rollback (src/src/upgrade.ts): performUpgrade with its  *)
(* backup of the installation, its auto-rollback, and performRollback,     *)
(* each a process that may die after any step and be started again.        *)
(* `tarball` and `note` are the two files of the rollback directory.       *)
(***************************************************************************)
EXTENDS Integers

CONSTANTS Latest, UpgradeRuns   \* bounds: versions are 1..Latest; processes run

VARIABLES
  installed,  \* the version in the install directory, and whether it is whole
  step,       \* check, wipe, pack, rename, note, install, rescue, restore, done
  from,       \* currentVersion of the process
  target,     \* the version it installs
  tarball,    \* the archive: its version, whether packed wholly, and its name
  note,       \* rollback.json: the version it names, 0 for none
  started,    \* processes started
  saved,      \* history: the backup of this process was made
  outcome     \* history: how the last process ended

upvars == <<installed, step, from, target, tarball, note, started, saved, outcome>>

NoTarball == [version |-> 0, whole |-> FALSE, named |-> FALSE]
Released == 1..Latest

\* Mutant of RollbackInfo: the note is taken at its word.
RollbackInfoUnchecked == note # 0

\* getRollbackInfo: the note, when the file it names is there.
RollbackInfo == note # 0 /\ tarball.named /\ tarball.version = note

-----------------------------------------------------------------------------
\* An installation that is not whole does not start; it is installed by hand.
Starts(first) ==
  /\ step = "idle" /\ started < UpgradeRuns /\ installed.whole
  /\ started' = started + 1
  /\ step' = first
  /\ from' = installed.version /\ saved' = FALSE /\ outcome' = "none"

Upgrades ==
  /\ Starts("wipe")
  /\ target' \in {v \in Released : v > installed.version}
  /\ UNCHANGED <<installed, tarball, note>>

RollsBack ==
  /\ Starts("restore") /\ RollbackInfo
  /\ UNCHANGED <<installed, target, tarball, note>>

\* npm install -g by hand, or of an install that no longer starts.
ByHand ==
  /\ step = "idle" /\ started < UpgradeRuns
  /\ \E v \in Released : installed' = [version |-> v, whole |-> TRUE]
  /\ started' = started + 1 /\ outcome' = "none"
  /\ UNCHANGED <<step, from, target, tarball, note, saved>>

-----------------------------------------------------------------------------
(* backupForRollback: whatever fails in it, the upgrade goes on. *)

\* There is no install directory to back up: an older backup stays.
NothingToPack ==
  /\ step = "wipe" /\ step' = "install"
  /\ UNCHANGED <<installed, from, target, tarball, note, started, saved, outcome>>

\* fs.rm of the directory, file by file.
Wipe ==
  /\ step = "wipe"
  /\ \/ tarball # NoTarball /\ tarball' = NoTarball /\ UNCHANGED <<note, step>>
     \/ note # 0 /\ note' = 0 /\ UNCHANGED <<tarball, step>>
     \/ tarball = NoTarball /\ note = 0 /\ step' = "pack" /\ UNCHANGED <<tarball, note>>
  /\ UNCHANGED <<installed, from, target, started, saved, outcome>>

\* npm pack, for 30 s: it packs, fails, or is cut off half-way.
Pack ==
  /\ step = "pack"
  /\ \/ /\ tarball' = [version |-> installed.version, whole |-> TRUE, named |-> FALSE]
        /\ step' = "rename"
     \/ /\ tarball' = [version |-> installed.version, whole |-> FALSE, named |-> FALSE]
        /\ step' = "install"
     \/ step' = "install" /\ UNCHANGED tarball
  /\ UNCHANGED <<installed, from, target, note, started, saved, outcome>>

Rename ==
  /\ step = "rename"
  /\ \/ tarball' = [tarball EXCEPT !.named = TRUE] /\ step' = "note"
     \/ step' = "install" /\ UNCHANGED tarball
  /\ UNCHANGED <<installed, from, target, note, started, saved, outcome>>

Note ==
  /\ step = "note" /\ step' = "install"
  /\ \/ note' = from /\ saved' = TRUE
     \/ UNCHANGED <<note, saved>>
  /\ UNCHANGED <<installed, from, target, tarball, started, outcome>>

-----------------------------------------------------------------------------
(* npmInstallGlobal of the release, of the backup *)

\* npm is begun, and what is there is no longer whole.
NpmBegins ==
  /\ step \in {"install", "rescue", "restore"} /\ installed.whole
  /\ installed' = [installed EXCEPT !.whole = FALSE]
  /\ UNCHANGED <<step, from, target, tarball, note, started, saved, outcome>>

Ends(how) == step' = "idle" /\ outcome' = how

Installs ==
  /\ step = "install" /\ ~installed.whole
  /\ installed' = [version |-> target, whole |-> TRUE]
  /\ Ends("upgraded")
  /\ UNCHANGED <<from, target, tarball, note, started, saved>>

\* The download or npm fails: the auto-rollback, if there is a backup.
InstallFails ==
  /\ step = "install"
  /\ IF RollbackInfo THEN step' = "rescue" /\ UNCHANGED outcome ELSE Ends("failed")
  /\ UNCHANGED <<installed, from, target, tarball, note, started, saved>>

Rescues ==
  /\ step = "rescue" /\ ~installed.whole
  /\ installed' = [version |-> tarball.version, whole |-> tarball.whole]
  /\ Ends("rescued")
  /\ UNCHANGED <<from, target, tarball, note, started, saved>>

Restores ==
  /\ step = "restore" /\ ~installed.whole
  /\ installed' = [version |-> tarball.version, whole |-> tarball.whole]
  /\ tarball' = NoTarball /\ note' = 0
  /\ Ends("restored")
  /\ UNCHANGED <<from, target, started, saved>>

NpmFails ==
  /\ step \in {"rescue", "restore"}
  /\ Ends("failed")
  /\ UNCHANGED <<installed, from, target, tarball, note, started, saved>>

\* The process dies.
Dies ==
  /\ step # "idle"
  /\ Ends("died")
  /\ UNCHANGED <<installed, from, target, tarball, note, started, saved>>

-----------------------------------------------------------------------------
UpgradeInit ==
  /\ installed = [version |-> 1, whole |-> TRUE]
  /\ step = "idle" /\ from = 0 /\ target = 0 /\ tarball = NoTarball /\ note = 0
  /\ started = 0 /\ saved = FALSE /\ outcome = "none"

UpgradeNext ==
  \/ Upgrades \/ RollsBack \/ ByHand \/ NothingToPack \/ Wipe \/ Pack \/ Rename \/ Note
  \/ NpmBegins \/ Installs \/ InstallFails \/ Rescues \/ Restores \/ NpmFails \/ Dies

UpgradeSpec == UpgradeInit /\ [][UpgradeNext]_upvars

-----------------------------------------------------------------------------
\* What a rollback is offered, and what it has installed, is a wholly packed
\* version; and the rollback of a process that made its backup brings back the
\* version it was started from, whichever step failed and whoever died before.
RollbackIsWhole ==
  /\ RollbackInfo => tarball.whole
  /\ outcome \in {"rescued", "restored"} => installed.whole
  /\ outcome = "rescued" /\ saved => installed.version = from
=============================================================================

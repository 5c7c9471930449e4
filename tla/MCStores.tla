------------------------------ MODULE MCStores -------------------------------
(***************************************************************************)
(* What is left on disk, for TLC: a file with its backups and checkpoints  *)
(* (FileEdits), the vault (Vault), the installation (Upgrade), the tree    *)
(* after a headless run (OneShot), and the verdict on a task's work        *)
(* (Verification).  They share nothing: one `part` is chosen in the        *)
(* initial state and runs.                                                 *)
(***************************************************************************)
EXTENDS FileEdits, Vault, Upgrade, OneShot, Verification

VARIABLE part

mvars == <<part, fvars, vvars, upvars, oneshotvars, vfvars>>

-----------------------------------------------------------------------------
Parts == {"files", "vault", "upgrade", "oneshot", "verification"}

Init ==
  /\ part \in Parts
  /\ FilesInit /\ VaultInit /\ UpgradeInit
  /\ OneShotInit /\ (part # "oneshot" => changes = {})
  /\ VerifyInit /\ (part # "verification" => commands = {} /\ ~reviewed /\ home)

Next ==
  /\ UNCHANGED part
  /\ \/ part = "files" /\ FilesNext /\ UNCHANGED <<vvars, upvars, oneshotvars, vfvars>>
     \/ part = "vault" /\ VaultNext /\ UNCHANGED <<fvars, upvars, oneshotvars, vfvars>>
     \/ part = "upgrade" /\ UpgradeNext /\ UNCHANGED <<fvars, vvars, oneshotvars, vfvars>>
     \/ part = "oneshot" /\ OneShotNext /\ UNCHANGED <<fvars, vvars, upvars, vfvars>>
     \/ /\ part = "verification" /\ VerifyNext
        /\ UNCHANGED <<fvars, vvars, upvars, oneshotvars>>

Spec == Init /\ [][Next]_mvars

=============================================================================

------------------------------ MODULE MCBackup ------------------------------
(***************************************************************************)
(* Small instances of backup and restore for TLC.  In MCSpec a behaviour   *)
(* either takes backups, whose reads may fail, until it has one, or also   *)
(* restores those that were read as they should be.                        *)
(***************************************************************************)
EXTENDS Backup, TLC

VARIABLE part

MCHitKey == [p \in Paths |-> p]

MCMimeFor == [p \in Paths |-> "text"]

\* No definition tells one public content from another.
PublicContentsAlike == Permutations(Contents \ PrivateContents)

EverythingIsRead ==
    /\ dump' # NoDump => dump'.unread = {}
    /\ archive' # archive => archive'.data = scriptKV

MCInit == BackupInit /\ part \in {"backups", "restores"}

MCNext ==
    /\ BackupNext
    /\ UNCHANGED part
    /\ \/ part = "backups" /\ archive = NoArchive
       \/ part = "restores" /\ EverythingIsRead

MCSpec == MCInit /\ [][MCNext]_<<backupVars, part>>
=============================================================================

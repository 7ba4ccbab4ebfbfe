---------------------------- MODULE MCBackupHost ----------------------------
(* BackupHost with two runs and a quick action.     *)
EXTENDS BackupHost

=============================================================================

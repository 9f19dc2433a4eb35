------------------------------ MODULE AppUpdate ------------------------------
(***************************************************************************)
(* Updating the app and rolling back (app_update.py, update_app and        *)
(* rollback_app): a version is downloaded and checked, then its files are  *)
(* copied over the installed ones, each after a copy of the old one went   *)
(* into a backup.  The GUI may die, or a copy fail for want of space, at   *)
(* any file; a copy that fails leaves a torn file.  One update or rollback *)
(* runs at a time, unless the process that held the lock has died.         *)
(***************************************************************************)
EXTENDS Naturals, FiniteSets

CONSTANTS
  Versions,
  Files,        \* Files[v]: the files of a version
  First,        \* the version that is installed at first
  KeepBackups,  \* KEEP_BACKUPS
  MaxUpdates    \* a bound on how many backups are ever made

AllFiles == UNION {Files[v] : v \in Versions}
Absent == "absent"
Torn == "torn"

\* At least one backup is kept, so the one just made is.
UpdateConstants ==
  /\ KeepBackups \in Nat \ {0} /\ MaxUpdates \in Nat
  /\ First \in Versions /\ Absent \notin Versions

VARIABLES
  disk,      \* disk[f]: the version of the file in the app's directory
  marker,    \* .installed_version
  backups,   \* backups[n]: the marker and the files it holds; NoBackup when it is not there
  made,      \* backups made so far
  job,       \* what holds _update_lock: its kind, version, backup and files still to copy
  orig       \* the directory before the last update, until a rollback starts (history)

updateVars == <<disk, marker, backups, made, job, orig>>

NoJob == [kind |-> "none", version |-> Absent, backup |-> 0, left |-> {}]
NoFiles == [f \in AllFiles |-> Absent]
NoBackup == [version |-> Absent, files |-> NoFiles]
NoOrig == <<>>

There == {n \in 1 .. MaxUpdates : backups[n].version # Absent}
Held(n) == {f \in AllFiles : backups[n].files[f] # Absent}

----------------------------------------------------------------------------
\* update_app: the lock is taken, the version downloaded and checked.

Download(v) ==
  /\ job = NoJob
  /\ job' = [kind |-> "check", version |-> v, backup |-> 0, left |-> {}]
  /\ UNCHANGED <<disk, marker, backups, made, orig>>

\* A version that fails its checks is installed only by force.
Refuse ==
  /\ job.kind = "check"
  /\ job' = NoJob
  /\ UNCHANGED <<disk, marker, backups, made, orig>>

\* install: a new backup notes the installed version first.
StartInstall ==
  /\ job.kind = "check"
  /\ made < MaxUpdates
  /\ made' = made + 1
  /\ backups' = [backups EXCEPT ![made + 1] = [version |-> marker, files |-> NoFiles]]
  /\ job' = [kind |-> "update", version |-> job.version, backup |-> made + 1, left |-> Files[job.version]]
  /\ orig' = disk
  /\ UNCHANGED <<disk, marker>>

\* ... then file by file
Saved_slip(f, content) == [backups EXCEPT ![job.backup].files[f] = job.version]
Saved(f, content) == [backups EXCEPT ![job.backup].files[f] = content]

InstallFile(f) ==
  /\ job.kind = "update" /\ f \in job.left
  /\ backups' = IF disk[f] = Absent THEN backups ELSE Saved(f, disk[f])
  /\ disk' = [disk EXCEPT ![f] = job.version]
  /\ job' = [job EXCEPT !.left = @ \ {f}]
  /\ UNCHANGED <<marker, made, orig>>

\* A failing copy ends the request; the lock is released.
BackupCopyFails(f) ==
  /\ job.kind = "update" /\ f \in job.left /\ disk[f] # Absent
  /\ backups' = Saved(f, Torn)
  /\ job' = NoJob
  /\ UNCHANGED <<disk, marker, made, orig>>

InstallCopyFails(f) ==
  /\ job.kind = "update" /\ f \in job.left
  /\ backups' = IF disk[f] = Absent THEN backups ELSE Saved(f, disk[f])
  /\ disk' = [disk EXCEPT ![f] = Torn]
  /\ job' = NoJob
  /\ UNCHANGED <<marker, made, orig>>

\* The newest KEEP_BACKUPS are kept.
Kept(B) == {n \in B : Cardinality({m \in B : m >= n}) <= KeepBackups}

FinishUpdate ==
  /\ job.kind = "update" /\ job.left = {}
  /\ marker' = job.version
  /\ backups' = [n \in 1 .. MaxUpdates |-> IF n \in Kept(There) THEN backups[n] ELSE NoBackup]
  /\ job' = NoJob
  /\ UNCHANGED <<disk, made, orig>>

----------------------------------------------------------------------------
\* rollback_app, rollback

StartRollback(n) ==
  /\ job = NoJob
  /\ n \in There
  /\ job' = [kind |-> "rollback", version |-> backups[n].version, backup |-> n, left |-> Held(n)]
  /\ UNCHANGED <<disk, marker, backups, made, orig>>

RestoreFile(f) ==
  /\ job.kind = "rollback" /\ f \in job.left
  /\ disk' = [disk EXCEPT ![f] = backups[job.backup].files[f]]
  /\ job' = [job EXCEPT !.left = @ \ {f}]
  /\ orig' = IF job.backup = made THEN orig ELSE NoOrig
  /\ UNCHANGED <<marker, backups, made>>

RestoreFails(f) ==
  /\ job.kind = "rollback" /\ f \in job.left
  /\ disk' = [disk EXCEPT ![f] = Torn]
  /\ job' = NoJob
  /\ orig' = IF job.backup = made THEN orig ELSE NoOrig
  /\ UNCHANGED <<marker, backups, made>>

FinishRollback ==
  /\ job.kind = "rollback" /\ job.left = {}
  /\ marker' = job.version
  /\ job' = NoJob
  /\ UNCHANGED <<disk, backups, made, orig>>

GuiDies ==
  /\ job # NoJob
  /\ job' = NoJob
  /\ UNCHANGED <<disk, marker, backups, made, orig>>

UpdateInit ==
  /\ disk = [f \in AllFiles |-> IF f \in Files[First] THEN First ELSE Absent]
  /\ marker = First
  /\ backups = [n \in 1 .. MaxUpdates |-> NoBackup]
  /\ made = 0
  /\ job = NoJob /\ orig = NoOrig

UpdateNext ==
  \/ \E v \in Versions : Download(v)
  \/ Refuse \/ StartInstall
  \/ \E f \in AllFiles : InstallFile(f) \/ BackupCopyFails(f) \/ InstallCopyFails(f) \/ RestoreFile(f) \/ RestoreFails(f)
  \/ \E n \in There : StartRollback(n)
  \/ FinishUpdate \/ FinishRollback \/ GuiDies

UpdateSpec == UpdateInit /\ [][UpdateNext]_updateVars

----------------------------------------------------------------------------
\* Properties

UpdateTypeOK ==
  /\ disk \in [AllFiles -> Versions \cup {Absent, Torn}]
  /\ marker \in Versions /\ made \in 0 .. MaxUpdates
  /\ There \subseteq 1 .. made
  /\ backups \in [1 .. MaxUpdates -> [version : Versions \cup {Absent}, files : [AllFiles -> Versions \cup {Absent, Torn}]]]
  /\ job.kind \in {"none", "check", "update", "rollback"} /\ job.left \subseteq AllFiles

\* "after backing up every file that is replaced": wherever the last update or its
\* rollback broke off, what is on the disk with its backup put back over it is what was
\* there before, but for files the update has added and those whose backup copy is torn.
Restorable == orig # NoOrig =>
  /\ made \in There
  /\ \A f \in AllFiles : orig[f] # Absent =>
       IF f \in Held(made) THEN backups[made].files[f] \in {orig[f], Torn} ELSE disk[f] = orig[f]
==============================================================================

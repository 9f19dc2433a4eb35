------------------------------ MODULE AtomicFile ------------------------------
(***************************************************************************)
(* What the services rely on when they keep their files with               *)
(* settings.atomic_write_text: the file holds one version or another, a    *)
(* reader gets the whole of one of them, and a power failure brings back   *)
(* the version that had reached the disk, whole.                           *)
(***************************************************************************)
CONSTANTS Versions, Readers

VARIABLES
  file,  \* the version the file has
  disk,  \* the version that has reached the disk
  got    \* got[r]: the version reader r works on, or "none"

vars == <<file, disk, got>>

Init == \E v \in Versions : /\ file = v /\ disk = v
                            /\ got = [r \in Readers |-> "none"]

Replace(v) == file' = v /\ UNCHANGED <<disk, got>>
Commit == disk' = file /\ UNCHANGED <<file, got>>
Read(r) == got' = [got EXCEPT ![r] = file] /\ UNCHANGED <<file, disk>>
Leave(r) == got' = [got EXCEPT ![r] = "none"] /\ UNCHANGED <<file, disk>>

PowerFailure ==
  /\ file' = disk
  /\ got' = [r \in Readers |-> "none"]
  /\ UNCHANGED disk

Next ==
  \/ \E v \in Versions : Replace(v)
  \/ Commit
  \/ \E r \in Readers : Read(r) \/ Leave(r)
  \/ PowerFailure

Spec == Init /\ [][Next]_vars
=============================================================================

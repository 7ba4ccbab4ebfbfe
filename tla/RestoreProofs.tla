---------------------------- MODULE RestoreProofs ----------------------------
(***************************************************************************)
(* Restore is correct for any volumes and snapshots: it writes into new    *)
(* volumes only, a success is whole and nothing half restored stays, under *)
(* the faults that each property names.                                    *)
(***************************************************************************)
EXTENDS Restore, TLAPS

\* A restore gets to docker only with a name that was free when it asked, unless
\* docker's answer was wrong; an expired context can take it past the look for
\* the volume, but no further.
FreeInv ==
  /\ pc = "snapshots" => N \in free \/ expired \/ "inspect" \in faults
  /\ pc \in {"create", "restore", "remove"} => N \in free \/ "inspect" \in faults

\* The snapshot was checked before the volume was created.
SnapshotInv ==
  pc \in {"create", "restore"} =>
    found = req.snap /\ found \in Ours /\ VolumeOf[found] = req.vol

\* What the new volume holds, if it really is new and nobody else writes to it.
ContentInv ==
  {"user", "inspect"} \cap faults = {} =>
    /\ pc = "snapshots" => vols[N] = Absent \/ expired
    /\ pc = "create" => vols[N] = Absent
    /\ pc = "restore" => vols[N] \subseteq Whole(found)

\* A restore that is still under way has written to no volume but the new one.
NothingElseInv ==
  "user" \notin faults =>
    /\ pc # "idle" => \A n \in free \ {N} : vols[n] = Absent
    /\ pc \in {"inspect", "snapshots", "create"} => \A n \in free : vols[n] = Absent

IInv == /\ TypeOK /\ FreeInv /\ SnapshotInv /\ ContentInv /\ NothingElseInv
        /\ (status = "running" <=> pc # "idle")
        /\ SuccessIsWhole /\ NothingHalfRestored

-----------------------------------------------------------------------------
(* Volumes.                                                                *)

\* docker volume create does not leave a name without a volume.
LEMMA CreatedIsThere == Created # Absent
  BY DEF Created, Absent

\* A volume with a part of a snapshot is there.
LEMMA PartIsThere ==
  ASSUME NEW s \in Snapshots, NEW p \in Parts, NEW c PROVE c \cup {<<s, p>>} # Absent
<1>1. <<s, p>> \in c \cup {<<s, p>>}
  OBVIOUS
<1>2. <<s, p>> # None
  BY RestoreAssumption
<1>3. <<s, p>> \notin Absent
  BY <1>2 DEF Absent
<1> QED
  BY <1>1, <1>3

\* What the steps write into a volume is of the right type.
LEMMA VolumeTypes ==
  ASSUME TypeOK
  PROVE  /\ N \in Names /\ Absent \in Contents /\ {Own} \in Contents
         /\ Created \in Contents
         /\ \A s \in Snapshots, p \in Parts : Created \cup {<<s, p>>} \in Contents
         /\ \A n \in Names : (vols[n] \ Absent) \cup {Own} \in Contents
<1> DEFINE Present == SUBSET ({Own} \cup (Snapshots \X Parts))
<1>1. Contents = Present \cup {Absent}
  BY DEF Contents
<1>2. N \in Names /\ \A n \in Names : vols[n] \in Present \cup {Absent}
  BY <1>1 DEF TypeOK, N
<1>3. {} \in Present /\ {Own} \in Present
  OBVIOUS
<1>4. Created \in Present
  BY <1>2, <1>3 DEF Created
<1>5. ASSUME NEW s \in Snapshots, NEW p \in Parts PROVE Created \cup {<<s, p>>} \in Present
  BY <1>4
<1>6. ASSUME NEW n \in Names PROVE (vols[n] \ Absent) \cup {Own} \in Present
  BY <1>2
<1> QED
  BY <1>1, <1>2, <1>3, <1>4, <1>5, <1>6

-----------------------------------------------------------------------------
(* The initial state, and one lemma per step.                              *)

\* No restore has begun.
LEMMA InitInv == Init => IInv
<1> SUFFICES ASSUME Init PROVE IInv
  OBVIOUS
<1>1. \A n \in Names : vols[n] \in Contents
  <2>1. {Own} \in SUBSET ({Own} \cup (Snapshots \X Parts))
    OBVIOUS
  <2> QED
    BY <2>1 DEF Init, Contents
<1>2. TypeOK
  BY <1>1 DEF Init, TypeOK
<1> QED
  BY <1>2 DEF Init, IInv, FreeInv, SnapshotInv, ContentInv, NothingElseInv, SuccessIsWhole,
     NothingHalfRestored

\* A restore begins: the names without a volume are free.
LEMMA StartPreserves == ASSUME IInv, Start PROVE IInv'
<1>1. TypeOK'
  BY DEF IInv, Start, TypeOK
<1> QED
  BY <1>1 DEF IInv, Start, FreeInv, SnapshotInv, ContentInv, NothingElseInv, SuccessIsWhole,
     NothingHalfRestored

\* volumeExists: past it the name is free, or docker gave no true answer.
LEMMA LookPreserves == ASSUME IInv, LookForVolume PROVE IInv'
<1>1. TypeOK'
  BY DEF IInv, LookForVolume, VolumeExists, Finish, TypeOK
<1>2. N \in Names
  BY DEF IInv, TypeOK, N
<1> QED
  BY <1>1, <1>2 DEF IInv, LookForVolume, VolumeExists, Finish, N, FreeInv, SnapshotInv, ContentInv,
     NothingElseInv, SuccessIsWhole, NothingHalfRestored

\* The snapshot that is found is the one asked for.
LEMMA CheckPreserves == ASSUME IInv, CheckSnapshot PROVE IInv'
<1>1. TypeOK'
  BY DEF IInv, CheckSnapshot, Matches, Finish, TypeOK
<1> QED
  BY <1>1 DEF IInv, CheckSnapshot, Matches, Finish, N, FreeInv, SnapshotInv, ContentInv,
     NothingElseInv, SuccessIsWhole, NothingHalfRestored

\* The volume is created, or was there.
LEMMA CreatePreserves == ASSUME IInv, CreateVolume PROVE IInv'
<1>1. TypeOK'
  BY VolumeTypes DEF IInv, CreateVolume, Finish, TypeOK
<1>2. N' = N /\ N \in Names /\ vols \in [Names -> Contents]
  BY DEF IInv, TypeOK, CreateVolume, N
<1>3. CASE Finish("uncreated") /\ vols' \in {vols, [vols EXCEPT ![N] = Created]}
  <2>1. FreeInv' /\ SnapshotInv' /\ ContentInv' /\ NothingElseInv' /\ SuccessIsWhole'
    BY <1>3 DEF CreateVolume, Finish, FreeInv, SnapshotInv, ContentInv, NothingElseInv,
       SuccessIsWhole
  <2>2. NothingHalfRestored'
    <3>1. /\ free \subseteq Names /\ UNCHANGED <<faults, free>> /\ status' = "uncreated"
          /\ "user" \notin faults => \A n \in free : vols[n] = Absent
      BY <1>3 DEF IInv, TypeOK, NothingElseInv, CreateVolume, Finish
    <3>2. "user" \notin faults => \A n \in free : vols'[n] = Absent \/ (n = N /\ vols'[n] = {})
      BY <1>2, <1>3, <3>1 DEF Created
    <3> QED
      BY <1>2, <3>1, <3>2 DEF NothingHalfRestored
  <2> QED
    BY <1>1, <1>3, <2>1, <2>2 DEF IInv, CreateVolume, Finish
<1>4. CASE vols' = [vols EXCEPT ![N] = Created] /\ pc' = "restore" /\ UNCHANGED status
  BY <1>1, <1>2, <1>4, CreatedIsThere DEF IInv, CreateVolume, Created, FreeInv, SnapshotInv,
     ContentInv, NothingElseInv, SuccessIsWhole, NothingHalfRestored
<1> QED
  BY <1>3, <1>4 DEF CreateVolume

\* restic writes a part of the snapshot into the new volume.
LEMMA RestorePartPreserves == ASSUME IInv, RestorePart PROVE IInv'
<1>1. PICK p \in Parts : vols' = [vols EXCEPT ![N] = Created \cup {<<found, p>>}]
  BY DEF RestorePart
<1>2. N' = N /\ N \in Names /\ vols \in [Names -> Contents] /\ found \in Snapshots
  BY DEF IInv, TypeOK, RestorePart, N
<1>3. TypeOK'
  BY <1>1, <1>2, VolumeTypes DEF IInv, RestorePart, TypeOK
<1>4. FreeInv'
  BY <1>1, <1>2, PartIsThere DEF IInv, RestorePart, FreeInv
<1>5. ContentInv'
  BY <1>1, <1>2 DEF IInv, RestorePart, ContentInv, Created, Whole
<1> QED
  BY <1>1, <1>2, <1>3, <1>4, <1>5 DEF IInv, RestorePart, SnapshotInv, NothingElseInv,
     SuccessIsWhole, NothingHalfRestored

\* restic is done, or gives up.
LEMMA EndPreserves == ASSUME IInv, Restored \/ RestoreFails PROVE IInv'
<1>1. TypeOK'
  BY DEF IInv, Restored, RestoreFails, Finish, TypeOK
<1>2. CASE Restored
  BY <1>1, <1>2 DEF IInv, Restored, Finish, N, FreeInv, SnapshotInv, ContentInv,
     NothingElseInv, SuccessIsWhole, NothingHalfRestored
<1>3. CASE RestoreFails
  BY <1>1, <1>3 DEF IInv, RestoreFails, N, FreeInv, SnapshotInv, ContentInv,
     NothingElseInv, SuccessIsWhole, NothingHalfRestored
<1> QED
  BY <1>2, <1>3

\* After a failure the volume goes; it stays only where docker refuses.
LEMMA RemovePreserves == ASSUME IInv, RemoveVolume PROVE IInv'
<1>1. TypeOK'
  BY VolumeTypes DEF IInv, RemoveVolume, Finish, TypeOK
<1>2. N' = N /\ N \in Names /\ vols \in [Names -> Contents]
  BY DEF IInv, TypeOK, RemoveVolume, N
<1>3. FreeInv' /\ SnapshotInv' /\ ContentInv' /\ NothingElseInv' /\ SuccessIsWhole'
  BY DEF RemoveVolume, Finish, FreeInv, SnapshotInv, ContentInv, NothingElseInv, SuccessIsWhole
<1>4. NothingHalfRestored'
  <2>1. {"user", "remove"} \cap faults = {} => "user" \notin faults /\ "remove" \notin faults
    OBVIOUS
  <2>2. faults' = faults /\ free' = free /\ status' = "error"
    BY DEF RemoveVolume, Finish
  <2>3. free \subseteq Names /\ pc # "idle"
    BY DEF IInv, TypeOK, RemoveVolume
  <2>4. "user" \notin faults /\ "remove" \notin faults => \A n \in free : vols'[n] = Absent
    BY <1>2, <2>3 DEF IInv, RemoveVolume, NothingElseInv
  <2> QED
    BY <2>1, <2>2, <2>4 DEF NothingHalfRestored
<1> QED
  BY <1>1, <1>3, <1>4 DEF IInv, RemoveVolume, Finish

\* Others create, fill and remove volumes meanwhile.
LEMMA UserPreserves == ASSUME IInv, User PROVE IInv'
<1>1. PICK n \in Names :
        vols' \in { [vols EXCEPT ![n] = {Own}],
                    [vols EXCEPT ![n] = (@ \ Absent) \cup {Own}],
                    [vols EXCEPT ![n] = IF pc = "restore" /\ n = N THEN @ ELSE Absent] }
  BY DEF User
<1>2. vols' \in [Names -> Contents]
  BY <1>1, VolumeTypes DEF IInv, TypeOK
<1>3. TypeOK'
  BY <1>1, <1>2 DEF IInv, User, TypeOK
<1>4. FreeInv'
  BY DEF IInv, User, FreeInv, N
<1> QED
  BY <1>3, <1>4 DEF IInv, User, N, SnapshotInv, ContentInv, NothingElseInv, SuccessIsWhole,
     NothingHalfRestored

\* The time limit, a crash, a snapshot that goes.
LEMMA OtherPreserves == ASSUME IInv, Expire \/ Crash \/ Forget \/ UNCHANGED vars PROVE IInv'
<1>1. TypeOK'
  <2>1. expired' \in BOOLEAN
    BY DEF IInv, TypeOK, Expire, Crash, Forget, vars
  <2> QED
    BY <2>1 DEF IInv, TypeOK, Expire, Crash, Forget, vars
<1> QED
  BY <1>1 DEF IInv, Expire, Crash, Forget, vars, N, FreeInv, SnapshotInv, ContentInv, NothingElseInv,
     SuccessIsWhole, NothingHalfRestored

\* Every step keeps the invariant.
LEMMA NextPreserves == ASSUME IInv, [Next]_vars PROVE IInv'
  BY StartPreserves, LookPreserves, CheckPreserves, CreatePreserves, RestorePartPreserves,
     EndPreserves, RemovePreserves, UserPreserves, OtherPreserves DEF Next, Agent

\* IInv holds throughout.
LEMMA InvariantHolds == Spec => []IInv
  BY InitInv, NextPreserves, PTL DEF Spec

-----------------------------------------------------------------------------
(* What follows from the invariant.                                        *)

\* Type correctness.
THEOREM TypeCorrect == Spec => []TypeOK
<1>1. IInv => TypeOK
  BY DEF IInv
<1> QED
  BY <1>1, InvariantHolds, PTL

\* A restore reported as a success is the whole of the right snapshot and
\* nothing else (backupExecutor.restore).
THEOREM SuccessIsWholeHolds == Spec => []SuccessIsWhole
<1>1. IInv => SuccessIsWhole
  BY DEF IInv
<1> QED
  BY <1>1, InvariantHolds, PTL

\* A restore reported as failed leaves no part of a snapshot behind, also when
\* the 12 h limit ended it (backupExecutor.restore: the removal has a context of
\* its own), and no volume at all unless creating it is what failed.
THEOREM NothingHalfRestoredHolds == Spec => []NothingHalfRestored
<1>1. IInv => NothingHalfRestored
  BY DEF IInv
<1> QED
  BY <1>1, InvariantHolds, PTL

\* Only volumes whose name was free when docker was asked are written to or
\* removed, whoever else is at work on the host (volumeExists before anything
\* else).
THEOREM OnlyNewVolumesHolds == Spec => OnlyNewVolumes
<1> DEFINE Allowed(n) == Agent /\ vols'[n] # vols[n] => n \in free \/ "inspect" \in faults
<1>1. ASSUME IInv, [Next]_vars PROVE [\A n \in Names : Allowed(n)]_vars
  <2> SUFFICES ASSUME NEW n \in Names, Agent, vols'[n] # vols[n]
               PROVE  n \in free \/ "inspect" \in faults
    OBVIOUS
  <2> USE <1>1
  <2>1. CreateVolume \/ RestorePart \/ RemoveVolume
    BY DEF Agent, Start, LookForVolume, CheckSnapshot, Restored, RestoreFails
  <2>2. n = N
    BY <2>1 DEF IInv, TypeOK, CreateVolume, RestorePart, RemoveVolume
  <2> QED
    BY <2>1, <2>2 DEF IInv, FreeInv, CreateVolume, RestorePart, RemoveVolume
<1> QED
  BY <1>1, InvariantHolds, PTL DEF Spec, OnlyNewVolumes
=============================================================================

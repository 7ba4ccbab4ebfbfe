------------------------------ MODULE Restore -------------------------------
(***************************************************************************)
(* Restoring a snapshot into a new volume (backup_run.go:                  *)
(* backupExecutor.restore and what it calls), one restore after the other  *)
(* as backupGate makes them.                                               *)
(*                                                                         *)
(* A volume is Absent or the set of what is in it: parts of snapshots, and *)
(* Own for anything a user keeps there.  Docker's volume create succeeds on *)
(* a volume that exists and leaves it as it is, docker run creates a volume *)
(* that is missing, and a volume in use cannot be removed.                 *)
(***************************************************************************)
EXTENDS Integers, FiniteSets

CONSTANTS
  Names,         \* names of volumes
  Kept,          \* those that hold data from the start
  Snapshots,     \* in the repository, which hosts can share
  VolumeOf,      \* VolumeOf[s]: the volume snapshot s is tagged with
  Ours,          \* the snapshots taken on this host
  Parts,         \* what a restore writes, one after the other
  None,
  FaultModels    \* sets of faults, of which one is fixed from the start:
                 \* "inspect" (docker volume inspect fails), "create" (the
                 \* answer to docker volume create is lost), "remove" (docker
                 \* volume rm fails), "user" (others create, fill and remove
                 \* volumes), "forget" (snapshots go), "expire", "crash"

Own == <<None, "own">>

ASSUME RestoreAssumption ==
  /\ Kept \subseteq Names
  /\ VolumeOf \in [Snapshots -> Names] /\ Ours \subseteq Snapshots
  /\ None \notin Snapshots \cup (Snapshots \X Parts)
  /\ Parts # {}
  /\ FaultModels \subseteq
       SUBSET {"inspect", "create", "remove", "user", "forget", "expire", "crash"}

VARIABLES
  faults,    \* the faults that can happen
  pc,        \* the next call the restore makes
  req,       \* req.Snapshot, req.Volume and req.NewVolume
  found,     \* snaps[0]
  status,    \* rep.Status; "uncreated" is the error of createVolume
  expired,   \* ctx is done
  vols,      \* the volumes
  repo,      \* the snapshots that are still there
  free       \* history: names without a volume when volumeExists asked docker

vars == <<faults, pc, req, found, status, expired, vols, repo, free>>

-----------------------------------------------------------------------------
Absent   == {None}
Whole(s) == {s} \X Parts
N        == req.new

Init == /\ faults \in FaultModels
        /\ pc = "idle"
        /\ req \in [snap : {None}, vol : Names, new : Names]
        /\ found = None /\ status = "error" /\ expired = FALSE
        /\ vols = [n \in Names |-> IF n \in Kept THEN {Own} ELSE Absent]
        /\ repo = Snapshots
        /\ free = {}

\* The report, and the end of the restore.
Finish(result) == pc' = "idle" /\ status' = result

-----------------------------------------------------------------------------
Start == /\ pc = "idle"
         /\ pc' = "inspect"
         /\ req' \in [snap : Snapshots \cup {None}, vol : Names, new : Names]
         /\ found' = None /\ status' = "running" /\ expired' = FALSE
         /\ free' = {}
         /\ UNCHANGED <<faults, vols, repo>>

\* Mutant: the volume is not looked for.
VolumeExistsNot == pc = "inspect" /\ pc' = "snapshots" /\ UNCHANGED status

\* volumeExists: any error of docker, an expired context included, reads as
\* "no such volume".
VolumeExists ==
  /\ pc = "inspect"
  /\ \/ /\ vols[N] # Absent /\ ~expired
        /\ Finish("error")
     \/ /\ vols[N] = Absent \/ expired \/ "inspect" \in faults
        /\ pc' = "snapshots"
        /\ UNCHANGED status

LookForVolume ==
  /\ VolumeExists
  /\ free' = {n \in Names : vols[n] = Absent}
  /\ UNCHANGED <<faults, req, found, expired, vols, repo>>

\* Mutant: whatever restic lists will do.
MatchesAny(s) == s \in repo

\* Mutant: an empty list is not ruled out.
MatchesNone(s) == s \in repo => s \in Ours /\ VolumeOf[s] = req.vol

\* One snapshot, of this volume, on this host.
Matches(s) == s \in repo /\ s \in Ours /\ VolumeOf[s] = req.vol

\* restic snapshots.
CheckSnapshot ==
  /\ pc = "snapshots"
  /\ \/ /\ Matches(req.snap) /\ ~expired
        /\ found' = req.snap
        /\ pc' = "create"
        /\ UNCHANGED status
     \/ Finish("error") /\ UNCHANGED found
  /\ UNCHANGED <<faults, req, expired, vols, repo, free>>

Created == IF vols[N] = Absent THEN {} ELSE vols[N]

\* docker volume create.  The 12 h limit kills only the client, and an answer
\* can be lost: the volume can be there although the call failed, and the code
\* returns without removing it.
CreateVolume ==
  /\ pc = "create"
  /\ \/ /\ ~expired
        /\ vols' = [vols EXCEPT ![N] = Created]
        /\ pc' = "restore"
        /\ UNCHANGED status
     \/ /\ Finish("uncreated")
        /\ \/ UNCHANGED vols
           \/ /\ expired \/ "create" \in faults
              /\ vols' = [vols EXCEPT ![N] = Created]
  /\ UNCHANGED <<faults, req, found, expired, repo, free>>

\* restic restore, in a helper that mounts the volume: part by part.
RestorePart ==
  /\ pc = "restore" /\ ~expired /\ found \in repo
  /\ \E p \in Parts : vols' = [vols EXCEPT ![N] = Created \cup {<<found, p>>}]
  /\ UNCHANGED <<faults, pc, req, found, status, expired, repo, free>>

Restored ==
  /\ pc = "restore" /\ ~expired
  /\ Whole(found) \subseteq vols[N]
  /\ Finish("success")
  /\ UNCHANGED <<faults, req, found, expired, vols, repo, free>>

\* It fails, or ctx ends and the helper is stopped.
RestoreFails ==
  /\ pc = "restore"
  /\ pc' = "remove"
  /\ UNCHANGED <<faults, req, found, status, expired, vols, repo, free>>

\* Mutant: the removal takes the context of the run.
RemoveVolumeInTime ==
  /\ pc = "remove"
  /\ IF expired THEN UNCHANGED vols ELSE vols' = [vols EXCEPT ![N] = Absent]
  /\ Finish("error")
  /\ UNCHANGED <<faults, req, found, expired, repo, free>>

\* docker volume rm -f, with a context of its own; its error is ignored.
RemoveVolume ==
  /\ pc = "remove"
  /\ \/ vols' = [vols EXCEPT ![N] = Absent]
     \/ "remove" \in faults /\ UNCHANGED vols
  /\ Finish("error")
  /\ UNCHANGED <<faults, req, found, expired, repo, free>>

-----------------------------------------------------------------------------
(* The rest of the world.                                                  *)

\* The 12 h limit, at any time.
Expire == /\ "expire" \in faults
          /\ pc # "idle" /\ ~expired
          /\ expired' = TRUE
          /\ UNCHANGED <<faults, pc, req, found, status, vols, repo, free>>

\* Nothing is picked up later; a helper that runs on writes what it could have
\* written before.
Crash == /\ "crash" \in faults
         /\ pc # "idle"
         /\ pc' = "idle" /\ status' = "crashed"
         /\ UNCHANGED <<faults, req, found, expired, vols, repo, free>>

Forget == /\ "forget" \in faults
          /\ \E s \in repo : repo' = repo \ {s}
          /\ UNCHANGED <<faults, pc, req, found, status, expired, vols, free>>

\* The helper of a restore keeps its volume in use.
User ==
  /\ "user" \in faults
  /\ \E n \in Names :
       /\ vols' \in { [vols EXCEPT ![n] = {Own}],
                      [vols EXCEPT ![n] = (@ \ Absent) \cup {Own}],
                      [vols EXCEPT ![n] = IF pc = "restore" /\ n = N THEN @ ELSE Absent] }
  /\ UNCHANGED <<faults, pc, req, found, status, expired, repo, free>>

-----------------------------------------------------------------------------
Agent == \/ Start \/ LookForVolume \/ CheckSnapshot \/ CreateVolume
         \/ RestorePart \/ Restored \/ RestoreFails \/ RemoveVolume

Next == Agent \/ Expire \/ Crash \/ Forget \/ User

Spec == Init /\ [][Next]_vars

-----------------------------------------------------------------------------
(* Properties.                                                             *)

Contents == {Absent} \cup SUBSET ({Own} \cup (Snapshots \X Parts))

TypeOK == /\ faults \in FaultModels
          /\ pc \in {"idle", "inspect", "snapshots", "create", "restore", "remove"}
          /\ req \in [snap : Snapshots \cup {None}, vol : Names, new : Names]
          /\ found \in Snapshots \cup {None}
          /\ pc \in {"create", "restore"} => found \in Snapshots
          /\ status \in {"running", "success", "error", "uncreated", "crashed"}
          /\ expired \in BOOLEAN
          /\ vols \in [Names -> Contents]
          /\ repo \subseteq Snapshots
          /\ free \subseteq Names

\* "Restore into a new name": a restore writes to and removes only a volume
\* whose name was free when it asked docker, with the 12 h limit, a crash or a
\* user anywhere.  Nothing guards a volume that somebody else creates after
\* that; and what docker makes of an inspect that fails is left out: the code
\* takes it for "no such volume" and goes on to write into one that is there.
OnlyNewVolumes ==
  [][\A n \in Names : Agent /\ vols'[n] # vols[n] =>
       n \in free \/ "inspect" \in faults]_vars

\* A restore reported as a success leaves all of the snapshot asked for, which
\* is one of the asked volume on this host, and nothing else, in the new volume.
SuccessIsWhole ==
  status = "success" /\ {"user", "inspect"} \cap faults = {} =>
    /\ req.snap \in Ours /\ VolumeOf[req.snap] = req.vol
    /\ vols[N] = Whole(req.snap)

\* What a restore that was reported as failed leaves never passes for a restored
\* volume: no part of a snapshot stays, the 12 h limit in the middle of restic
\* included, and the name can be tried again.  Only when the creation of the
\* volume is what failed can there be one, empty, that blocks the name.
NothingHalfRestored ==
  {"user", "remove"} \cap faults = {} =>
    \A n \in free :
      /\ status = "error" => vols[n] = Absent
      /\ status = "uncreated" => vols[n] = Absent \/ (n = N /\ vols[n] = {})
=============================================================================

----------------------------- MODULE BackupRun ------------------------------
(***************************************************************************)
(* One host's backup runs (backup_run.go: backupExecutor.backup and what   *)
(* it calls), one after the other as backupGate makes them.                *)
(*                                                                         *)
(* Docker and restic are external: a call succeeds, fails, or fails after  *)
(* having taken effect.  A snapshot is [id, vol]; ids grow, so the newest  *)
(* snapshot is the one with the largest id, and bad holds the ids of those *)
(* that cannot be read back.  Once ctx has expired (12 h) every call that  *)
(* takes ctx fails; restarting containers does not take it.                *)
(***************************************************************************)
EXTENDS Integers, FiniteSets, Sequences

CONSTANTS
  Volumes, Containers,
  Mounts,      \* Mounts[c]: the volumes container c uses
  Request,     \* req.Volumes, the same in every run
  Policies,    \* how many snapshots a retention plan keeps; NoRetention
               \* stands for a policy without flags
  FaultModels, \* sets of faults, of which one is fixed from the start: "crash",
               \* "user" (containers started and stopped by others), "expire"
               \* and "stopLate" (docker stop fails, yet the container stops)
  MaxRuns      \* bound on the number of runs

NoRetention == -1

ASSUME BackupAssumption ==
  /\ Mounts \in [Containers -> SUBSET Volumes]
  /\ Request \in Seq(Volumes) /\ Request # <<>>
  /\ Policies \subseteq Nat \cup {NoRetention}
  /\ FaultModels \subseteq SUBSET {"crash", "user", "expire", "stopLate"}
  /\ MaxRuns \in Nat

VARIABLES
  faults,    \* the faults that can happen
  pc,        \* the next call the run makes
  mode,      \* req.Mode
  keep,      \* req.Retention
  vi,        \* index in Request
  todo,      \* users of the current volume still to stop
  stopped,   \* the containers to start again, in the order they were stopped
  failed,    \* restartFailures
  res,       \* rep.Volumes
  status,    \* rep.Status
  expired,   \* ctx is done
  running,   \* containers that run
  owed,      \* history: stopped by a run, no start attempted since
  before,    \* history: owed when this run began
  repo,      \* snapshots in the repository
  bad,       \* ids of unreadable snapshots
  ids,       \* the last snapshot id used
  verified,  \* history: snapshots that were read back
  runs       \* runs started

vars == <<faults, pc, mode, keep, vi, todo, stopped, failed, res, status, expired,
          running, owed, before, repo, bad, ids, verified, runs>>
work == <<faults, mode, keep, before>>
host == <<running, owed>>
repository == <<repo, bad, ids, verified>>

-----------------------------------------------------------------------------
Indices   == 1 .. Len(Request)
NoSnap    == 0
Blank     == [status |-> "none", snap |-> NoSnap, retention |-> "none"]
Users(v)  == {c \in Containers : v \in Mounts[c]}
Of(S, v)  == {s \in S : s.vol = v}
Elements(q) == {q[i] : i \in DOMAIN q}
V         == Request[vi]

\* The snapshots restic forget keeps: the newest keep of the volume.
Kept(v) == {s \in Of(repo, v) : Cardinality({t \in Of(repo, v) : t.id > s.id}) < keep}

Init == /\ faults \in FaultModels
        /\ pc = "idle" /\ mode = "live" /\ keep = NoRetention
        /\ vi = 1 /\ todo = {} /\ stopped = <<>> /\ failed = {}
        /\ res = [i \in Indices |-> Blank]
        /\ status = "success" /\ expired = FALSE
        /\ running = Containers /\ owed = {} /\ before = {}
        /\ repo = {} /\ bad = {} /\ ids = 0 /\ verified = {}
        /\ runs = 0

-----------------------------------------------------------------------------
(* executeRun and the head of backup.                                      *)

Start == /\ pc = "idle" /\ runs < MaxRuns
         /\ runs' = runs + 1
         /\ pc' = "config"
         /\ mode' \in {"live", "stop"}
         /\ keep' \in Policies
         /\ before' = owed
         /\ vi' = 1 /\ todo' = {} /\ stopped' = <<>> /\ failed' = {}
         /\ res' = [i \in Indices |-> Blank]
         /\ status' = "success" /\ expired' = FALSE
         /\ UNCHANGED <<faults, host, repository>>

\* restic cat config: the repository must be there before anything stops.
CatConfig == /\ pc = "config"
             /\ \/ /\ ~expired
                   /\ pc' = IF mode = "stop" THEN "list" ELSE "exists"
                   /\ UNCHANGED status
                \/ pc' = "report" /\ status' = "error"
             /\ UNCHANGED <<work, vi, todo, stopped, failed, res, expired, host, repository, runs>>

-----------------------------------------------------------------------------
(* stopUsers: volume by volume, the containers that run and mount it.      *)

\* Any error of stopUsers: the run is over, but for the deferred restart.
Abort == pc' = "restart" /\ status' = "error"

\* docker ps, less the containers already seen.
ListUsers ==
  /\ pc = "list"
  /\ \/ /\ ~expired
        /\ todo' = (Users(V) \cap running) \ Elements(stopped)
        /\ pc' = "stop"
        /\ UNCHANGED status
     \/ UNCHANGED todo /\ Abort
  /\ UNCHANGED <<work, vi, stopped, failed, res, expired, host, repository, runs>>

\* Mutant: a container that will not stop does not abort the run.
StopUserIgnoresError ==
  /\ pc = "stop"
  /\ \E c \in todo :
       /\ todo' = todo \ {c}
       /\ \/ /\ running' = running \ {c}
             /\ owed' = owed \cup ({c} \cap running)
             /\ stopped' = Append(stopped, c)
          \/ UNCHANGED <<running, owed, stopped>>
  /\ UNCHANGED <<pc, work, vi, failed, res, status, expired, repository, runs>>

\* docker stop of the next container.
StopUser ==
  /\ pc = "stop"
  /\ \E c \in todo :
       \/ /\ ~expired
          /\ todo' = todo \ {c}
          /\ running' = running \ {c}
          /\ owed' = owed \cup ({c} \cap running)
          /\ stopped' = Append(stopped, c)
          /\ UNCHANGED <<pc, status>>
       \/ /\ Abort
          /\ \/ UNCHANGED host
             \/ /\ "stopLate" \in faults
                /\ running' = running \ {c}
                /\ owed' = owed \cup ({c} \cap running)
          /\ UNCHANGED <<todo, stopped>>
  /\ UNCHANGED <<work, vi, failed, res, expired, repository, runs>>

\* All users of this volume are stopped: the next one, or the copies.
StopNextVolume ==
  /\ pc = "stop" /\ todo = {}
  /\ IF vi < Len(Request) THEN vi' = vi + 1 /\ pc' = "list"
                          ELSE vi' = 1 /\ pc' = "exists"
  /\ UNCHANGED <<work, todo, stopped, failed, res, status, expired, host, repository, runs>>

-----------------------------------------------------------------------------
(* backupVolume.                                                           *)

\* Mutant: the last volume is not recognised.
ResultPastEnd(r) == res' = [res EXCEPT ![vi] = r] /\ vi' = vi + 1 /\ pc' = "exists"

\* Mutant: the containers come back with the deferred restart only.
ResultThenRetention(r) ==
  /\ res' = [res EXCEPT ![vi] = r]
  /\ IF vi < Len(Request) THEN vi' = vi + 1 /\ pc' = "exists"
                          ELSE vi' = 1 /\ pc' = "retain"

\* This volume is done: the next one, or the restart.
Result(r) == /\ res' = [res EXCEPT ![vi] = r]
             /\ IF vi < Len(Request) THEN vi' = vi + 1 /\ pc' = "exists"
                                     ELSE vi' = 1 /\ pc' = "restart"

Error == [status |-> "error", snap |-> NoSnap, retention |-> "none"]

VolumeExists ==
  /\ pc = "exists"
  /\ \/ ~expired /\ pc' = "backup" /\ UNCHANGED <<vi, res>>
     \/ Result(Error)
  /\ UNCHANGED <<work, todo, stopped, failed, status, expired, host, repository, runs>>

\* restic leaves a new snapshot, which may turn out to be unreadable.
NewSnapshot == /\ ids' = ids + 1
               /\ repo' = repo \cup {[id |-> ids + 1, vol |-> V]}
               /\ bad' \in {bad, bad \cup {ids + 1}}
               /\ UNCHANGED verified

\* restic backup: exit 0, exit 3 (some files unreadable), or a failure --
\* which includes a summary that cannot be parsed though the snapshot exists.
Backup ==
  /\ pc = "backup"
  /\ \/ /\ ~expired
        /\ NewSnapshot
        /\ \E st \in {"success", "warning"} :
             res' = [res EXCEPT ![vi] = [status |-> st, snap |-> ids + 1, retention |-> "none"]]
        /\ pc' = "readback"
        /\ UNCHANGED vi
     \/ /\ Result(Error)
        /\ UNCHANGED repository \/ (~expired /\ NewSnapshot)
  /\ UNCHANGED <<work, todo, stopped, failed, status, expired, host, runs>>

\* Mutant: the snapshot is taken as good because restic exited with 0.
ReadBackTrusts ==
  /\ pc = "readback"
  /\ verified' = IF res[vi].snap \in bad THEN verified
                 ELSE verified \cup {[id |-> res[vi].snap, vol |-> V]}
  /\ Result(res[vi])
  /\ UNCHANGED <<work, todo, stopped, failed, status, expired, host, repo, bad, ids, runs>>

\* restic snapshots <id>: the snapshot has to be there and readable.
ReadBack ==
  /\ pc = "readback"
  /\ \/ /\ ~expired
        /\ res[vi].snap \notin bad
        /\ verified' = verified \cup {[id |-> res[vi].snap, vol |-> V]}
        /\ Result(res[vi])
     \/ Result(Error) /\ UNCHANGED verified
  /\ UNCHANGED <<work, todo, stopped, failed, status, expired, host, repo, bad, ids, runs>>

-----------------------------------------------------------------------------
(* restart, explicit after the copies and deferred on an early return.     *)

\* Mutant: an early return forgets the containers already stopped.
RestartOnlyAfterCopies ==
  /\ pc = "restart" /\ stopped # <<>>
  /\ LET c == stopped[Len(stopped)]
     IN IF status = "error" THEN UNCHANGED <<running, owed, failed>>
        ELSE running' = running \cup {c} /\ owed' = owed \ {c} /\ UNCHANGED failed
  /\ stopped' = SubSeq(stopped, 1, Len(stopped) - 1)
  /\ UNCHANGED <<pc, work, vi, todo, res, status, expired, repository, runs>>

\* docker start of the container stopped last; one that fails may have
\* started it all the same.
Restart ==
  /\ pc = "restart" /\ stopped # <<>>
  /\ LET c == stopped[Len(stopped)]
     IN /\ owed' = owed \ {c}
        /\ \/ running' = running \cup {c} /\ UNCHANGED failed
           \/ failed' = failed \cup {c} /\ running' \in {running, running \cup {c}}
  /\ stopped' = SubSeq(stopped, 1, Len(stopped) - 1)
  /\ UNCHANGED <<pc, work, vi, todo, res, status, expired, repository, runs>>

\* Nothing is left to start: on to retention, or to the report after an
\* early return.
Restarted ==
  /\ pc = "restart" /\ stopped = <<>>
  /\ pc' = IF status = "error" THEN "report" ELSE "retain"
  /\ UNCHANGED <<work, vi, todo, stopped, failed, res, status, expired, host, repository, runs>>

-----------------------------------------------------------------------------
(* applyRetention, volume by volume, then the status of the run.           *)

Eligible == keep # NoRetention /\ res[vi].status # "error" /\ res[vi].snap # NoSnap

\* A volume whose retention failed or was skipped is at best a warning.
Retained(r) ==
  res' = [res EXCEPT ![vi].retention = r,
                     ![vi].status = IF r # "applied" /\ @ = "success" THEN "warning" ELSE @]

\* The last volume is followed by the overall status; the deferred function
\* then turns a report that is no error into a warning if a restart failed.
NextRetention ==
  IF vi < Len(Request) THEN vi' = vi + 1 /\ pc' = "retain" /\ UNCHANGED status
  ELSE /\ vi' = 1 /\ pc' = "report"
       /\ status' = IF \E i \in Indices : res'[i].status = "error" THEN "error"
                    ELSE IF failed # {} \/ \E i \in Indices : res'[i].status = "warning"
                         THEN "warning" ELSE "success"

SkipRetention ==
  /\ pc = "retain" /\ ~Eligible
  /\ UNCHANGED res /\ NextRetention
  /\ UNCHANGED <<work, todo, stopped, failed, expired, host, repository, runs>>

\* Mutant: the plan of the dry run is not looked at.
DryRunUnchecked ==
  /\ pc = "retain" /\ Eligible
  /\ ~expired /\ pc' = "forget"
  /\ UNCHANGED <<work, vi, todo, stopped, failed, res, status, expired, host, repository, runs>>

\* restic forget --dry-run: a failure or a plan that keeps nothing (or one
\* that cannot be read) ends retention of this volume.
DryRun ==
  /\ pc = "retain" /\ Eligible
  /\ \/ /\ ~expired /\ Kept(V) # {}
        /\ pc' = "forget" /\ UNCHANGED <<vi, res, status>>
     \/ \E r \in {"failed", "skipped"} :
          (r = "skipped" => ~expired) /\ Retained(r) /\ NextRetention
  /\ UNCHANGED <<work, todo, stopped, failed, expired, host, repository, runs>>

ForgetOld == repo' = (repo \ Of(repo, V)) \cup Kept(V)

\* restic forget --prune: it removes the snapshots, then prunes; either can
\* fail, and both failures look the same to the agent.
Forget ==
  /\ pc = "forget"
  /\ \/ ~expired /\ ForgetOld /\ Retained("applied") /\ NextRetention
     \/ (UNCHANGED repo \/ (~expired /\ ForgetOld)) /\ Retained("failed") /\ NextRetention
  /\ UNCHANGED <<work, todo, stopped, failed, expired, host, bad, ids, verified, runs>>

\* reportRun posts the report; the run is over and the gate is free.
Report == /\ pc = "report"
          /\ pc' = "idle"
          /\ UNCHANGED <<work, vi, todo, stopped, failed, res, status, expired, host, repository, runs>>

-----------------------------------------------------------------------------
(* The surroundings.                                                       *)

Expire == /\ "expire" \in faults
          /\ pc # "idle" /\ ~expired
          /\ expired' = TRUE
          /\ UNCHANGED <<pc, work, vi, todo, stopped, failed, res, status, host, repository, runs>>

\* The agent dies; a helper it was waiting for may still do its work.
Crash == /\ "crash" \in faults
         /\ pc # "idle"
         /\ pc' = "idle"
         /\ \/ UNCHANGED repository
            \/ pc = "backup" /\ NewSnapshot
            \/ pc = "forget" /\ ForgetOld /\ UNCHANGED <<bad, ids, verified>>
         /\ vi' = 1 /\ todo' = {} /\ stopped' = <<>> /\ failed' = {}
         /\ res' = [i \in Indices |-> Blank]
         /\ status' = "success" /\ expired' = FALSE
         /\ UNCHANGED <<work, host, runs>>

\* Somebody starts or stops a container (a tunnel command, a deploy, a user).
User == /\ "user" \in faults
        /\ \E c \in Containers :
             \/ running' = running \cup {c} /\ owed' = owed \ {c}
             \/ running' = running \ {c} /\ UNCHANGED owed
        /\ UNCHANGED <<pc, work, vi, todo, stopped, failed, res, status, expired, repository, runs>>

Stop   == ListUsers \/ StopUser \/ StopNextVolume
Copy   == VolumeExists \/ Backup \/ ReadBack
Retain == SkipRetention \/ DryRun \/ Forget
Step   == CatConfig \/ Stop \/ Copy \/ Restart \/ Restarted \/ Retain \/ Report

Next == Start \/ Step \/ Expire \/ Crash \/ User

Spec == Init /\ [][Next]_vars

\* Every docker and restic call returns, if only because ctx expires.
LiveSpec == Spec /\ WF_vars(Step)

-----------------------------------------------------------------------------
(* Properties.                                                             *)

Snapshots == [id : 1 .. ids, vol : Volumes]

TypeOK == /\ faults \in FaultModels
          /\ pc \in {"idle", "config", "list", "stop", "exists", "backup", "readback",
                     "restart", "retain", "forget", "report"}
          /\ mode \in {"live", "stop"}
          /\ keep \in Policies \cup {NoRetention}
          /\ vi \in Indices
          /\ todo \subseteq Containers
          /\ stopped \in Seq(Containers)
          /\ failed \subseteq Containers
          /\ res \in [Indices -> [status : {"none", "success", "warning", "error"},
                                  snap : 0 .. ids,
                                  retention : {"none", "applied", "failed", "skipped"}]]
          /\ status \in {"success", "warning", "error"}
          /\ expired \in BOOLEAN
          /\ running \subseteq Containers
          /\ owed \subseteq Containers /\ before \subseteq Containers
          /\ ids \in Nat
          /\ repo \subseteq Snapshots
          /\ bad \subseteq 1 .. ids
          /\ verified \subseteq Snapshots
          /\ runs \in 0 .. MaxRuns

\* In stop mode no container that uses a volume runs while it is copied
\* (stopUsers), as long as nobody else starts one.
QuiescedCopy ==
  "user" \notin faults /\ mode = "stop" /\ pc = "backup" => Users(V) \cap running = {}

\* Between runs no container is down that a run stopped and never tried to
\* start, whatever call failed and whenever the time limit struck, unless the
\* agent died or docker stop failed after taking effect (stopUsers, backup).
StartedAgain ==
  faults \cap {"crash", "stopLate"} = {} /\ pc = "idle" => owed = {}

\* The same without exception: "so the caller restarts them, whatever happens
\* next" (stopUsers).
StartedWhatever == pc = "idle" => owed = {}

\* "before retention runs" (CHANGELOG 0.9.0): no container that this run
\* stopped waits for a retention that may take hours.
BackBeforeRetention == pc \in {"retain", "forget"} => owed \subseteq before

\* The agent does not refuse a request that names a volume twice.
Distinct == \A i, j \in Indices : Request[i] = Request[j] => i = j

\* A volume that once had a snapshot that was read back always has a readable
\* one: "before retention may remove an older one in its place"
\* (backupVolume), "never a policy that would remove every snapshot"
\* (applyRetention).
ReadableStays ==
  \A v \in Volumes : Of(verified, v) # {} => \E s \in Of(repo, v) : s.id \notin bad

\* It stays as long as a request names each volume once.
GoodSurvives == Distinct => ReadableStays

\* "A snapshot is read back before a run counts as a success" (CHANGELOG
\* 0.9.0): what a successful report promises is there -- one readable
\* snapshot of this run per volume, still in the repository after retention,
\* and no stopped container whose start failed.
SuccessIsTrue ==
  Distinct /\ pc = "report" /\ status = "success" =>
    /\ failed = {}
    /\ \A i \in Indices : [id |-> res[i].snap, vol |-> Request[i]] \in verified \cap repo

\* Every container a run stopped gets its start, whatever fails on the way
\* (with the exceptions of StartedAgain).
ContainersComeBack ==
  faults \cap {"crash", "stopLate"} = {} =>
    \A c \in Containers : (c \in owed) ~> (c \notin owed)
=============================================================================

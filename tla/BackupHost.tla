----------------------------- MODULE BackupHost -----------------------------
(***************************************************************************)
(* The life of backup sessions on a host: how they are accepted from the   *)
(* tunnel, take the gate, mount the share, run helpers, clean up and       *)
(* report (backup_run.go, backup.go), against the other goroutines of the  *)
(* agent: the poll loop that starts tunnels (main.go), and the reaper each *)
(* of them runs first (tunnel.go, reapBackupLeftovers).                    *)
(*                                                                         *)
(* A session is a run (backup, restore) or a quick action (test, init,     *)
(* list).  What a run does with its helpers is module BackupRun.  The      *)
(* share volume of a session carries the share's password; one that docker *)
(* makes up for a helper whose volume is gone is "empty".                  *)
(***************************************************************************)
EXTENDS Integers, FiniteSets

CONSTANTS
  Runs, Quicks,  \* session ids
  None,
  MaxTunnels,    \* bound on the tunnel goroutines one process starts
  MaxAttempts,   \* attempts of reportRun (12)
  FaultModels    \* sets of faults, of which one is fixed from the start:
                 \* "crash"; "reenroll" (status check answered 404);
                 \* "probe" (probe outlives its context); "create" (the
                 \* answer to POST /volumes/create is lost); "docker" (a
                 \* command of the clean-up fails)

ASSUME HostAssumption ==
  /\ Runs \cap Quicks = {} /\ None \notin Runs \cup Quicks
  /\ MaxTunnels \in Nat
  /\ MaxAttempts \in Nat \ {0}
  /\ FaultModels \subseteq SUBSET {"crash", "reenroll", "probe", "create", "docker"}

VARIABLES
  faults,         \* the faults that can happen
  alive,          \* the agent's process runs
  tunnelStarted,  \* the poll loop's local variable
  tunnel,         \* what each runHostStateTunnel goroutine does
  doomed,         \* what the reaper's docker ps / volume ls listed
  session,        \* where each session is
  gate,           \* backupGate: the run that holds it
  attempts,       \* attempts of the report being sent
  vols,           \* each session's volume: "none", "share" or "empty"
  helpers,        \* sessions with a helper container
  reported        \* runs whose report the controller has

vars == <<faults, alive, tunnelStarted, tunnel, doomed, session, gate, attempts,
          vols, helpers, reported>>
process == <<faults, alive, tunnelStarted>>
reaper  == <<tunnel, doomed>>
docker  == <<vols, helpers>>
report  == <<attempts, reported>>

Tunnels == 1 .. MaxTunnels
Ids    == Runs \cup Quicks
Active == {"creating", "open", "helper", "closing", "reporting"}

Init == /\ faults \in FaultModels
        /\ alive = FALSE /\ tunnelStarted = FALSE
        /\ tunnel = [t \in Tunnels |-> "none"]
        /\ doomed = [t \in Tunnels |-> {}]
        /\ session = [i \in Ids |-> "none"]
        /\ gate = None /\ attempts = 0
        /\ vols = [i \in Ids |-> "none"] /\ helpers = {}
        /\ reported = {}

-----------------------------------------------------------------------------
(* The process, the poll loop and the tunnels.                             *)

Boot == /\ ~alive
        /\ alive' = TRUE
        /\ UNCHANGED <<faults, tunnelStarted, reaper, session, gate, report, docker>>

\* pollLoop sees "connected" for the first time since it was entered.
StartTunnel ==
  /\ alive /\ ~tunnelStarted
  /\ \E t \in Tunnels :
       /\ tunnel[t] = "none"
       /\ \A u \in Tunnels : u < t => tunnel[u] # "none"
       /\ tunnel' = [tunnel EXCEPT ![t] = "listHelpers"]
  /\ tunnelStarted' = TRUE
  /\ UNCHANGED <<faults, alive, doomed, session, gate, report, docker>>

\* A 404 ends pollLoop; main enrols again and enters a new one, whose
\* tunnelStarted is false, while the tunnels of the old one never return.
Reenroll == /\ "reenroll" \in faults
            /\ alive /\ tunnelStarted
            /\ tunnelStarted' = FALSE
            /\ UNCHANGED <<faults, alive, reaper, session, gate, report, docker>>

\* reapBackupLeftovers lists by label, then removes what it listed: first
\* containers, then volumes; a volume in use cannot be removed.  A command
\* that fails, listing or removing, is skipped.
ListHelpers(t) ==
  /\ tunnel[t] = "listHelpers"
  /\ doomed' = [doomed EXCEPT ![t] = helpers]
  /\ tunnel' = [tunnel EXCEPT ![t] = "removeHelpers"]
  /\ UNCHANGED <<process, session, gate, report, docker>>

RemoveHelpers(t) ==
  /\ tunnel[t] = "removeHelpers"
  /\ \/ helpers' = helpers \ doomed[t]
     \/ "docker" \in faults /\ UNCHANGED helpers
  /\ doomed' = [doomed EXCEPT ![t] = {}]
  /\ tunnel' = [tunnel EXCEPT ![t] = "listVolumes"]
  /\ UNCHANGED <<process, session, gate, report, vols>>

ListVolumes(t) ==
  /\ tunnel[t] = "listVolumes"
  /\ doomed' = [doomed EXCEPT ![t] = {i \in Ids : vols[i] = "share"}]
  /\ tunnel' = [tunnel EXCEPT ![t] = "removeVolumes"]
  /\ UNCHANGED <<process, session, gate, report, docker>>

\* Mutant: only containers are cleaned up.
RemoveVolumesNot(t) ==
  /\ tunnel[t] = "removeVolumes"
  /\ doomed' = [doomed EXCEPT ![t] = {}]
  /\ tunnel' = [tunnel EXCEPT ![t] = "connected"]
  /\ UNCHANGED <<process, session, gate, report, docker>>

RemoveVolumes(t) ==
  /\ tunnel[t] = "removeVolumes"
  /\ \/ vols' = [i \in Ids |-> IF i \in doomed[t] \ helpers THEN "none" ELSE vols[i]]
     \/ "docker" \in faults /\ UNCHANGED vols
  /\ doomed' = [doomed EXCEPT ![t] = {}]
  /\ tunnel' = [tunnel EXCEPT ![t] = "connected"]
  /\ UNCHANGED <<process, session, gate, report, helpers>>

-----------------------------------------------------------------------------
(* Accepting a session: startBackupRun, handleBackupCommand.               *)

Move(i, s) == session' = [session EXCEPT ![i] = s]

\* Mutant: the tunnel takes commands while its reaper still works.
AcceptWhileReaping(i) ==
  /\ \E t \in Tunnels : tunnel[t] # "none"
  /\ session[i] = "none"
  /\ Move(i, IF i \in Runs THEN "waiting" ELSE "creating")
  /\ UNCHANGED <<process, reaper, gate, report, docker>>

\* A command arrives on a connected tunnel; a run is queued behind the gate,
\* a quick action is not.
Accept(i) ==
  /\ \E t \in Tunnels : tunnel[t] = "connected"
  /\ session[i] = "none"
  /\ Move(i, IF i \in Runs THEN "waiting" ELSE "creating")
  /\ UNCHANGED <<process, reaper, gate, report, docker>>

\* Mutant: no gate.
TakeGateFreely(i) ==
  /\ session[i] = "waiting"
  /\ gate' = i /\ attempts' = 0
  /\ Move(i, "creating")
  /\ UNCHANGED <<process, reaper, reported, docker>>

TakeGate(i) ==
  /\ session[i] = "waiting" /\ gate = None
  /\ gate' = i /\ attempts' = 0
  /\ Move(i, "creating")
  /\ UNCHANGED <<process, reaper, reported, docker>>

-----------------------------------------------------------------------------
(* The session: newBackupSession, restic and probe, Close.                 *)

AfterClose(i) == IF i \in Runs THEN "reporting" ELSE "done"

\* The image is there or pulled and the share volume is created; an error
\* ends the session without a Close, whether or not the volume was made.
CreateVolume(i) ==
  /\ session[i] = "creating"
  /\ \/ vols' = [vols EXCEPT ![i] = "share"] /\ Move(i, "open")
     \/ UNCHANGED vols /\ Move(i, AfterClose(i))
     \/ "create" \in faults /\ vols' = [vols EXCEPT ![i] = "share"] /\ Move(i, AfterClose(i))
  /\ UNCHANGED <<process, reaper, gate, report, helpers>>

\* docker run: a named volume that is gone is silently made anew.
RunHelper(i) ==
  /\ session[i] = "open"
  /\ helpers' = helpers \cup {i}
  /\ vols' = [vols EXCEPT ![i] = IF @ = "none" THEN "empty" ELSE @]
  /\ Move(i, "helper")
  /\ UNCHANGED <<process, reaper, gate, report>>

\* The helper is done (or was removed): another one, or the end.
HelperDone(i) ==
  /\ session[i] = "helper"
  /\ helpers' = helpers \ {i}
  /\ \E next \in {"open", "closing"} : Move(i, next)
  /\ UNCHANGED <<process, reaper, gate, report, vols>>

\* The context of probe ends (3 minutes, or the tunnel closed): only the docker
\* client is killed, not the helper.
ProbeTimeout(i) ==
  /\ "probe" \in faults
  /\ i \in Quicks /\ session[i] = "helper"
  /\ Move(i, "closing")
  /\ UNCHANGED <<process, reaper, gate, report, docker>>

\* A helper nobody waits for ends by itself.
OrphanEnds(i) ==
  /\ i \in helpers /\ session[i] # "helper"
  /\ helpers' = helpers \ {i}
  /\ UNCHANGED <<process, reaper, session, gate, report, vols>>

\* Mutant: the deferred Close is lost on a run's way out.
CloseForgotten(i) ==
  /\ session[i] = "closing"
  /\ Move(i, AfterClose(i))
  /\ UNCHANGED <<process, reaper, gate, report, docker>>

\* docker volume rm -f, which a running helper makes fail.
Close(i) ==
  /\ session[i] = "closing"
  /\ \/ vols' = [vols EXCEPT ![i] = IF i \in helpers THEN @ ELSE "none"]
     \/ "docker" \in faults /\ UNCHANGED vols
  /\ Move(i, AfterClose(i))
  /\ UNCHANGED <<process, reaper, gate, report, helpers>>

-----------------------------------------------------------------------------
(* reportRun, with the gate held.                                          *)

\* Mutant: a report that is given up keeps the gate.
ReleaseOnSuccess(i) ==
  Move(i, "done") /\ gate' = IF i \in reported THEN None ELSE gate

Release(i) == Move(i, "done") /\ gate' = None

\* Mutant: one attempt more than allowed.
ReportOneTooMany(i) ==
  /\ session[i] = "reporting"
  /\ \/ reported' = reported \cup {i} /\ Release(i) /\ UNCHANGED attempts
     \/ /\ UNCHANGED reported
        /\ attempts' = attempts + 1
        /\ IF attempts > MaxAttempts THEN Release(i) ELSE UNCHANGED <<session, gate>>
  /\ UNCHANGED <<process, reaper, docker>>

\* Mutant: the gate is free for the next run while the report is sent.
ReportWithoutGate(i) ==
  /\ session[i] = "reporting"
  /\ gate' = IF gate = i THEN None ELSE gate
  /\ \/ reported' = reported \cup {i} /\ Move(i, "done") /\ UNCHANGED attempts
     \/ /\ UNCHANGED reported
        /\ attempts < MaxAttempts /\ attempts' = attempts + 1
        /\ UNCHANGED session
  /\ UNCHANGED <<process, reaper, docker>>

\* One attempt: acknowledged; recorded but its answer lost; not delivered or
\* refused for now; refused for good (404, 403).
Report(i) ==
  /\ session[i] = "reporting"
  /\ \/ reported' = reported \cup {i} /\ Release(i) /\ UNCHANGED attempts
     \/ /\ reported' \in {reported, reported \cup {i}}
        /\ attempts' = attempts + 1
        /\ IF attempts' = MaxAttempts THEN Release(i) ELSE UNCHANGED <<session, gate>>
     \/ Release(i) /\ UNCHANGED report
  /\ UNCHANGED <<process, reaper, docker>>

-----------------------------------------------------------------------------
\* The process dies with all its goroutines; docker's objects stay.
Crash == /\ "crash" \in faults
         /\ alive
         /\ alive' = FALSE /\ tunnelStarted' = FALSE
         /\ tunnel' = [t \in Tunnels |-> "none"]
         /\ doomed' = [t \in Tunnels |-> {}]
         /\ session' = [i \in Ids |-> IF session[i] \in {"none", "done"} THEN session[i]
                                      ELSE "dead"]
         /\ gate' = None /\ attempts' = 0
         /\ UNCHANGED <<faults, docker, reported>>

Reap(t) == ListHelpers(t) \/ RemoveHelpers(t) \/ ListVolumes(t) \/ RemoveVolumes(t)
Work(i) == CreateVolume(i) \/ RunHelper(i) \/ HelperDone(i) \/ Close(i) \/ Report(i)

Next == \/ Boot \/ StartTunnel \/ Reenroll \/ Crash
        \/ \E t \in Tunnels : Reap(t)
        \/ \E i \in Ids : Accept(i) \/ Work(i) \/ ProbeTimeout(i) \/ OrphanEnds(i)
        \/ \E i \in Runs : TakeGate(i)

Spec == Init /\ [][Next]_vars

\* The container restarts, the host is approved, docker calls return, a
\* session runs finitely many helpers, and the gate is fair (a channel).
LiveSpec ==
  /\ Spec
  /\ WF_vars(Boot) /\ WF_vars(StartTunnel)
  /\ \A t \in Tunnels : WF_vars(Reap(t))
  /\ \A i \in Ids : /\ WF_vars(Work(i))
                    /\ SF_vars(HelperDone(i) /\ session'[i] = "closing")
  /\ \A i \in Runs : SF_vars(TakeGate(i))

-----------------------------------------------------------------------------
(* Properties.                                                             *)

TypeOK == /\ faults \in FaultModels
          /\ alive \in BOOLEAN /\ tunnelStarted \in BOOLEAN
          /\ tunnel \in [Tunnels -> {"none", "listHelpers", "removeHelpers",
                                     "listVolumes", "removeVolumes", "connected"}]
          /\ doomed \in [Tunnels -> SUBSET Ids]
          /\ session \in [Ids -> Active \cup {"none", "waiting", "done", "dead"}]
          /\ gate \in Runs \cup {None}
          /\ attempts \in 0 .. MaxAttempts
          /\ vols \in [Ids -> {"none", "share", "empty"}]
          /\ helpers \subseteq Ids
          /\ reported \subseteq Runs

\* "backupGate lets one run work at a time on this host": from creating its
\* share to the end of its report, whatever crashes come in between.
OneRunAtATime == \A i, j \in Runs : session[i] \in Active /\ session[j] \in Active => i = j

\* A session at work keeps its helper and its share.
SparesLive ==
  \A i \in Ids :
    session[i] \in {"open", "helper"} /\ session'[i] = session[i]
      => (i \in helpers => i \in helpers') /\ (vols[i] = "share" => vols'[i] = "share")

\* reapBackupLeftovers, which runs before its tunnel takes commands, removes
\* nothing of a session at work, as long as the process has one tunnel.
ReaperSparesLive == []["reenroll" \notin faults => SparesLive]_vars

\* The same without exception: it removes "helper containers and share volumes
\* a crash left behind" (reapBackupLeftovers).
ReaperSparesAlways == [][SparesLive]_vars

\* "Close removes the share volume: it holds the password in its options":
\* a session that ended has none, before its report is even sent, as long as
\* docker's clean-up works and no probe or lost answer leaves one behind.
RemovedAtEnd ==
  faults \cap {"probe", "create", "docker"} = {} =>
    \A i \in Ids : session[i] \in {"reporting", "done"} => vols[i] = "none"

\* "a crash that leaves some behind can be cleaned up at the next start": so can
\* what a session of a living process left, by a lost answer to the creation or a
\* probe cut short.  A volume with the password whose session died, or ended
\* before the process did, goes, once the process stops crashing and docker's
\* clean-up works.
LeftoversGo ==
  "docker" \notin faults /\ <>[][~Crash]_vars =>
    \A i \in Ids :
      (vols[i] = "share" /\ (session[i] = "dead" \/ (session[i] = "done" /\ ~alive)))
        ~> (vols[i] # "share")

\* An accepted run ends, however often its report fails, unless the agent
\* dies: the gate always comes free for the one that waits.
RunsEnd == \A i \in Runs : (session[i] = "waiting") ~> (session[i] \in {"done", "dead"})

\* Sessions, gate and report implement the queue of runs: one has its turn from
\* creating its share until its report is acknowledged or given up, the
\* controller hears of it only in that time, and a crash ends those at work and
\* those that wait for good.
Working == IF \E i \in Runs : session[i] \in Active
           THEN CHOOSE i \in Runs : session[i] \in Active ELSE None
Queue == INSTANCE RunQueue WITH
           queue <- {i \in Runs : session[i] = "waiting"}, working <- Working,
           told <- reported, over <- {i \in Runs : session[i] \in {"done", "dead"}}
QueueSpec == Queue!Spec
=============================================================================

------------------------------ MODULE PollLoop ------------------------------
(***************************************************************************)
(* The agent's main loop (main.go) and its health (health.go) against time: *)
(* the enrolment and its id file, the status check, the deploy that runs   *)
(* in line, the host-state tunnel as far as it marks the health file, and  *)
(* what `wharf-agent healthcheck` makes of that file.                      *)
(*                                                                         *)
(* Time passes in ticks of 15 s.  A Tick waits for what the code does at   *)
(* once or within a tick; while the controller is out of reach, or was a   *)
(* moment ago, a request can take up to Hang ticks.                        *)
(***************************************************************************)
EXTENDS Health

CONSTANTS
  Hang,        \* the sleep and the client's timeout together
  Settle,      \* how long after the last trouble the agent must be healthy
  FaultModels  \* sets of faults, of which one is fixed from the start:
               \* "outage", "docker", "deploy", "errors", "forget", "crash",
               \* "disk", "reject"

ASSUME PollLoopAssumption ==
  /\ {Hang, Settle} \subseteq Nat \ {0}
  /\ 2 <= Fresh /\ Hang <= Fresh  \* a sleep and a timeout fit in the freshness
  /\ Hang + 1 < Settle /\ Fresh < Settle /\ Resync < Settle
  /\ FaultModels \subseteq
       SUBSET {"outage", "docker", "deploy", "errors", "forget", "crash", "disk", "reject"}

VARIABLES
  faults,    \* the faults that can happen
  pc,        \* where main is
  late,      \* ticks since it got there
  idFile,    \* host_id: "none", "torn", or an id
  id,        \* the id in memory
  host,      \* the controller's record: "unknown", "pending" or "connected"
  reach,     \* the controller can be reached
  docker,    \* docker answers
  tunnel,    \* the host-state tunnel: "none", "down" or "up"
  quiet,     \* ticks since it sent a state
  mem,       \* healthCur
  file,      \* wharf-agent.health
  calm,      \* history: ticks since the last trouble
  cut        \* history: ticks in which no state reached the controller,
             \* since the host was connected and the agent knew

ids   == <<idFile, id>>
world == <<host, reach, docker>>
push  == <<tunnel, quiet>>
marks == <<mem, file>>
past  == <<calm, cut>>
vars  == <<faults, pc, late, ids, world, push, marks, past>>

-----------------------------------------------------------------------------
Init == /\ faults \in FaultModels
        /\ pc = "off" /\ late = 0
        /\ idFile = "none" /\ id = "none"
        /\ host = "unknown" /\ reach = TRUE /\ docker = TRUE
        /\ tunnel = "none" /\ quiet = 0
        /\ mem = Unknown /\ file = Unknown
        /\ calm = 0 /\ cut = 0

GoTo(place) == pc' = place /\ late' = 0

\* writeHealth: the file is replaced as a whole, under healthMu.
Mark(s) == /\ mem' = s
           /\ \/ file' = s
              \/ "disk" \in faults /\ file' = file

-----------------------------------------------------------------------------
(* main and loadOrEnroll.                                                  *)

Start == /\ pc = "off"
         /\ GoTo("load")
         /\ UNCHANGED <<faults, ids, world, push, marks, past>>

\* Whatever is in the file is the id.
LoadId == /\ pc = "load" /\ idFile # "none"
          /\ id' = idFile
          /\ GoTo("sleep")
          /\ UNCHANGED <<faults, idFile, world, push, marks, past>>

\* With an enrollment token the host is approved at once.
Recorded == /\ host' \in IF host = "unknown" THEN {"pending", "connected"} ELSE {host}
            /\ UNCHANGED <<reach, docker>>

Enroll == /\ pc = "load" /\ idFile = "none" /\ reach
          /\ Recorded
          /\ id' = "good"
          /\ GoTo("create")
          /\ UNCHANGED <<faults, idFile, push, marks, past>>

\* The request, its answer or the decoding fails; 10 s later it is tried again.
EnrollFails ==
  /\ pc = "load" /\ idFile = "none"
  /\ \/ ~reach
     \/ "errors" \in faults
  /\ Recorded \/ UNCHANGED world
  /\ GoTo("retry")
  /\ calm' = 0
  /\ UNCHANGED <<faults, ids, push, marks, cut>>

Retry == /\ pc = "retry"
         /\ GoTo("load")
         /\ UNCHANGED <<faults, ids, world, push, marks, past>>

\* os.WriteFile: it creates the file, then it fills it.
CreateIdFile == /\ pc = "create"
                /\ idFile' = "torn"
                /\ GoTo("fill")
                /\ UNCHANGED <<faults, id, world, push, marks, past>>

FillIdFile == /\ pc = "fill"
              /\ idFile' = id
              /\ GoTo("sleep")
              /\ UNCHANGED <<faults, id, world, push, marks, past>>

CacheFails == /\ "disk" \in faults /\ pc \in {"create", "fill"}
              /\ id' = "none"
              /\ GoTo("retry")
              /\ UNCHANGED <<faults, idFile, world, push, marks, past>>

-----------------------------------------------------------------------------
(* pollLoop and checkAndRunCommand.                                        *)

\* The controller knows the id it gave last.
Known == id = "good" /\ host # "unknown"

PollFails == /\ pc = "sleep"
             /\ ~reach \/ "errors" \in faults
             /\ GoTo("sleep")
             /\ calm' = 0
             /\ UNCHANGED <<faults, ids, world, push, marks, cut>>

\* 404: the file goes, and the host enrols again.
Gone == /\ pc = "sleep" /\ reach /\ ~Known
        /\ id' = "none"
        /\ GoTo("load")
        /\ UNCHANGED <<faults, world, push, marks, past>>

\* Mutant: the file is kept.
PollGoneKeepsFile == Gone /\ UNCHANGED idFile

PollGone == Gone /\ idFile' = "none"

\* An error of os.Remove is ignored.
RemoveFails == "disk" \in faults /\ Gone /\ UNCHANGED idFile

PollAnswered ==
  /\ pc = "sleep" /\ reach /\ Known
  /\ Mark(ControllerSeen(mem, host = "connected"))
  /\ GoTo(IF host = "connected" THEN "command" ELSE "sleep")
  /\ cut' = IF mem.connected = Never THEN 0 ELSE cut
  /\ UNCHANGED <<faults, ids, world, push, calm>>

\* Any other status with a JSON body decodes to an empty status.
PollError ==
  /\ "errors" \in faults
  /\ pc = "sleep" /\ reach
  /\ Mark(ControllerSeen(mem, FALSE))
  /\ GoTo("sleep")
  /\ UNCHANGED <<faults, ids, world, push, past>>

\* Each poll loop starts its tunnel once, and no tunnel ever ends: that one
\* runs is what matters here.
StartTunnel == tunnel' = (IF tunnel = "none" THEN "down" ELSE tunnel)

NoCommand == /\ pc = "command"
             /\ StartTunnel
             /\ GoTo("sleep")
             /\ UNCHANGED <<faults, ids, world, quiet, marks, past>>

BeginDeploy == /\ "deploy" \in faults /\ pc = "command"
               /\ GoTo("deploy")
               /\ UNCHANGED <<faults, ids, world, push, marks, past>>

EndDeploy == /\ pc = "deploy"
             /\ StartTunnel
             /\ GoTo("sleep")
             /\ UNCHANGED <<faults, ids, world, quiet, marks, past>>

Crash == /\ "crash" \in faults /\ pc # "off"
         /\ GoTo("off")
         /\ id' = "none" /\ mem' = Unknown
         /\ tunnel' = "none" /\ quiet' = 0
         /\ calm' = 0 /\ cut' = 0
         /\ UNCHANGED <<faults, idFile, world, file>>

-----------------------------------------------------------------------------
(* The tunnel (HostState), as far as it is seen in the health file.        *)

\* The first send follows at once.
Dial == /\ tunnel = "down" /\ reach /\ host = "connected"
        /\ tunnel' = "up" /\ quiet' = Resync
        /\ UNCHANGED <<faults, pc, late, ids, world, marks, past>>

Push == /\ tunnel = "up" /\ reach /\ docker
        /\ quiet' = 0
        /\ Mark(StatePushed(mem))
        /\ cut' = 0
        /\ UNCHANGED <<faults, pc, late, ids, world, tunnel, calm>>

\* Docker fails: nothing is sent, and nothing is tried before the resync.
NoPush == /\ tunnel = "up" /\ ~docker /\ quiet = Resync
          /\ quiet' = 0 /\ calm' = 0
          /\ UNCHANGED <<faults, pc, late, ids, world, tunnel, marks, cut>>

TunnelBreaks == /\ tunnel = "up" /\ ~reach
                /\ tunnel' = "down" /\ quiet' = 0
                /\ UNCHANGED <<faults, pc, late, ids, world, marks, past>>

-----------------------------------------------------------------------------
(* The controller, its network and docker.                                 *)

Approve == /\ host = "pending"
           /\ host' = "connected"
           /\ UNCHANGED <<faults, pc, late, ids, reach, docker, push, marks, past>>

Reject == /\ "reject" \in faults /\ host = "connected"
          /\ host' = "pending"
          /\ calm' = 0 /\ cut' = 0
          /\ UNCHANGED <<faults, pc, late, ids, reach, docker, push, marks>>

\* Its database is reset.
Forget == /\ "forget" \in faults /\ host # "unknown"
          /\ host' = "unknown"
          /\ idFile' = IF idFile = "good" THEN "old" ELSE idFile
          /\ id' = IF id = "good" THEN "old" ELSE id
          /\ calm' = 0 /\ cut' = 0
          /\ UNCHANGED <<faults, pc, late, reach, docker, push, marks>>

Outage == /\ "outage" \in faults
          /\ reach' = ~reach
          /\ UNCHANGED <<faults, pc, late, ids, host, docker, push, marks, past>>

DockerStops == /\ "docker" \in faults
               /\ docker' = ~docker
               /\ UNCHANGED <<faults, pc, late, ids, host, reach, push, marks, past>>

-----------------------------------------------------------------------------
(* Time.                                                                   *)

UpTo(n, limit) == IF n < limit THEN n ELSE limit

\* What keeps the agent from being healthy, or could.
Trouble == \/ ~reach \/ ~docker \/ pc = "off"
           \/ pc = "deploy" /\ late + 2 >= Fresh

\* Mutant: no resync ticker.
DueWithoutResync ==
  \/ pc \in {"load", "create", "fill", "command"}
  \/ pc \in {"sleep", "retry"} /\ late >= (IF calm < Hang THEN Hang ELSE 1)
  \/ tunnel = "down" /\ reach /\ host = "connected"
  \/ tunnel = "up" /\ ~reach

\* What happens before more time passes: a sleep and a request end, a tunnel is
\* dialled, breaks, or sends its resync.
Due == \/ pc \in {"load", "create", "fill", "command"}
       \/ pc \in {"sleep", "retry"} /\ late >= (IF calm < Hang THEN Hang ELSE 1)
       \/ tunnel = "down" /\ reach /\ host = "connected"
       \/ tunnel = "up" /\ (quiet = Resync \/ ~reach)

Tick == /\ ~Due
        /\ late' = UpTo(late + 1, Fresh)
        /\ quiet' = IF tunnel = "up" THEN quiet + 1 ELSE quiet
        /\ mem' = Aged(mem) /\ file' = Aged(file)
        /\ calm' = IF Trouble THEN 0 ELSE UpTo(calm + 1, Settle)
        /\ cut' = IF host = "connected" /\ pc # "off" THEN UpTo(cut + 1, Old) ELSE 0
        /\ UNCHANGED <<faults, pc, ids, world, tunnel>>

-----------------------------------------------------------------------------
Agent == \/ Start \/ LoadId \/ Enroll \/ EnrollFails \/ Retry
         \/ CreateIdFile \/ FillIdFile \/ CacheFails
         \/ PollFails \/ PollGone \/ RemoveFails \/ PollAnswered \/ PollError
         \/ NoCommand \/ BeginDeploy \/ EndDeploy
Tunnel == Dial \/ Push \/ NoPush \/ TunnelBreaks
World  == Approve \/ Reject \/ Forget \/ Outage \/ DockerStops

Next == Agent \/ Tunnel \/ World \/ Crash \/ Tick

Spec == Init /\ [][Next]_vars

\* The process is restarted (its container has a restart policy), it sleeps
\* for a bounded time, and a request ends with an answer or a timeout.
LiveSpec ==
  /\ Spec
  /\ WF_vars(Start) /\ WF_vars(LoadId) /\ WF_vars(Enroll \/ EnrollFails) /\ WF_vars(Retry)
  /\ WF_vars(CreateIdFile) /\ WF_vars(FillIdFile)
  /\ WF_vars(PollGone) /\ WF_vars(PollAnswered) /\ WF_vars(NoCommand) /\ WF_vars(EndDeploy)

-----------------------------------------------------------------------------
(* Properties.                                                             *)

TypeOK == /\ faults \in FaultModels
          /\ pc \in {"off", "load", "retry", "create", "fill", "sleep", "command", "deploy"}
          /\ late \in 0 .. (IF Fresh > Hang THEN Fresh ELSE Hang)
          /\ idFile \in {"none", "torn", "old", "good"}
          /\ id \in {"none", "torn", "old", "good"}
          /\ host \in {"unknown", "pending", "connected"}
          /\ {reach, docker} \subseteq BOOLEAN
          /\ tunnel \in {"none", "down", "up"}
          /\ quiet \in 0 .. Resync
          /\ mem \in HealthState /\ file \in HealthState
          /\ calm \in 0 .. Settle
          /\ cut \in 0 .. Old

\* "It reports healthy while the controller answers the agent and, once the
\* host is approved, its state keeps reaching the controller" (README.md): when
\* nothing got in the way for five ticks, the check says healthy, through
\* approvals, re-enrolments, restarts and deploys that take less than half a
\* minute.  A longer deploy keeps the poll loop from asking and counts as
\* trouble here; a health file that cannot be written is left out, as
\* writeHealth says.
HealthyWhenWorking == "disk" \notin faults /\ calm = Settle => Healthy(file)

\* "Docker or the tunnel": a host that is connected, and of which no state has
\* reached the controller for longer than the grace period, is never reported
\* healthy, whatever a file of an earlier process says and however often the
\* agent asks.  Left out are error answers, which decode to "not connected" and
\* start the grace period over.
UnhealthyWhenStuck == "errors" \notin faults /\ cut > Grace => ~Healthy(file)

\* The check changes its mind for a reason only: what turns it to unhealthy is
\* time that passes -- no answer of the controller, no approval, rejection,
\* push, restart or failed write does -- and what turns it to healthy is an
\* answer or a push ("just connected, the first push is on its way", "whatever
\* was pushed before", health.go).
TurnsForAReason ==
  [][/\ Healthy(file) /\ ~Healthy(file') => Tick
     /\ ~Healthy(file) /\ Healthy(file') => PollAnswered \/ PollError \/ Push]_vars

Failure == EnrollFails \/ CacheFails \/ PollFails \/ PollError \/ RemoveFails \/ Forget \/ Crash

\* Once the controller stays in reach and nothing fails any more, the agent ends
\* up with an id the controller knows, whatever a crash or a lost answer left
\* behind: no id file, a torn one, or one of before the controller's reset.
Reenrolls == <>[]reach /\ <>[][~Failure]_vars => <>[]Known
=============================================================================

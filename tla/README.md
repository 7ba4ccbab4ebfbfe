# Wharf agent: specifications

TLA+ models of `wharf-agent`, the program that runs on a Docker host, enrols
with a Wharf controller and then deploys compose stacks, reports the host's
state, rotates its own certificate and backs volumes up. The modules are
translated from the Go sources; TLC checks them on small instances, and TLAPS
proves the safety properties of every state machine, and two refinements, for
every value of their constants.

```
tlc -config MCRotation.cfg MCRotation     # any MC module and its .cfg files
tlapm RotationProofs.tla                  # the proofs, of each *Proofs module
```

`PROJECT.json` holds the machine-readable index: the runs, the mutants (one
plausible bug per checked property, which must break it), the source lines of
every definition, the hazards, the findings and the theorems.

## 1. Inventory

| component | source | state | operations | modelled by |
|---|---|---|---|---|
| identity and rotation | `internal/identity/identity.go`, `rotate.go` | four PEM files, the certificate in memory, the time of the last attempt | LoadOrGenerate, PrepareNext, announce, CommitNext, finishInterrupted | `Credential`, `Rotation`, `RotationProofs` |
| enrolment and poll loop | `main.go` | `host_id`, the status, `tunnelStarted` | enrol, status check, 404, next command | `PollLoop`; parts in `Rotation`, `BackupHost` |
| deploys | `main.go`, `secretrefs.go` | one directory per stack, the stack's containers | up (local, Git), down, result | `Deploy`, `DeployProofs` |
| backup run | `backup_run.go` | stopped containers, the report, the repository | stop, copy, read back, restart, retention | `BackupRun`, `BackupRunProofs` |
| backup sessions | `backup.go`, `backup_run.go` | the gate, share volumes, helper containers, the reporter | accept, create share, run helper, close, report, reap | `RunQueue`, `BackupHost`, `BackupHostProofs` |
| restore | `backup_run.go` | the new volume | checks, create, restic restore, remove | `Restore`, `RestoreProofs` |
| host-state tunnel | `tunnel.go` | connection, timers, write lock, events channel | connect, snapshot, debounce, resync, commands | `HostState`, `HostStateProofs` |
| health | `health.go` | three moments and their file | marks, check | `Health`, `PollLoop`, `PollLoopProofs` |
| what docker and restic print | `tunnel.go`, `volume_labels.go`, `backup.go` | none | pure functions | `DockerOutput`, `ResticOutput` |
| live stats | `stats.go` | none | engine, fallback, conversions | `Stats` |
| pinned TLS client, update script, image | | none of their own | | not planned beyond their callers |

How the parts interact. `main` loads the identity, then alternates between
enrolling and `pollLoop`. Every ten seconds the poll loop asks for the host's
status; when it is "connected" it runs, in line and in this order,
`maybeRotate`, then one pending deploy command, and on the first such tick it
starts the tunnel goroutine. The tunnel first reaps what a crashed process left
of backups, then connects, sends snapshots and serves commands, each in a
goroutine of its own. A backup command starts one more goroutine, which waits
for the gate, works for up to twelve hours and reports over HTTP, whatever
became of the tunnel. All HTTP goes through one client that asks
`getClientCert` for the current certificate at every handshake.

What is hard here: a crash between two file operations; an answer that is lost
after its request took effect; calls to docker that fail half-way or after
taking effect; goroutines of an earlier poll loop that survive it; and state on
the host (files, containers, volumes) that outlives the process which knows why
it is there. The list of hazards, each at its line, is in `PROJECT.json`.

What makes each component correct:

- *rotation*: the agent can always authenticate, after any crash; it never
  installs a key the controller has not acknowledged; it does rotate.
- *deploys*: a deployment reported as successful is exactly the one asked for,
  whatever came before; no plaintext is left behind; an undeploy that says it
  succeeded has undeployed.
- *backup run*: containers come back, and before retention; the last readable
  snapshot is never removed; a report of success is true.
- *sessions*: one run at a time, each ends; the reaper touches the dead only;
  the share's password does not outlive the session.
- *restore*: only volumes that were not there are written or removed; a success
  is the whole of the snapshot asked for, a failure leaves no part of one.
- *tunnel*: every change reaches the controller, at the latest with a resync; no
  state shows a container without its volumes; commands are answered.
- *enrolment, health*: the agent ends up with an id that the controller knows;
  working means healthy, stuck means unhealthy, and the check turns for a reason
  only.

## 2. The modules

### Credential and Rotation

`Credential` is what rotation promises, in terms of two things only: the
identity `held` a (re)started agent would authenticate with and the set
`accepted` by the controller. Its steps: adopt a first identity, register it,
offer another, switch to one that is accepted, drop the rest on first use,
forget the host.

`Rotation` is the code. A key pair (certificate and key) is one element of
`Pairs`; `disk` maps each of the four files to the pair it belongs to, to
`Absent`, or to `Torn` (`os.WriteFile` truncates before it writes, so a crash
or an error in between leaves an unparsable file). `pc` walks through the main
goroutine: `LoadOrGenerate` (with `finishInterrupted`), the two writes of
`generate`, `Poll` (status check and the guards of `maybeRotate`),
`PrepareNext`, the three outcomes of the announcement (acknowledged, recorded
but the answer lost, refused or undelivered), the two renames of `CommitNext`.
`mem` is `currentCert`, `backoff` the ten-minute throttle, `aged` the
certificates past `--rotate-after`; any certificate may become old at any time.
`Crash` is possible everywhere. The controller is external: `ctl` is the
registered pair and the announced one, and using the announced one drops the
other (`AfterUse`), be it by the poll loop or by another goroutine
(`OtherRequest`).

`FaultModels`, here and in the other modules, is a set of sets of faults; a
behaviour fixes one of them at the start (`faults`), so that one run covers
several assumptions and a property can say under which of them it holds. In
`Rotation` the faults are "write" (`os.WriteFile` fails), "forget" (the
controller loses its record) and "rename" (`os.Rename` fails). The combination
of "rename" and "forget" is covered for `TypeOK` and `AckBeforeInstall` by the
proofs only; `RestartAccepted` is not claimed for it.

### Deploy

One stack of either kind. The poll loop runs one command at a time, so stacks
do not interfere and one is enough. A deployment determines the services of its
compose file, the keys of its environment and the keys its compose file reads
from files; every value on disk or baked into a container is represented by the
deployment it came with, so "stale" is visible. `dir` is the stack's directory
(compose file, `.env`, `secrets/`), `up` the containers, each with the compose
file, environment and secret files it was created from. The actions are the
steps of `runGitDeploy`, `runLocalDeploy` and `runComposeDown` in their order,
each with its early return; a `docker compose` that fails has done any part of
its work, a `RemoveAll` that fails has removed any part of the tree. `Crash`
ends the command with no result.

Abstractions: a single file write is atomic here (an error leaves the old
content); `docker login` and `pull` never change the outcome of a deploy and are
not steps; the syntax of compose and `.env` files is reduced to sets of keys;
secrets
lie in the one directory of the stack, where those of a compose file in a
subdirectory of its repository are not looked for; a Git undeploy names the
compose file that was deployed (`runComposeDown` takes the path of the command,
and with another one finds nothing to tear down). The controller's part is
`pending` and `latest`: a local stack's undeploy may carry the compose content
of the last deployment issued, or none.

### BackupRun

`backupExecutor.backup`, run after run on one repository: `cat config`, the
stopping of users volume by volume (`stopUsers`), per volume the existence
check, `restic backup` and the read-back (`backupVolume`), the restart in
reverse order, retention per volume (dry run, refusal of an empty plan, forget
and prune), the overall status with the deferred restart-failure rule, the
report. Every call may fail at any time; a copy may leave a snapshot although
the call failed, a forget may have removed snapshots although it failed, and any
new snapshot may turn out to be unreadable. `Expire` is the 12 h context: from
then on every call that takes it fails, while `docker start` does not take it.
`owed`, `before` and `verified` are history variables: containers a run stopped
without having tried to start them, those of them that an earlier run left (it
was broken off by a crash), snapshots that were read back once. The agent
accepts a request that names a volume twice, and `Request` may be any such
sequence; `GoodSurvives` and `SuccessIsTrue` speak of those that do not
(`Distinct`, see section 5).

### RunQueue and BackupHost

`RunQueue` is what the gate and the report promise, in terms of runs that wait,
the one that works, those the controller was told of and those that are over:
nobody hears of a run that does not have its turn, and a crash ends what waits
and what works for good. `BackupHost` implements it (`QueueSpec`): the gate, the
report's attempts and the state of each session become these four.

Sessions (backups and restores are `Runs`; test, init and list are `Quicks`)
against the goroutines around them: acceptance over a connected tunnel, the
gate, the share volume (created, used by helpers, removed by `Close`), the
attempts of `reportRun`, and per tunnel the four docker calls of
`reapBackupLeftovers`. `Reenroll` is the 404 that makes the poll loop start
over with a second tunnel. `Crash` kills every goroutine and leaves docker's
objects; a helper goes on by itself (`OrphanEnds`). What a run does with its
helpers is `BackupRun`; the two modules meet in the gate: `BackupRun` takes runs
one after the other, which `OneRunAtATime` justifies.

### Restore

`backupExecutor.restore`, one restore after the other, as the gate makes them:
the name is looked for (`VolumeExists`), the snapshot is checked against the
host and the volume (`CheckSnapshot`), the volume created, restic writes into it
part by part, and on a failure the volume is removed. The rest of the world can
create, fill and remove volumes at any time (`User`), snapshots can go
(`Forget`), the 12 h limit can strike, the process can die. Four facts of docker
decide the properties and are modelled as such: `volume create` succeeds on a
volume that exists, it can take effect although the client was killed by the
limit or lost its answer ("create"), `run` creates a volume that is missing, and
a volume in use is not removed. A restore whose `volume create` failed ends
"uncreated", which the code reports as any other error. `free` is a history
variable: the names without a volume when the restore asked docker for its own.
A helper that runs on after a crash writes what it could have written before it,
so it is the same as a later crash.

### HostState

One tunnel and the host it reports on. `loop` is where `runHostStateTunnel` and
`tunnelOnce` are; `send` is four listings in their order (`Listing`), the lock
and the write; the reader, docker events and each command are concurrent
actions. `conn` "broken" is a connection that is dead and not known to be so:
writes into it succeed and are lost, until the reader or a write fails. The one
signal that `changed` buffers, the debounce timer and the ticker are the three
ways back into `send`. Docker keeps a
volume while a container mounts it, running or stopped (`Goes`), which is what
makes a snapshot of four listings consistent enough: `NoDangling` depends on
containers being listed first. It says nothing of networks and images, which
docker lets go although a stopped container names them (the agent's own
`network_remove` can do it); they come and go freely. Containers are no images,
volumes or networks, and what they mount is volumes (`HostStateAssumption`). A
reply, like a state, waits for room in the connection.
`missed` and the `gone` part of a state are history: what the code cannot know
before the next resync, and which containers went while a state was gathered.
The state of an earlier connection does not arrive after that connection was
given up (there are five seconds in between).

### Health and PollLoop

`Health` has the operators of health.go over ages instead of moments: a tick is
15 s, of which every limit is a multiple, and an age stops past the largest.
`PollLoop` is main's loop around it: id file (`CreateIdFile` and `FillIdFile`
are the two halves of `os.WriteFile`), enrolment, the three kinds of answer to
the status check, the command that runs in line, the tunnel as far as it marks
the health file, and the controller, the network and docker. `Tick` waits for
everything that the code does at once or within a tick (`Due`); while the
controller is out of reach, or was until a moment ago, a request may take `Hang`
ticks (10 s of sleep and 30 s of timeout). A torn id is taken to be one that the
controller does not know. `PollLoopAssumption` is what the limits must satisfy
for the properties to hold: a sleep with its timeout fits in the freshness, and
the calm time `Settle` is longer than that, than the freshness and than a
resync; the code's limits do. `TurnsForAReason` is about the marks: an answer or
a push never makes a healthy check unhealthy, and only they make it healthy. It
is not obvious of an approval after a rejection, of a push that arrives while
the file could not be written, or of the file that a dead process left.
Wall-clock changes, and the time of requests that a
slow controller does answer, are not modelled.

### DockerOutput, ResticOutput, Stats

The pure parts, as operators: how labels, images and image ids are read from
docker's listings; how restic's output passes the filter and the bounded buffer
and is read, what exit codes are called, how credentials get into the mount
options; how the answers of the docker engine become stats. `MCOperators` has
the reference definitions and compares over all small inputs, in assumptions
that TLC evaluates when `MCRestore`, which extends it, is run. A word the code
looks for is one character, a digest is a number; the text formats themselves
(JSON, sizes, regular expressions) are not modelled.

## 3. The runs

| run | module, cfg | instance | what it shows |
|---|---|---|---|
| `rotation` | MCRotation | 4 pairs, "forget" and "write", "rename" and "write" | no lock-out, acknowledged keys only, certificate in memory and after restart accepted, refinement of `Credential`, rotation completes |
| `rotation_lockout` | MCRotation, Lockout | "rename" | *violation* of `NeverLockedOut` |
| `rotation_first_start` | MCRotation, FirstStart | none | *violation* of `StartsAlways` |
| `deploy` | MCDeploy | 3 deployments, 2 services, 2 keys, both kinds | deployed is current, nothing stale, containers from complete files, clean undeploy |
| `deploy_down` | MCDeploy, Down | the same, Git | *violation* of `DownTearsDown` |
| `backup_run` | MCBackupRun | 2 volumes, 2 containers, 2 runs, policies none/0/1 | quiescence, restart, retention, truth of reports |
| `backup_run_stop` | MCBackupRun, Stop | "stopLate" | *violation* of `StartedWhatever` |
| `backup_host` | MCBackupHost | 2 runs, 1 quick action, 2 tunnels, 2 attempts | exclusion, reaper, clean-up, refinement of `RunQueue`, termination |
| `backup_host_reaper` | MCBackupHost, Reaper | "reenroll" | *violation* of `ReaperSparesAlways` |
| `restore` | MCRestore | 3 names, 3 snapshots of 2 parts | only new volumes, whole successes, nothing half restored; and the operators of `MCOperators` |
| `host_state` | MCHostState | a container, its volume, 1 command | consistent states, a tunnel at rest is up to date, convergence, answers |
| `poll_loop` | MCPollLoop | the limits of the code in ticks of 15 s | healthy when working, unhealthy when stuck, turns of the check, re-enrolment |

Bounds, and why they are enough. *Pairs = 4*: the files, the memory and the
controller's record can name at most four identities that a fresh one must
differ from in the reachable states (current, prepared, announced, new); with
four, generation is never blocked in the checked runs (the liveness property
would fail). *Deploy*: three deployments that pairwise differ in services,
environment and file keys, one of them without secrets, make every kind of
leftover possible; undeploys are unlimited. *BackupRun*: two volumes with one
container that uses both and one that uses one, so that the "already seen" rule,
partial stopping and per-volume errors occur; two runs give retention something
to remove; policies that keep nothing, one snapshot, or have no flags
(`NoRetention`). *BackupHost*: two runs contend for the gate, a quick action
goes around it; two tunnels is what one re-enrolment makes; crashes come with
lost answers and probes that are cut, so that `LeftoversGo` covers what a living
process leaves as well as what a dying one does; two attempts stand for the
twelve of `reportRun`. Sessions happen once each, so runs end: `CHECK_DEADLOCK
FALSE` in the backup configurations is for that only. In `Rotation` and `Deploy`
deadlock is checked (`Fatal` is the restart loop of an agent that cannot start),
as it is in the three runs below. *Restore*: two volumes in use and a free name,
a snapshot of each and one that another host made of a volume of the same name;
two parts make a half-way failure possible, and restores are unlimited.
*HostState*: one container and the volume it mounts is what a dangling reference
takes, and the buffer of one state makes writes wait; one command contends with
`send` for the lock. *PollLoop*: `Fresh`, `Resync` and `Grace` are the 60, 45
and 150 s of the code; five ticks of calm (`Settle`) are the time for a request
to end, a status check, a tunnel and its first state. The faults come in groups
of two or three, to keep the state space small: crashes and rejections occur
once with outages and no failing disk or error answers, so that neither
exemption of a property hides them.

Fairness. `Rotation!Fairness`: the process restarts (Docker's restart policy),
takes its next step, gets an answer from a controller (also one that no longer
knows it), and its timers elapse; nothing is assumed of crashes, failed writes,
lost or refused announcements, which the property requires to stop eventually.
`BackupRun!LiveSpec`: the next call returns, since each is bounded by the
context, or is a local docker call. `BackupHost!LiveSpec`: the process restarts,
the tunnel starts, docker calls return, a session runs finitely many helpers
(strong fairness of its last one) and a goroutine waiting for the gate gets it
when it is free again and again (a Go channel queues its senders).
`HostState!LiveSpec`: docker and the network answer, the goroutines run, the
select loop does not ignore a ticker or a closed connection that stays ready, and
the mutex, which in Go starves nobody, is got by each of its waiters (strong
fairness of these); nothing is assumed of the debounce timer, since events can
start it over for ever. `PollLoop!LiveSpec`: the process restarts, sleeps and
requests end; nothing is assumed of crashes, outages or failures, which
`Reenrolls` requires to stop.

## 4. What is proved

Each state machine has a module of proofs. All theorems are for every value of
the constants that satisfies the module's assumptions (`DeployAssumption`,
`BackupAssumption`, ...), which say what kind of value each constant is and, for
`PollLoop` and `Health`, how the limits compare; TLC evaluates them for the
instance of every run. Sets of things (pairs, deployments, volumes, runs, names)
may be infinite. `FaultModels` is any set of sets of faults, so a theorem covers
all combinations, also those that no run has room for.

In each module the argument is the same: the properties are not inductive by
themselves, because what the next step does depends on where a goroutine is and
on what it did before. `IInv` adds what is known at each `pc`; one lemma per
group of actions shows that a step preserves it, one per action where it is
long; `InvariantHolds` is `Spec => []IInv`, and each theorem follows from it.
Every `IInv` was an invariant of TLC runs before it was proved.

### RotationProofs

- `TypeCorrect`: the type invariant, under every fault;
- `AckBeforeInstallHolds`: the action property, under every fault, renames that
  fail included; its invariant `AckInv` is a small one of its own (an
  acknowledgement stands between `announce` and `commitKey`);
- `NoCrashLocksOutHolds`, and `RestartAcceptedHolds` and
  `RunningCertAcceptedHolds` for behaviours with `Promised`, that is, in which
  renames succeed;
- `RefinesCredential`: `Spec => CredentialSpec`, where the mapping is to an empty
  credential if renames can fail.

What a crash may leave depends on where the process was. `IInv` is `TypeOK` and
three parts: `FilesInv` (which mixtures of the four files are possible at rest:
the current pair loads, or the key is one ahead and the prepared certificate
matches it), `ControlInv` (what the files hold at each `pc`, so that a crash
there lands in `FilesInv`) and `ControllerInv` (whatever the files would boot
into, and the certificate in memory, is accepted as long as the host is
enrolled, and an installed key has been acknowledged). The refinement uses
`IInv` and `IInv'` to compute `BootIdentity` before and after a step. `SafeInv`
is `Promised => IInv`, and `FaultsFixed` that `Promised` never changes.
`rotation_lockout` shows that the assumption on renames is needed for
`NeverLockedOut`.

### DeployProofs

`TypeCorrect`, `DeployedIsCurrentHolds`, `NothingStaleOnDiskHolds`,
`CleanDownHolds` and the action property `CreatedFromCompleteHolds`. `FilesInv`
says what the directory holds before each call of a deployment: the invariants
speak of the end of a deployment, when it is too late to know which of the files
it wrote itself. `CommandInv` ties the command being run to what was last
issued. `LatestInv` is what `CleanDown` needs: from a success until the next
deployment begins, only services of that deployment run and its compose file is
there to take them down, whatever undeploys fail half-way in between.

### BackupRunProofs

`TypeCorrect`, `QuiescedCopyHolds`, `StartedAgainHolds`,
`BackBeforeRetentionHolds`, `GoodSurvivesHolds` and `SuccessIsTrueHolds`, for
any list of volumes and any containers that share them. `PhaseInv` relates the
report to the place in the run (a volume's result stays "none" until its copy,
nothing is stopped any more after the restart, a success has no failed start).
`StopInv`: the containers seen so far are down, volume by volume, and no later
volume starts them again. `OwedInv`: a container that is owed a start is on the
list that `start` goes through, or an earlier run that was broken off left it.
`RepoInv`: a result that is no error is a snapshot that was read back and is the
newest of its volume, so every policy that keeps anything keeps it. Facts about
sequences (`stopped` in reverse, its elements) are lemmas of their own, from
`SequenceTheorems`.

### RestoreProofs

`TypeCorrect`, `SuccessIsWholeHolds`, `NothingHalfRestoredHolds` and the action
property `OnlyNewVolumesHolds`. `FreeInv`: a restore gets to docker only with a
name that it found free, unless docker's answer was wrong; an expired context
can take it past the look for the volume, but not past the next call.
`SnapshotInv`: what it creates a volume for has been checked against the host
and the volume. `ContentInv`: while nobody else is at work the new volume holds
parts of that snapshot only. `NothingElseInv`: there is no other volume among
the free names, so the one that is removed on a failure is all that the restore
made. What a failing creation made is not removed: the theorem says that it is
empty and bears the restore's own name.

### BackupHostProofs

`TypeCorrect`, `OneRunAtATimeHolds`, `RemovedAtEndHolds`, the action property
`ReaperSparesLiveHolds` and the refinement `RefinesQueue` (`Spec => QueueSpec`).
`GateInv`: the gate is held by the run that works and by nobody else, through
reports and crashes, and a report has attempts left. `HelperInv` and `CleanInv`:
without the faults that leave something behind, helpers and share volumes belong
to sessions at work or to dead ones. `LoneInv`: without a second enrolment a
process has one tunnel, and no session until that one is connected; since the
tunnel reaps before it connects, everything it finds is dead. The refinement has
lemmas of its own (`AcceptRefines`, `ReportRefines`, `CrashRefines`): an
accepted run is submitted, entering the gate is its turn, an attempt that is
recorded tells the controller, releasing the gate ends the turn, and a crash is
the death of all that waits or works; all other steps stutter.

### HostStateProofs

`TypeCorrect`, `NoDanglingHolds` and `CurrentWhenQuietHolds`, for any
things, mounts, commands and buffer. `HostInv`: docker keeps the volumes a
container mounts. `WholeInv`: a state being gathered has them as far as volumes
have been listed, for
each container that has not gone since, and so are those being written, under
way, or in the controller's copy. `CurrentInv`: unless a signal, a debounce or
an unread event is pending, what was listed so far is what is on the host; it
has to speak of each of the four listings, because a change in between leaves a
signal that `send` must not swallow.

### PollLoopProofs

`TypeCorrect`, `HealthyWhenWorkingHolds`, `UnhealthyWhenStuckHolds` and the
action property `TurnsForAReasonHolds`, for any limits that satisfy the
assumptions. Time makes these the longest arguments:

- `StuckInv`: neither the file nor the record in memory has a moment newer than
  the time the controller has been cut off for (`NoNewer`), also when the file is
  that of an earlier process.
- `TimeInv`: how long the loop stays in each place.
- `WorkingInv`, if the disk does not fail: a trouble is recent, or each thing
  the loop has to do happened recently. `IdInv` bounds how long the agent has an
  id that the controller does not know, `SeenInv` the age of the last answer at
  each place, through a re-enrolment, `BehindInv` how long the agent takes to
  hear of a rejection, and `NewsInv` the age of the last state, or of the
  connection if none was sent.
- `AheadInv`: memory is ahead of the file even if writes have failed, moment by
  moment, and a push that memory forgot was followed by a connection that the
  file does not know. It has to be that exact: a record in memory that is newer
  in one moment and older in another could turn the check when it is written.

### Checked by TLC only

Liveness (`RotationCompletes`, `ContainersComeBack`, `LeftoversGo`, `RunsEnd`,
`Converges`, `CommandAnswered`, `Reenrolls`) is outside the fragment of the
prover used here, since it needs fairness and ENABLED. The operators of
`MCOperators` are compared with their references over bounded inputs: what a
recursive definition computes for every input would take an induction that the
installed provers cannot do. Everything else that a passing run checks has a
theorem.

## 5. Where code and documentation disagree

Shown by the violation runs:

1. `rotation_lockout`: a failed second rename, a later attempt that generates
   over the prepared pair, then a crash: no start can load an identity.
2. `rotation_first_start`: a crash between the two writes of the very first
   generation is fatal at every later start.
3. `deploy_down`: a Git deployment wipes the directory before it clones; if the
   clone fails, an undeploy finds no compose file and says it succeeded while the
   old containers run.
4. `backup_run_stop`: a `docker stop` that fails after stopping the container
   leaves it down.
5. `backup_host_reaper`: after a re-enrolment a second tunnel reaps the helpers
   and shares of runs at work.

Met while proving, without a run of its own: `validateRequest`
(`backup.go:143-161`) accepts a request that names a volume twice. Both copies
get the same retention tag, and with a policy that keeps one snapshot the first
volume's retention can keep the second copy only, or remove the snapshot that
the report names; if the second copy turned out to be unreadable, retention
removes the readable one in its favour, against the comment at
`backup_run.go:172`, "The snapshot has to be readable before this counts as a
success, and before retention may remove an older one in its place". With
`Request` set to `<<v1, v1>>`, TLC finds `ReadableStays` violated; the attempt to
prove it without `Distinct` fails at the same place.

Met while modelling, visible in the models, without a run of their own: a
deployment that fails in `writeSecretFiles` leaves `.env` in place; a failed
redeployment removes secret files that running containers mount; a crash in a
backup run leaves the stopped containers down; a failed prune is reported as
"retention was not applied" although snapshots were removed; a probe that
outlives its context, or a lost answer to the creation of the share, keeps the
volume with the password until the next start (`LeftoversGo` shows that it goes
then). A `docker volume create` of a restore that the 12 h limit cuts, or whose
answer is lost, can leave an empty volume: `restore` returns without removing it
(`backup_run.go:280-283`), and the next restore under that name is refused.
`volumeExists` answers "no" when docker fails, so that a restore can write into,
and after a failure remove, a volume in use, and one that somebody creates
between the look and the creation is treated the same, although it says "restore
into a new name" (`"inspect"` in `OnlyNewVolumes`). A deploy that takes over a
minute makes the health check say that the controller has not answered; an error
answer with a JSON body counts as an answered check, shows the host as not
connected and starts the grace period over (`"errors"` in `UnhealthyWhenStuck`),
and a rejection that is taken back between two polls is not noticed.
`markStatePushed` "records a host state the controller received" when the write
returns, which over a half-dead connection says nothing about the controller.
When the docker commands of the first snapshot fail, a connected tunnel has sent
no state for the 45 s until the resync. A backup whose output leaves no room for
the summary, and a retention plan of more than a megabyte, read as no summary
and no plan.

Not listed as hazards, since nothing in the models depends on them: a new
certificate's age starts an hour before it exists, so that `--rotate-after`
under an hour rotates again and again; keep-last goes by the snapshots' clock;
the result of a deploy is posted once; a command delivered twice runs twice; a
compose file in a subdirectory of its repository has its secrets beside it.

## 6. Plan

Modelled as planned: the state machines of section 2 and the pure operators.
Proved as planned: the safety properties of all of them. What is left:

1. Stronger statements: an abstract specification for the tunnel (the
   controller's copy only takes states the host was in, piece by piece) with
   `HostState` as its refinement; an action property for retention (a snapshot
   is removed only after a newer one was read back in the same run); each command
   answered at most once.
2. Connections that outlive a rotation, which need the transport's pool of idle
   connections next to `Rotation`.
3. Per-file faults in `Deploy` (a single write is atomic there).

Not modelled, and why: the TLS pinning callback has no state of its own and is a
comparison; the on-demand commands are one docker command each, of which only
the ordering, the lock and the reply can go wrong (`HostState`); formats and
patterns (JSON, sizes, names) are a matter of tests; `update-agent.sh` is a
straight-line script, whose window without an agent (between its `docker rm` and
its `docker run`) is for whoever runs it to watch; the image build is packaging.

------------------------------- MODULE Deploy -------------------------------
(***************************************************************************)
(* Deploying and undeploying one stack (main.go: checkAndRunCommand,       *)
(* runLocalDeploy, runGitDeploy, runComposeDown and what they call).       *)
(*                                                                         *)
(* The poll loop runs one command at a time, so stacks do not interfere    *)
(* and one is enough.  A deployment fixes the services of its compose      *)
(* file, the keys of its environment and the keys its compose file mounts  *)
(* as files; a value is represented by the deployment it came with.        *)
(* Docker, Git and the controller are external: each call may fail.        *)
(***************************************************************************)
EXTENDS Integers, FiniteSets

CONSTANTS
  Deployments,   \* "up" commands the controller may issue, each once
  Services,      \* names of services in any of the compose files
  Keys,          \* secret keys
  None,
  SourceTypes,   \* kinds of stack considered: "local", "git"
  Svcs,          \* Svcs[d]: the services of d's compose file
  Env,           \* Env[d]: the keys of d's environment
  FileKeys       \* FileKeys[d]: the keys d's compose file reads from files

ASSUME DeployAssumption ==
  /\ None \notin Deployments
  /\ SourceTypes \subseteq {"local", "git"}
  /\ Svcs \in [Deployments -> SUBSET Services]
  /\ Env \in [Deployments -> SUBSET Keys]
  /\ FileKeys \in [Deployments -> SUBSET Keys]

VARIABLES
  kind,      \* which kind of stack this is (source_type), for good
  dir,       \* the stack's directory: compose file, .env, secrets/<KEY>
  up,        \* the container of each service, or None
  pc,        \* what the command being run does next
  cmd,       \* the command: [action, dep]
  pending,   \* deployments not issued yet
  latest,    \* the last deployment issued (whose compose content the controller
             \* holds), and whether it succeeded
  last       \* the last command that ended: [action, dep, status, warned]

vars == <<kind, dir, up, pc, cmd, pending, latest, last>>

-----------------------------------------------------------------------------
Dep        == Deployments \cup {None}
NoSecrets  == [k \in Keys |-> None]
EmptyDir   == [compose |-> None, env |-> None, secrets |-> NoSecrets]
Containers == [dep : Deployments, env : Dep, secrets : [Keys -> Dep]]
Statuses   == {"succeeded", "failed"}
NoResult   == [action |-> "none", dep |-> None, status |-> "failed", warned |-> FALSE]

\* writeSecretFiles: the keys both configured and read from a file.
Written(d) == Env[d] \cap FileKeys[d]

\* What .env and secrets/ hold for a finished deployment d.
EnvOf(d)     == IF Env[d] = {} THEN None ELSE d
SecretsOf(d) == [k \in Keys |-> IF k \in Written(d) THEN d ELSE None]

\* secrets/ after the files of some keys were removed.
Without(gone) == [k \in Keys |-> IF k \in gone THEN None ELSE dir.secrets[k]]

\* The container docker compose creates for deployment d right now.
Created(d) == [dep |-> d, env |-> dir.env, secrets |-> dir.secrets]

Init == /\ kind \in SourceTypes
        /\ dir = EmptyDir
        /\ up = [s \in Services |-> None]
        /\ pc = "idle"
        /\ cmd = [action |-> "none", dep |-> None]
        /\ pending = Deployments
        /\ latest = [dep |-> None, ok |-> FALSE]
        /\ last = NoResult

d0 == cmd.dep

\* The command ends: its result is posted once, without a retry.
Finish(status, warned) ==
  /\ last' = [action |-> cmd.action, dep |-> d0, status |-> status, warned |-> warned]
  /\ pc' = "idle"
  /\ cmd' = [action |-> "none", dep |-> None]

\* Mutant: a status the controller does not know.
FailAsError == Finish("error", FALSE)

Fail == Finish("failed", FALSE)
Go(next) == pc' = next /\ UNCHANGED <<cmd, last>>

-----------------------------------------------------------------------------
(* checkAndRunCommand: one pending command.                                *)

ReceiveUp(d) == /\ pc = "idle"
                /\ d \in pending
                /\ pending' = pending \ {d}
                /\ latest' = [dep |-> d, ok |-> FALSE]
                /\ cmd' = [action |-> "up", dep |-> d]
                /\ last' = NoResult
                /\ pc' = IF kind = "git" THEN "wipe" ELSE "compose"
                /\ UNCHANGED <<kind, dir, up>>

ReceiveDown == /\ pc = "idle"
               /\ cmd' = [action |-> "down", dep |-> None]
               /\ last' = NoResult
               /\ pc' = "rewrite"
               /\ UNCHANGED <<kind, dir, up, pending, latest>>

-----------------------------------------------------------------------------
(* runGitDeploy up to the secrets; runLocalDeploy's compose file.          *)

\* os.RemoveAll of the stack's directory; one that fails may have removed
\* any part of it.
WipeClone ==
  /\ pc = "wipe"
  /\ \/ dir' = EmptyDir /\ Go("clone")
     \/ /\ dir' \in [compose : {dir.compose, None}, env : {dir.env, None},
                    secrets : {Without(gone) : gone \in SUBSET Keys}]
        /\ Fail
  /\ UNCHANGED <<kind, up, pending, latest>>

\* git clone and the reading of the compose file; a failed clone leaves
\* no directory behind.
Clone == /\ pc = "clone"
         /\ \/ dir' = [dir EXCEPT !.compose = d0] /\ Go("resolve")
            \/ UNCHANGED dir /\ Fail
         /\ UNCHANGED <<kind, up, pending, latest>>

\* secrets.refs.yaml or secrets.enc.yaml is relayed to the controller; a
\* repository with neither has no environment.
Resolve == /\ pc = "resolve"
           /\ \/ Go("env")
              \/ Env[d0] # {} /\ Fail
           /\ UNCHANGED <<kind, dir, up, pending, latest>>

WriteCompose == /\ pc = "compose"
                /\ \/ dir' = [dir EXCEPT !.compose = d0] /\ Go("env")
                   \/ UNCHANGED dir /\ Fail
                /\ UNCHANGED <<kind, up, pending, latest>>

-----------------------------------------------------------------------------
(* The files a deploy needs.                                               *)

\* Mutant: an empty environment leaves the previous .env alone.
WriteEnvKeepsStale ==
  /\ pc = "env"
  /\ \/ Go("clear") /\ dir' = IF Env[d0] = {} THEN dir ELSE [dir EXCEPT !.env = d0]
     \/ Fail /\ UNCHANGED dir
  /\ UNCHANGED <<kind, up, pending, latest>>

\* writeEnvFile: exactly this deployment's environment, or no file at all.
WriteEnv == /\ pc = "env"
            /\ \/ dir' = [dir EXCEPT !.env = EnvOf(d0)] /\ Go("clear")
               \/ UNCHANGED dir /\ Fail
            /\ UNCHANGED <<kind, up, pending, latest>>

\* Mutant: secrets/ is merged into, not rewritten.
ClearSecretsNot ==
  pc = "clear" /\ Go("secrets") /\ UNCHANGED <<kind, dir, up, pending, latest>>

\* writeSecretFiles wipes secrets/ first; a failed RemoveAll may have
\* removed some of the files.
ClearSecrets ==
  /\ pc = "clear"
  /\ \/ dir' = [dir EXCEPT !.secrets = NoSecrets] /\ Go("secrets")
     \/ /\ \E gone \in SUBSET Keys : dir' = [dir EXCEPT !.secrets = Without(gone)]
        /\ Fail
  /\ UNCHANGED <<kind, up, pending, latest>>

\* Mutant: a secret that cannot be written is skipped.
WriteSecretsBestEffort ==
  /\ pc = "secrets"
  /\ \E done \in SUBSET Written(d0) :
       dir' = [dir EXCEPT !.secrets = [k \in Keys |-> IF k \in done THEN d0 ELSE @[k]]]
  /\ Go("up")
  /\ UNCHANGED <<kind, up, pending, latest>>

\* ... then writes one file per key, in map order, stopping at the first
\* that fails (an error, or a key with a path separator).
WriteSecrets ==
  /\ pc = "secrets"
  /\ \E done \in SUBSET Written(d0) :
       /\ dir' = [dir EXCEPT !.secrets = [k \in Keys |-> IF k \in done THEN d0 ELSE @[k]]]
       /\ IF done = Written(d0) THEN Go("up") ELSE Fail
  /\ UNCHANGED <<kind, up, pending, latest>>

-----------------------------------------------------------------------------
(* runComposeUp, then removeEnvFile.                                       *)

\* Mutant: up without --remove-orphans.
ComposeUpKeepsOrphans ==
  /\ pc = "up"
  /\ up' = [s \in Services |-> IF s \in Svcs[d0] THEN Created(d0) ELSE up[s]]
  /\ Go("removeEnv")
  /\ UNCHANGED <<kind, dir, pending, latest>>

\* up -d --remove-orphans --force-recreate: every service is recreated and
\* every other container of the project goes; a failure stops half-way.
\* docker login and pull never fail the deploy.
ComposeUp ==
  /\ pc = "up"
  /\ \/ /\ up' = [s \in Services |-> IF s \in Svcs[d0] THEN Created(d0) ELSE None]
        /\ Go("removeEnv")
     \/ /\ \E part \in SUBSET Services :
             up' = [s \in Services |-> IF s \notin part THEN up[s]
                                       ELSE IF s \in Svcs[d0] THEN Created(d0) ELSE None]
        /\ Go("removeEnvFailed")
  /\ UNCHANGED <<kind, dir, pending, latest>>

\* Best effort: a .env that cannot be removed is only a warning.
RemoveEnv ==
  /\ pc \in {"removeEnv", "removeEnvFailed"}
  /\ LET status == IF pc = "removeEnv" THEN "succeeded" ELSE "failed"
     IN /\ latest' = [latest EXCEPT !.ok = (status = "succeeded")]
        /\ \/ dir' = [dir EXCEPT !.env = None] /\ Finish(status, FALSE)
           \/ dir.env # None /\ UNCHANGED dir /\ Finish(status, TRUE)
  /\ UNCHANGED <<kind, up, pending>>

-----------------------------------------------------------------------------
(* runComposeDown.                                                         *)

\* A local stack's compose file is written again from the command, which
\* need not carry it.
Rewrite ==
  /\ pc = "rewrite"
  /\ \/ Go("down") /\ UNCHANGED dir
     \/ /\ kind = "local" /\ latest.dep # None
        /\ \/ dir' = [dir EXCEPT !.compose = latest.dep] /\ Go("down")
           \/ UNCHANGED dir /\ Fail
  /\ UNCHANGED <<kind, up, pending, latest>>

\* Mutant: the exit status of docker compose down is not looked at.
ComposeDownIgnoresError ==
  /\ pc = "down"
  /\ \E part \in SUBSET Services :
        /\ up' = [s \in Services |-> IF s \in part THEN None ELSE up[s]]
        /\ Finish("succeeded", FALSE)
  /\ UNCHANGED <<kind, dir, pending, latest>>

\* docker compose down removes the services its file names (it is not given
\* --remove-orphans); without a file there is nothing to tear down.
ComposeDown ==
  /\ pc = "down"
  /\ \/ /\ dir.compose = None
        /\ UNCHANGED up
        /\ Finish("succeeded", FALSE)
     \/ /\ dir.compose # None
        /\ \/ /\ up' = [s \in Services |-> IF s \in Svcs[dir.compose] THEN None ELSE up[s]]
              /\ Finish("succeeded", FALSE)
           \/ /\ \E part \in SUBSET Svcs[dir.compose] :
                    up' = [s \in Services |-> IF s \in part THEN None ELSE up[s]]
              /\ Fail
  /\ UNCHANGED <<kind, dir, pending, latest>>

-----------------------------------------------------------------------------
\* The agent dies: files and containers stay, no result is ever posted.
Crash == /\ pc # "idle"
         /\ pc' = "idle"
         /\ cmd' = [action |-> "none", dep |-> None]
         /\ UNCHANGED <<kind, dir, up, pending, latest, last>>

Next == \/ \E d \in Deployments : ReceiveUp(d)
        \/ ReceiveDown
        \/ WipeClone \/ Clone \/ Resolve \/ WriteCompose
        \/ WriteEnv \/ ClearSecrets \/ WriteSecrets \/ ComposeUp \/ RemoveEnv
        \/ Rewrite \/ ComposeDown
        \/ Crash

Spec == Init /\ [][Next]_vars

-----------------------------------------------------------------------------
(* Properties.                                                             *)

TypeOK == /\ kind \in SourceTypes
          /\ dir \in [compose : Dep, env : Dep, secrets : [Keys -> Dep]]
          /\ up \in [Services -> Containers \cup {None}]
          /\ pc \in {"idle", "wipe", "clone", "resolve", "compose", "env", "clear",
                     "secrets", "up", "removeEnv", "removeEnvFailed", "rewrite", "down"}
          /\ cmd \in [action : {"none", "up", "down"}, dep : Dep]
          /\ pending \subseteq Deployments
          /\ latest \in [dep : Dep, ok : BOOLEAN]
          /\ last \in [action : {"none", "up", "down"}, dep : Dep,
                       status : Statuses, warned : BOOLEAN]

DeployedOK(d) == last.action = "up" /\ last.dep = d /\ last.status = "succeeded"

\* "Deploy now means the running containers match the current stack right
\* now, full stop" (runComposeUp): after a deployment reported as succeeded
\* every service runs with that deployment's compose file, environment and
\* secret files, and nothing older survives, whatever failed or crashed before.
DeployedIsCurrent ==
  \A d \in Deployments : DeployedOK(d) =>
    up = [s \in Services |-> IF s \in Svcs[d]
                             THEN [dep |-> d, env |-> EnvOf(d), secrets |-> SecretsOf(d)]
                             ELSE None]

\* No stale plaintext: after a deployment that succeeded, secrets/ holds
\* exactly the keys it reads from files and .env is gone, or its removal was
\* reported (writeEnvFile, writeSecretFiles, removeEnvFile).
NothingStaleOnDisk ==
  \A d \in Deployments : DeployedOK(d) =>
    dir.secrets = SecretsOf(d) /\ (dir.env = None \/ last.warned)

\* A container is created only from a complete set of files of one single
\* deployment: no failed or crashed step is skipped on the way to "up".
CreatedFromComplete ==
  [][\A s \in Services : up'[s] \notin {up[s], None} =>
        /\ dir.compose = d0
        /\ up'[s] = [dep |-> d0, env |-> EnvOf(d0), secrets |-> SecretsOf(d0)]]_vars

\* An undeploy that reports success leaves no container of the stack behind
\* when the last deployment succeeded, however many deployments, failures,
\* crashes and failed undeploys came before (and in between).
CleanDown ==
  last.action = "down" /\ last.status = "succeeded" /\ latest.ok
    => \A s \in Services : up[s] = None

\* "a revoked deploy key is a reason to undeploy, not a blocker to it"
\* (runComposeDown): an undeploy that succeeds leaves nothing running.
DownTearsDown ==
  last.action = "down" /\ last.status = "succeeded" => \A s \in Services : up[s] = None
=============================================================================

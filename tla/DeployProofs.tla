---------------------------- MODULE DeployProofs ----------------------------
(***************************************************************************)
(* Deploy is correct for any deployments, services and keys: a deployment  *)
(* that succeeds is exactly what runs, whatever failed, crashed or was left *)
(* behind before it, and an undeploy that follows it takes all of it down. *)
(***************************************************************************)
EXTENDS Deploy, TLAPS

\* The containers of a finished deployment d.
Deployed(d) == [s \in Services |-> IF s \in Svcs[d]
                                   THEN [dep |-> d, env |-> EnvOf(d), secrets |-> SecretsOf(d)]
                                   ELSE None]

\* What a deployment has made of the stack's directory, at each of its calls.
FilesInv ==
  /\ pc \in {"resolve", "env", "clear", "secrets", "up", "removeEnv"} => dir.compose = d0
  /\ pc \in {"clear", "secrets", "up"} => dir.env = EnvOf(d0)
  /\ pc = "secrets" => dir.secrets = NoSecrets
  /\ pc \in {"up", "removeEnv"} => dir.secrets = SecretsOf(d0)
  /\ pc = "removeEnv" => up = Deployed(d0)

\* The command being run, and what is known of those before it.
CommandInv ==
  /\ pc # "idle" => last = NoResult
  /\ pc \in {"rewrite", "down"} => cmd = [action |-> "down", dep |-> None]
  /\ pc \notin {"idle", "rewrite", "down"} =>
       d0 \in Deployments /\ cmd.action = "up" /\ latest.dep = d0 /\ ~latest.ok

\* Until the next deployment, only services of the one that succeeded run, and
\* its compose file is there to take them down.
LatestInv ==
  latest.ok => /\ latest.dep \in Deployments /\ dir.compose = latest.dep
               /\ \A s \in Services \ Svcs[latest.dep] : up[s] = None

IInv == /\ TypeOK /\ FilesInv /\ CommandInv /\ LatestInv
        /\ DeployedIsCurrent /\ NothingStaleOnDisk /\ CleanDown

-----------------------------------------------------------------------------
(* The operators.                                                          *)

\* What .env and secrets/ can hold.
LEMMA FilesType ==
  ASSUME TypeOK
  PROVE  /\ NoSecrets \in [Keys -> Dep]
         /\ \A gone \in SUBSET Keys : Without(gone) \in [Keys -> Dep]
         /\ \A d \in Deployments : EnvOf(d) \in Dep /\ SecretsOf(d) \in [Keys -> Dep]
  BY DEF TypeOK, NoSecrets, Without, Dep, EnvOf, SecretsOf

-----------------------------------------------------------------------------
(* The initial state, and one lemma per part of the program.               *)

\* Nothing was deployed yet.
LEMMA InitInv == Init => IInv
<1> SUFFICES ASSUME Init PROVE IInv
  OBVIOUS
<1>1. TypeOK
  BY DEF Init, TypeOK, EmptyDir, NoSecrets, Dep, NoResult, Statuses
<1>2. FilesInv /\ CommandInv /\ LatestInv
  BY DEF Init, FilesInv, CommandInv, LatestInv
<1>3. DeployedIsCurrent /\ NothingStaleOnDisk /\ CleanDown
  BY DEF Init, NoResult, DeployedIsCurrent, NothingStaleOnDisk, CleanDown, DeployedOK
<1> QED
  BY <1>1, <1>2, <1>3 DEF IInv

\* A command that has not succeeded yet promises nothing.
LEMMA NothingPromised ==
  ASSUME last'.action = "none" \/ last'.status = "failed"
  PROVE  (DeployedIsCurrent /\ NothingStaleOnDisk /\ CleanDown)'
  BY DEF DeployedIsCurrent, NothingStaleOnDisk, CleanDown, DeployedOK

\* The controller issues a command: an "up" becomes the latest deployment, and has
\* not succeeded yet.
LEMMA ReceivePreserves ==
  ASSUME IInv, ReceiveDown \/ \E d \in Deployments : ReceiveUp(d)
  PROVE  IInv'
<1> USE DeployAssumption DEF IInv, TypeOK, NoResult, Dep, Statuses
<1>1. CASE ReceiveDown
  BY <1>1, NothingPromised DEF ReceiveDown, FilesInv, CommandInv, LatestInv
<1>2. ASSUME NEW d \in Deployments, ReceiveUp(d) PROVE IInv'
  BY <1>2, NothingPromised DEF ReceiveUp, FilesInv, CommandInv, LatestInv, d0
<1> QED
  BY <1>1, <1>2

\* A command that fails, or the next call of one, promises nothing.
LEMMA FailPreserves ==
  ASSUME IInv, pc # "idle", Fail, UNCHANGED <<kind, up, pending, latest>>,
         dir' \in [compose : Dep, env : Dep, secrets : [Keys -> Dep]],
         latest.ok => dir' = dir
  PROVE  IInv'
<1>1. TypeOK'
  BY DEF IInv, TypeOK, Fail, Finish, Statuses, Dep, d0
<1>2. last'.status = "failed" /\ pc' = "idle"
  BY DEF Fail, Finish
<1> QED
  BY <1>1, <1>2, NothingPromised DEF IInv, FilesInv, CommandInv, LatestInv

\* While a command runs there is no result, so nothing is promised.
LEMMA GoKeepsPromises ==
  ASSUME IInv, pc # "idle", UNCHANGED last
  PROVE  (DeployedIsCurrent /\ NothingStaleOnDisk /\ CleanDown)' /\ last = NoResult
  BY NothingPromised DEF IInv, CommandInv, NoResult

\* Deployments start with none of the files of the last one, or replace them.
LEMMA CleanUpPreserves ==
  ASSUME IInv, WipeClone \/ Clone \/ Resolve \/ WriteCompose
  PROVE  IInv'
<1>1. pc # "idle" /\ latest.dep = d0 /\ ~latest.ok /\ d0 \in Deployments /\ cmd.action = "up"
  BY DEF IInv, CommandInv, WipeClone, Clone, Resolve, WriteCompose
<1>2. CASE Fail
  <2>1. dir' \in [compose : Dep, env : Dep, secrets : [Keys -> Dep]]
    <3>1. CASE WipeClone
      BY <3>1, FilesType DEF WipeClone, EmptyDir, IInv, TypeOK, Dep
    <3>2. CASE Clone \/ Resolve \/ WriteCompose
      BY <1>1, <3>2 DEF Clone, Resolve, WriteCompose, IInv, TypeOK, Dep
    <3> QED
      BY <3>1, <3>2
  <2> QED
    BY <1>1, <1>2, <2>1, FailPreserves DEF WipeClone, Clone, Resolve, WriteCompose
<1>3. CASE WipeClone /\ dir' = EmptyDir /\ Go("clone")
  <2>1. TypeOK'
    BY <1>3, FilesType, GoKeepsPromises DEF Go, d0, WipeClone, EmptyDir, IInv, TypeOK, NoResult, Dep, Statuses
  <2> QED
    BY <1>1, <1>3, <2>1, GoKeepsPromises DEF Go, d0, WipeClone, IInv, FilesInv, CommandInv, LatestInv
<1>4. CASE Clone /\ dir' = [dir EXCEPT !.compose = d0] /\ Go("resolve")
  <2>1. TypeOK' /\ dir'.compose = d0
    BY <1>1, <1>4, GoKeepsPromises DEF Go, d0, Clone, IInv, TypeOK, NoResult, Dep, Statuses
  <2> QED
    BY <1>1, <1>4, <2>1, GoKeepsPromises DEF Go, d0, Clone, IInv, FilesInv, CommandInv, LatestInv
<1>5. CASE Resolve /\ Go("env")
  <2>1. TypeOK'
    BY <1>1, <1>5, GoKeepsPromises DEF Go, d0, Resolve, IInv, TypeOK, NoResult, Dep, Statuses
  <2> QED
    BY <1>1, <1>5, <2>1, GoKeepsPromises DEF Go, d0, Resolve, IInv, FilesInv, CommandInv, LatestInv
<1>6. CASE WriteCompose /\ dir' = [dir EXCEPT !.compose = d0] /\ Go("env")
  <2>1. TypeOK' /\ dir'.compose = d0
    BY <1>1, <1>6, GoKeepsPromises DEF Go, d0, WriteCompose, IInv, TypeOK, NoResult, Dep, Statuses
  <2> QED
    BY <1>1, <1>6, <2>1, GoKeepsPromises DEF Go, d0, WriteCompose, IInv, FilesInv, CommandInv, LatestInv
<1> QED
  BY <1>2, <1>3, <1>4, <1>5, <1>6 DEF WipeClone, Clone, Resolve, WriteCompose

\* The files a deployment leaves for docker compose are its own, all of them.
LEMMA WriteFilesPreserves ==
  ASSUME IInv, WriteEnv \/ ClearSecrets \/ WriteSecrets
  PROVE  IInv'
<1>1. pc # "idle" /\ latest.dep = d0 /\ ~latest.ok /\ d0 \in Deployments /\ cmd.action = "up"
  BY DEF IInv, CommandInv, WriteEnv, ClearSecrets, WriteSecrets
<1>2. CASE WriteEnv
  <2>1. CASE Fail /\ UNCHANGED dir
    BY <1>1, <1>2, <2>1, FailPreserves DEF WriteEnv, IInv, TypeOK
  <2>2. CASE Go("clear") /\ dir' = [dir EXCEPT !.env = EnvOf(d0)]
    <3>1. TypeOK' /\ dir'.compose = dir.compose /\ dir'.env = EnvOf(d0)
      BY <1>1, <1>2, <2>2, FilesType, GoKeepsPromises DEF Go, d0, WriteEnv, IInv, TypeOK, NoResult, Statuses, Dep
    <3> QED
      BY <1>1, <1>2, <2>2, <3>1, GoKeepsPromises DEF Go, d0, WriteEnv, IInv, FilesInv, CommandInv, LatestInv
  <2> QED
    BY <1>2, <2>1, <2>2 DEF WriteEnv
<1>3. CASE ClearSecrets
  <2>1. CASE Fail
    <3>1. dir' \in [compose : Dep, env : Dep, secrets : [Keys -> Dep]]
      BY <1>3, <2>1, FilesType DEF ClearSecrets, IInv, TypeOK
    <3> QED
      BY <1>1, <1>3, <2>1, <3>1, FailPreserves DEF ClearSecrets
  <2>2. CASE Go("secrets") /\ dir' = [dir EXCEPT !.secrets = NoSecrets]
    <3>1. TypeOK' /\ dir'.compose = dir.compose /\ dir'.env = dir.env /\ dir'.secrets = NoSecrets
      BY <1>1, <1>3, <2>2, FilesType, GoKeepsPromises DEF Go, d0, ClearSecrets, IInv, TypeOK, NoResult, Statuses, Dep
    <3> QED
      BY <1>1, <1>3, <2>2, <3>1, GoKeepsPromises DEF Go, d0, ClearSecrets, IInv, FilesInv, CommandInv, LatestInv
  <2> QED
    BY <1>3, <2>1, <2>2 DEF ClearSecrets
<1>4. CASE WriteSecrets
  <2>1. PICK done \in SUBSET Written(d0) :
          /\ dir' = [dir EXCEPT !.secrets = [k \in Keys |-> IF k \in done THEN d0 ELSE @[k]]]
          /\ IF done = Written(d0) THEN Go("up") ELSE Fail
    BY <1>4 DEF WriteSecrets
  <2>2. dir.secrets = NoSecrets
    BY <1>4 DEF WriteSecrets, IInv, FilesInv
  <2>3. /\ dir'.compose = dir.compose /\ dir'.env = dir.env
        /\ dir'.secrets = [k \in Keys |-> IF k \in done THEN d0 ELSE None]
        /\ dir' \in [compose : Dep, env : Dep, secrets : [Keys -> Dep]]
    BY <1>1, <2>1, <2>2 DEF NoSecrets, IInv, TypeOK, Dep
  <2>4. CASE Fail
    BY <1>1, <1>4, <2>3, <2>4, FailPreserves DEF WriteSecrets
  <2>5. CASE done = Written(d0) /\ Go("up")
    <3>1. dir'.secrets = SecretsOf(d0)
      BY <2>3, <2>5 DEF SecretsOf
    <3>2. TypeOK'
      BY <1>4, <2>3, <2>5, GoKeepsPromises, <1>1 DEF Go, d0, WriteSecrets, IInv, TypeOK, NoResult, Statuses, Dep
    <3> QED
      BY <1>1, <1>4, <2>3, <2>5, <3>1, <3>2, GoKeepsPromises
         DEF Go, d0, WriteSecrets, IInv, FilesInv, CommandInv, LatestInv
  <2> QED
    BY <2>1, <2>4, <2>5
<1> QED
  BY <1>2, <1>3, <1>4

\* docker compose up creates the containers from the files of this deployment; a
\* failed one may have created some.
LEMMA ComposeUpPreserves == ASSUME IInv, ComposeUp PROVE IInv'
<1> USE DeployAssumption DEF IInv, TypeOK, Dep, d0, Go
<1>1. Created(d0) \in Containers /\ Created(d0) = [dep |-> d0, env |-> EnvOf(d0), secrets |-> SecretsOf(d0)]
  BY DEF ComposeUp, Created, Containers, FilesInv, CommandInv
<1>2. up' \in [Services -> Containers \cup {None}]
  BY <1>1 DEF ComposeUp
<1>3. pc' = "removeEnv" => up' = Deployed(d0)
  BY <1>1 DEF ComposeUp, Deployed
<1> QED
  BY <1>2, <1>3, NothingPromised DEF ComposeUp, NoResult, FilesInv, CommandInv, LatestInv

\* What is posted at the end of a command.
LEMMA FinishResult ==
  ASSUME TypeOK, NEW status \in Statuses, NEW warned \in BOOLEAN, Finish(status, warned)
  PROVE  /\ last' = [action |-> cmd.action, dep |-> d0, status |-> status, warned |-> warned]
         /\ last' \in [action : {"none", "up", "down"}, dep : Dep, status : Statuses, warned : BOOLEAN]
         /\ last'.action = cmd.action /\ last'.dep = d0 /\ last'.status = status /\ last'.warned = warned
         /\ pc' = "idle" /\ cmd' = [action |-> "none", dep |-> None]
  BY DEF TypeOK, Finish, d0

\* The plaintext .env goes last; a deployment succeeds here, or has failed before.
LEMMA RemoveEnvPreserves == ASSUME IInv, RemoveEnv PROVE IInv'
<1>1. d0 \in Deployments /\ cmd.action = "up" /\ latest.dep = d0 /\ ~latest.ok
  BY DEF RemoveEnv, IInv, CommandInv
<1>2. dir' \in [compose : Dep, env : Dep, secrets : [Keys -> Dep]]
  BY DEF RemoveEnv, IInv, TypeOK, Dep
<1>3. CASE pc = "removeEnvFailed"
  <2>1. PICK warned \in BOOLEAN : Finish("failed", warned)
    BY <1>3 DEF RemoveEnv
  <2>2. latest' = [latest EXCEPT !.ok = FALSE]
    BY <1>3, Zenon DEF RemoveEnv
  <2>3. latest' \in [dep : Dep, ok : BOOLEAN] /\ latest'.ok = FALSE
    BY <2>2 DEF IInv, TypeOK
  <2>4. TypeOK'
    BY <1>2, <2>1, <2>3, FinishResult DEF RemoveEnv, IInv, TypeOK, Statuses, Dep
  <2> QED
    BY <1>1, <2>1, <2>3, <2>4, FinishResult, NothingPromised
       DEF IInv, FilesInv, CommandInv, LatestInv, Statuses
<1>4. CASE pc = "removeEnv"
  <2>1. PICK warned \in BOOLEAN : Finish("succeeded", warned) /\ (dir'.env = None \/ warned)
    BY <1>4 DEF RemoveEnv, IInv, TypeOK
  <2>2. latest' = [latest EXCEPT !.ok = TRUE]
    BY <1>4, Zenon DEF RemoveEnv
  <2>3. latest' \in [dep : Dep, ok : BOOLEAN] /\ latest'.dep = d0
    BY <1>1, <2>2 DEF IInv, TypeOK
  <2>4. TypeOK'
    BY <1>1, <1>2, <2>1, <2>3, FinishResult DEF RemoveEnv, IInv, TypeOK, Statuses, Dep
  <2>5. up' = Deployed(d0) /\ dir'.compose = d0 /\ dir'.secrets = SecretsOf(d0)
    BY <1>4 DEF RemoveEnv, IInv, TypeOK, FilesInv
  <2>6. /\ last'.action = "up" /\ last'.dep = d0 /\ last'.status = "succeeded" /\ last'.warned = warned
        /\ pc' = "idle" /\ cmd' = [action |-> "none", dep |-> None]
    BY <1>1, <2>1, FinishResult DEF IInv, Statuses
  <2>7. DeployedIsCurrent' /\ CleanDown'
    BY <2>5, <2>6 DEF Deployed, DeployedIsCurrent, DeployedOK, CleanDown, EnvOf, SecretsOf, Written
  <2>8. NothingStaleOnDisk'
    BY <2>1, <2>5, <2>6 DEF NothingStaleOnDisk, DeployedOK, SecretsOf, Written
  <2>9. LatestInv'
    BY <1>1, <2>3, <2>5 DEF LatestInv, Deployed
  <2> QED
    BY <2>4, <2>6, <2>7, <2>8, <2>9 DEF IInv, FilesInv, CommandInv
<1> QED
  BY <1>3, <1>4 DEF RemoveEnv

\* An undeploy takes down the services of the compose file it finds.
LEMMA DownPreserves ==
  ASSUME IInv, Rewrite \/ ComposeDown
  PROVE  IInv'
<1>1. CASE Rewrite
  <2>1. CASE Fail
    BY <1>1, <2>1, FailPreserves, DeployAssumption DEF Rewrite, IInv, TypeOK, LatestInv
  <2>2. CASE Go("down")
    <3>1. dir' \in [compose : Dep, env : Dep, secrets : [Keys -> Dep]]
      BY <1>1 DEF Rewrite, IInv, TypeOK
    <3>2. latest.ok => dir'.compose = latest.dep
      BY <1>1 DEF Rewrite, IInv, TypeOK, LatestInv
    <3>3. TypeOK' /\ CommandInv'
      BY <1>1, <2>2, <3>1 DEF Rewrite, Go, IInv, TypeOK, CommandInv
    <3> QED
      BY <1>1, <2>2, <3>2, <3>3, GoKeepsPromises DEF Rewrite, Go, IInv, FilesInv, LatestInv
  <2> QED
    BY <1>1, <2>1, <2>2 DEF Rewrite
<1>2. CASE ComposeDown
  <2> USE DEF IInv, Dep, d0, Finish, Fail, Statuses
  <2>1. cmd.action = "down" /\ cmd.dep = None
    BY <1>2 DEF ComposeDown, CommandInv
  <2>2. last' \in [action : {"none", "up", "down"}, dep : Dep, status : Statuses, warned : BOOLEAN]
    <3>1. PICK status \in Statuses : Finish(status, FALSE)
      BY <1>2 DEF ComposeDown
    <3> QED
      BY <3>1, FinishResult
  <2>3. up' \in [Services -> Containers \cup {None}]
    BY <1>2 DEF ComposeDown, TypeOK
  <2>4. TypeOK'
    BY <1>2, <2>2, <2>3 DEF ComposeDown, TypeOK
  <2>5. FilesInv' /\ CommandInv'
    BY <1>2 DEF ComposeDown, FilesInv, CommandInv
  <2>6. LatestInv'
    BY <1>2 DEF ComposeDown, TypeOK, LatestInv
  <2>7. DeployedIsCurrent' /\ NothingStaleOnDisk'
    BY <1>2, <2>1 DEF ComposeDown, DeployedIsCurrent, NothingStaleOnDisk, DeployedOK
  <2>8. CleanDown'
    BY <1>2, <2>1, DeployAssumption DEF ComposeDown, TypeOK, LatestInv, CleanDown
  <2> QED
    BY <2>4, <2>5, <2>6, <2>7, <2>8
<1> QED
  BY <1>1, <1>2

\* A crash ends the command without a result.
LEMMA CrashPreserves == ASSUME IInv, Crash PROVE IInv'
  BY NothingPromised DEF IInv, TypeOK, Dep, Crash, NoResult, Statuses, FilesInv, CommandInv,
     LatestInv

\* Every step keeps the invariant.
LEMMA NextPreserves == ASSUME IInv, [Next]_vars PROVE IInv'
<1>1. CASE UNCHANGED vars
  BY <1>1 DEF vars, IInv, TypeOK, FilesInv, CommandInv, LatestInv, DeployedIsCurrent,
     NothingStaleOnDisk, CleanDown, DeployedOK, Deployed, d0
<1> QED
  BY <1>1, ReceivePreserves, CleanUpPreserves, WriteFilesPreserves, ComposeUpPreserves,
     RemoveEnvPreserves, DownPreserves, CrashPreserves DEF Next

\* IInv holds throughout.
LEMMA InvariantHolds == Spec => []IInv
  BY InitInv, NextPreserves, PTL DEF Spec

-----------------------------------------------------------------------------
(* What follows from the invariant.                                        *)

\* Type correctness.
THEOREM TypeCorrect == Spec => []TypeOK
<1>1. IInv => TypeOK
  BY DEF IInv
<1> QED
  BY <1>1, InvariantHolds, PTL

\* After a deployment reported as succeeded the containers are those of that
\* deployment, with its files, and no others (runComposeUp).
THEOREM DeployedIsCurrentHolds == Spec => []DeployedIsCurrent
<1>1. IInv => DeployedIsCurrent
  BY DEF IInv
<1> QED
  BY <1>1, InvariantHolds, PTL

\* After a deployment reported as succeeded there are no stale secrets on disk,
\* and no .env that was not reported (writeSecretFiles, removeEnvFile).
THEOREM NothingStaleOnDiskHolds == Spec => []NothingStaleOnDisk
<1>1. IInv => NothingStaleOnDisk
  BY DEF IInv
<1> QED
  BY <1>1, InvariantHolds, PTL

\* An undeploy that succeeds after a deployment that succeeded leaves no
\* container, whatever happened in between (runComposeDown).
THEOREM CleanDownHolds == Spec => []CleanDown
<1>1. IInv => CleanDown
  BY DEF IInv
<1> QED
  BY <1>1, InvariantHolds, PTL

\* A container is only ever created from the complete files of one deployment
\* (runLocalDeploy, runGitDeploy).
THEOREM CreatedFromCompleteHolds == Spec => CreatedFromComplete
<1> DEFINE Complete(s) == up'[s] \notin {up[s], None} =>
              /\ dir.compose = d0
              /\ up'[s] = [dep |-> d0, env |-> EnvOf(d0), secrets |-> SecretsOf(d0)]
<1>1. ASSUME IInv, [Next]_vars PROVE [\A s \in Services : Complete(s)]_vars
  <2> SUFFICES ASSUME NEW s \in Services, up'[s] \notin {up[s], None}
               PROVE  Complete(s)
    OBVIOUS
  <2> USE <1>1
  <2>1. CASE ComposeUp
    BY <2>1 DEF ComposeUp, Created, IInv, FilesInv
  <2>2. CASE ComposeDown
    BY <2>2 DEF ComposeDown
  <2>3. up' = up \/ ComposeUp \/ ComposeDown
    BY DEF Next, vars, ReceiveUp, ReceiveDown, WipeClone, Clone, Resolve, WriteCompose, WriteEnv,
       ClearSecrets, WriteSecrets, RemoveEnv, Rewrite, Crash
  <2> QED
    BY <2>1, <2>2, <2>3
<1> QED
  BY <1>1, InvariantHolds, PTL DEF Spec, CreatedFromComplete
=============================================================================

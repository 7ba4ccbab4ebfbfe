--------------------------- MODULE BackupRunProofs ---------------------------
(***************************************************************************)
(* Backup runs are safe for any volumes, containers, policies and faults:  *)
(* copies are of volumes at rest, containers come back before retention,   *)
(* the last readable snapshot is never removed, a success is true.         *)
(***************************************************************************)
EXTENDS BackupRun, SequenceTheorems, FiniteSetTheorems, TLAPS

Statuses   == {"none", "success", "warning", "error"}
Retentions == {"none", "applied", "failed", "skipped"}
Copying    == {"exists", "backup", "readback"}

\* Retention and the report follow upon copies of all volumes, unless the run
\* was broken off.
Copied == pc \in {"retain", "forget"} \/ (pc \in {"restart", "report"} /\ status # "error")

\* Where a run is, and what its report says so far.
PhaseInv ==
  /\ pc \in {"idle", "config", "retain", "forget", "report"} => stopped = <<>>
  /\ pc = "config" => vi = 1
  /\ pc \in {"list", "stop"} => mode = "stop"
  /\ pc \in {"config", "list", "stop", "retain", "forget"} \cup Copying => status = "success"
  /\ pc = "restart" => status \in {"success", "error"}
  /\ pc \in {"config", "list", "stop"} => \A i \in Indices : res[i] = Blank
  /\ pc \in Copying => \A i \in Indices : i > vi => res[i] = Blank
  /\ pc \in {"exists", "backup"} => res[vi] = Blank
  /\ pc \in Copying => \A i \in Indices : i < vi => res[i].status # "none"
  /\ pc = "readback" => res[vi].status \in {"success", "warning"}
  /\ Copied => \A i \in Indices : res[i].status # "none"
  /\ pc = "report" /\ status = "success" =>
       failed = {} /\ \A i \in Indices : res[i].status = "success"

\* Users of the volumes that were seen are down, but for those still to stop.
StopInv ==
  "user" \notin faults /\ mode = "stop" =>
    /\ pc \in {"list", "stop"} => Elements(stopped) \cap running = {}
    /\ pc \in {"list", "stop"} => \A i \in Indices : i < vi => Users(Request[i]) \cap running = {}
    /\ pc = "stop" => Users(V) \cap running \subseteq todo
    /\ pc \in Copying => \A i \in Indices : Users(Request[i]) \cap running = {}

\* A container that is owed a start is on the list, or was owed one before the
\* run began, or belongs to a run that was broken off.
OwedInv ==
  /\ faults \cap {"crash", "stopLate"} = {} => owed \subseteq Elements(stopped)
  /\ pc # "idle" /\ status = "success" => owed \subseteq before \cup Elements(stopped)

\* Snapshots of the volume of result i: the newest is that of the result.
Newest(i) ==
  /\ [id |-> res[i].snap, vol |-> Request[i]] \in repo
  /\ \A t \in Of(repo, Request[i]) : t.id <= res[i].snap

\* A result that is no error is a snapshot that was read back, the newest of
\* its volume, which retention cannot remove.
RepoInv ==
  /\ IsFiniteSet(repo)
  /\ \A s \in verified : s.id \notin bad
  /\ pc = "readback" => Newest(vi) /\ res[vi].snap = ids
  /\ pc = "forget" => Eligible /\ keep > 0
  /\ Distinct =>
       \A i \in Indices :
         res[i].status \in {"success", "warning"} /\ ~(pc = "readback" /\ i = vi) =>
           Newest(i) /\ [id |-> res[i].snap, vol |-> Request[i]] \in verified

IInv == TypeOK /\ PhaseInv /\ StopInv /\ OwedInv /\ RepoInv /\ GoodSurvives

-----------------------------------------------------------------------------
(* Sequences, numbers and sets.                                            *)

\* One container more on the list.
LEMMA ElementsOfAppend ==
  ASSUME NEW s \in Seq(Containers), NEW c \in Containers
  PROVE  Append(s, c) \in Seq(Containers) /\ Elements(Append(s, c)) = Elements(s) \cup {c}
<1>1. /\ Append(s, c) \in Seq(Containers) /\ Len(Append(s, c)) = Len(s) + 1
      /\ \A i \in 1 .. Len(s) : Append(s, c)[i] = s[i]
      /\ Append(s, c)[Len(s) + 1] = c
  BY AppendProperties
<1>2. DOMAIN Append(s, c) = 1 .. Len(s) + 1 /\ DOMAIN s = 1 .. Len(s) /\ Len(s) \in Nat
  BY <1>1, LenProperties
<1> QED
  BY <1>1, <1>2 DEF Elements

\* The last container off the list.
LEMMA ElementsOfFront ==
  ASSUME NEW s \in Seq(Containers), s # <<>>
  PROVE  /\ s[Len(s)] \in Containers
         /\ SubSeq(s, 1, Len(s) - 1) \in Seq(Containers)
         /\ Elements(s) = Elements(SubSeq(s, 1, Len(s) - 1)) \cup {s[Len(s)]}
<1> DEFINE f == SubSeq(s, 1, Len(s) - 1)
<1>1. Len(s) \in Nat \ {0} /\ DOMAIN s = 1 .. Len(s) /\ \A i \in 1 .. Len(s) : s[i] \in Containers
  BY EmptySeq, LenProperties, ElementOfSeq
<1>2. /\ f \in Seq(Containers)
      /\ Len(f) = Len(s) - 1
      /\ \A i \in 1 .. Len(s) - 1 : f[i] = s[i]
  BY <1>1, SubSeqProperties
<1>3. DOMAIN f = 1 .. Len(s) - 1
  BY <1>2, LenProperties
<1>4. Len(s) - 1 \in Nat /\ Len(s) \in 1 .. Len(s)
  BY <1>1
<1>5. Elements(f) \subseteq Elements(s) /\ s[Len(s)] \in Elements(s)
  <2>1. ASSUME NEW x \in Elements(f) PROVE x \in Elements(s)
    <3>1. PICK i \in 1 .. Len(s) - 1 : x = f[i]
      BY <1>3 DEF Elements
    <3>2. i \in 1 .. Len(s) /\ f[i] = s[i]
      BY <1>1, <1>2, <3>1
    <3> QED
      BY <1>1, <3>1, <3>2 DEF Elements
  <2> QED
    BY <1>1, <1>4, <2>1 DEF Elements
<1>6. ASSUME NEW x \in Elements(s), x # s[Len(s)] PROVE x \in Elements(f)
  <2>1. PICK i \in 1 .. Len(s) : x = s[i]
    BY <1>1 DEF Elements
  <2>2. i \in 1 .. Len(s) - 1
    BY <1>1, <1>6, <2>1
  <2> QED
    BY <1>2, <1>3, <2>1, <2>2 DEF Elements
<1> QED
  BY <1>1, <1>2, <1>5, <1>6

\* An empty list has no containers.
LEMMA ElementsOfEmpty == Elements(<<>>) = {}
  BY DEF Elements

\* The volumes of a request.
LEMMA RequestType ==
  /\ Len(Request) \in Nat \ {0}
  /\ \A i \in Indices : i \in Nat /\ i >= 1 /\ i <= Len(Request) /\ Request[i] \in Volumes
  /\ 1 \in Indices
<1>1. Request \in Seq(Volumes) /\ Request # <<>>
  BY BackupAssumption
<1>2. Len(Request) \in Nat \ {0}
  BY <1>1, EmptySeq
<1>3. \A i \in 1 .. Len(Request) : Request[i] \in Volumes
  BY <1>1, ElementOfSeq
<1> QED
  BY <1>2, <1>3 DEF Indices

-----------------------------------------------------------------------------
(* The initial state, and one lemma per part of the program.               *)

\* Results that say nothing yet.
LEMMA BlankResults ==
  ASSUME NEW n \in Nat
  PROVE  /\ [i \in Indices |-> Blank] \in
              [Indices -> [status : Statuses, snap : 0 .. n, retention : Retentions]]
         /\ \A i \in Indices : [j \in Indices |-> Blank][i] = Blank
         /\ Blank.status = "none"
  BY DEF Blank, NoSnap, Statuses, Retentions

\* A run that has not reported anything yet has nothing to answer for.
LEMMA InitInv == Init => IInv
<1> SUFFICES ASSUME Init PROVE IInv
  OBVIOUS
<1>1. TypeOK
  <2>1. res \in [Indices -> [status : Statuses, snap : 0 .. ids, retention : Retentions]]
    BY BlankResults DEF Init
  <2>2. <<>> \in Seq(Containers)
    BY EmptySeq
  <2>3. repo \subseteq Snapshots /\ verified \subseteq Snapshots /\ bad \subseteq 1 .. ids /\ ids \in Nat
    BY DEF Init
  <2>4. runs \in 0 .. MaxRuns /\ vi \in Indices
    BY BackupAssumption, RequestType DEF Init
  <2> QED
    BY <2>1, <2>2, <2>3, <2>4 DEF Init, TypeOK, Statuses, Retentions
<1>2. PhaseInv /\ StopInv /\ OwedInv
  BY ElementsOfEmpty DEF Init, PhaseInv, StopInv, OwedInv, Copied, Copying
<1>3. IsFiniteSet(repo) /\ \A i \in Indices : res[i].status = "none"
  BY BlankResults, FS_EmptySet DEF Init
<1>4. RepoInv /\ GoodSurvives
  BY <1>3 DEF Init, RepoInv, GoodSurvives, ReadableStays, Of
<1> QED
  BY <1>1, <1>2, <1>4 DEF IInv

\* Without a change of the repository the readable snapshots are still there.
LEMMA RepositoryStays == GoodSurvives /\ UNCHANGED repository => GoodSurvives'
  BY DEF GoodSurvives, ReadableStays, Of, repository, Distinct, Indices

\* A run begins with what earlier runs, crashes and users left.
LEMMA StartPreserves == ASSUME IInv, Start PROVE IInv'
<1> USE DEF Start, host, repository
<1>1. TypeOK'
  <2>1. res' \in [Indices -> [status : Statuses, snap : 0 .. ids, retention : Retentions]]
    BY BlankResults DEF IInv, TypeOK
  <2>2. <<>> \in Seq(Containers)
    BY EmptySeq
  <2>3. runs' \in 0 .. MaxRuns
    BY BackupAssumption DEF IInv, TypeOK
  <2> QED
    BY <2>1, <2>2, <2>3, RequestType DEF IInv, TypeOK, Statuses, Retentions, Snapshots
<1>2. PhaseInv'
  BY BlankResults DEF PhaseInv, Copied, Copying
<1>3. StopInv' /\ OwedInv'
  BY ElementsOfEmpty DEF IInv, PhaseInv, OwedInv, StopInv, Copying
<1>4. \A i \in Indices : res'[i].status = "none"
  BY BlankResults
<1>5. RepoInv' /\ GoodSurvives'
  BY <1>4, RepositoryStays DEF IInv, RepoInv
<1> QED
  BY <1>1, <1>2, <1>3, <1>5 DEF IInv

\* A run whose repository is not there stops nothing and reports an error.
LEMMA CatConfigPreserves == ASSUME IInv, CatConfig PROVE IInv'
<1> USE DEF CatConfig, work, host, repository
<1>1. TypeOK'
  BY DEF IInv, TypeOK, Snapshots
<1>2. RepoInv' /\ GoodSurvives'
  BY RepositoryStays DEF IInv, RepoInv, Newest, Of, Distinct, Indices, Eligible
<1> SUFFICES PhaseInv' /\ StopInv' /\ OwedInv'
  BY <1>1, <1>2 DEF IInv
<1>3. vi = 1 /\ vi' = vi /\ stopped' = <<>> /\ res' = res /\ \A i \in Indices : res[i] = Blank
  BY DEF IInv, PhaseInv
<1>4. CASE pc' = "list" /\ mode = "stop" /\ status' = status
  <2>1. PhaseInv'
    BY <1>3, <1>4 DEF IInv, PhaseInv, Copied, Copying
  <2>2. StopInv' /\ OwedInv'
    BY <1>3, <1>4, RequestType, ElementsOfEmpty DEF IInv, PhaseInv, OwedInv, StopInv, Copying
  <2> QED
    BY <2>1, <2>2
<1>5. CASE pc' = "exists" /\ mode # "stop" /\ status' = status
  <2>1. PhaseInv'
    BY <1>3, <1>5, RequestType DEF IInv, PhaseInv, Copied, Copying
  <2>2. StopInv' /\ OwedInv'
    BY <1>3, <1>5 DEF IInv, PhaseInv, OwedInv, StopInv, Copying
  <2> QED
    BY <2>1, <2>2
<1>6. CASE pc' = "report" /\ status' = "error"
  BY <1>3, <1>6 DEF IInv, PhaseInv, OwedInv, StopInv, Copied, Copying
<1> QED
  BY <1>4, <1>5, <1>6

\* A call that touches neither results nor repository.
LEMMA ResultsStay ==
  ASSUME IInv, UNCHANGED <<res, keep, repo, bad, ids, verified>>,
         pc # "readback", pc' \notin {"readback", "forget"}
  PROVE  RepoInv' /\ GoodSurvives'
  BY RepositoryStays DEF IInv, RepoInv, Newest, Of, Distinct, Indices, repository

\* A call of stopUsers that fails breaks the run off; the containers stopped so
\* far are still on the list.
LEMMA AbortPreserves ==
  ASSUME IInv, Abort, pc \in {"list", "stop"},
         UNCHANGED <<work, vi, todo, stopped, failed, res, expired, repository, runs>>,
         running' \subseteq running, owed' \subseteq Containers,
         "stopLate" \in faults \/ owed' = owed
  PROVE  IInv'
<1> USE DEF Abort, work, repository
<1>1. TypeOK'
  BY DEF IInv, TypeOK, Snapshots
<1>2. PhaseInv'
  BY DEF IInv, PhaseInv, Copied, Copying
<1>3. StopInv'
  BY DEF StopInv, Copying
<1>4. OwedInv'
  <2>1. faults \cap {"crash", "stopLate"} = {} => owed' = owed
    BY Zenon
  <2> QED
    BY <2>1 DEF IInv, OwedInv
<1>5. RepoInv' /\ GoodSurvives'
  BY ResultsStay
<1> QED
  BY <1>1, <1>2, <1>3, <1>4, <1>5 DEF IInv

\* The users of a volume that still run are those to stop.
LEMMA ListUsersPreserves == ASSUME IInv, ListUsers PROVE IInv'
<1> USE DEF ListUsers
<1>1. CASE Abort /\ UNCHANGED todo
  BY <1>1, AbortPreserves DEF host, IInv, TypeOK
<1>2. CASE todo' = (Users(V) \cap running) \ Elements(stopped) /\ pc' = "stop" /\ UNCHANGED status
  <2> USE DEF work, host, repository
  <2>1. TypeOK'
    BY <1>2 DEF IInv, TypeOK, Snapshots, Users
  <2>2. PhaseInv'
    BY <1>2 DEF IInv, PhaseInv, Copied, Copying
  <2>3. StopInv'
    BY <1>2 DEF IInv, StopInv, Copying, V
  <2>4. OwedInv'
    BY <1>2 DEF IInv, OwedInv
  <2>5. RepoInv' /\ GoodSurvives'
    BY <1>2, ResultsStay
  <2> QED
    BY <2>1, <2>2, <2>3, <2>4, <2>5 DEF IInv
<1> QED
  BY <1>1, <1>2

\* A container goes on the list as it is stopped.
LEMMA StopUserPreserves == ASSUME IInv, StopUser PROVE IInv'
<1>1. PICK c \in todo :
        \/ /\ ~expired
           /\ todo' = todo \ {c}
           /\ running' = running \ {c}
           /\ owed' = owed \cup ({c} \cap running)
           /\ stopped' = Append(stopped, c)
           /\ UNCHANGED <<pc, status>>
        \/ /\ Abort
           /\ \/ UNCHANGED host
              \/ /\ "stopLate" \in faults
                 /\ running' = running \ {c}
                 /\ owed' = owed \cup ({c} \cap running)
           /\ UNCHANGED <<todo, stopped>>
  BY DEF StopUser
<1>2. c \in Containers /\ stopped \in Seq(Containers) /\ pc = "stop" /\ owed \subseteq Containers
  BY <1>1 DEF IInv, TypeOK, StopUser
<1>3. UNCHANGED <<work, vi, failed, res, expired, repository, runs>>
  BY DEF StopUser
<1>4. CASE Abort /\ UNCHANGED <<todo, stopped>>
  BY <1>1, <1>2, <1>3, <1>4, AbortPreserves DEF host, Abort
<1>5. CASE /\ todo' = todo \ {c}
           /\ running' = running \ {c}
           /\ owed' = owed \cup ({c} \cap running)
           /\ stopped' = Append(stopped, c)
           /\ UNCHANGED <<pc, status>>
  <2> USE <1>2, <1>3, <1>5 DEF work, repository
  <2>1. stopped' \in Seq(Containers) /\ Elements(stopped') = Elements(stopped) \cup {c}
    BY ElementsOfAppend
  <2>2. TypeOK'
    BY <2>1 DEF IInv, TypeOK, Snapshots
  <2>3. PhaseInv'
    BY DEF IInv, PhaseInv, Copied, Copying
  <2>4. StopInv'
    BY <2>1 DEF IInv, StopInv, Copying, V
  <2>5. OwedInv'
    BY <2>1 DEF IInv, OwedInv
  <2>6. RepoInv' /\ GoodSurvives'
    BY ResultsStay
  <2> QED
    BY <2>2, <2>3, <2>4, <2>5, <2>6 DEF IInv
<1> QED
  BY <1>1, <1>4, <1>5

\* With all volumes seen, no user of any of them runs.
LEMMA StopNextVolumePreserves == ASSUME IInv, StopNextVolume PROVE IInv'
<1> USE DEF StopNextVolume, work, host, repository
<1>1. vi \in Indices /\ vi \in Nat /\ vi >= 1 /\ vi <= Len(Request) /\ Len(Request) \in Nat /\ 1 \in Indices
  BY RequestType DEF IInv, TypeOK
<1>2. vi' \in Indices
  BY <1>1 DEF Indices
<1>3. TypeOK'
  BY <1>2 DEF IInv, TypeOK, Snapshots
<1>4. PhaseInv'
  BY <1>1, RequestType DEF IInv, PhaseInv, Copied, Copying
<1>5. StopInv'
  <2> SUFFICES ASSUME "user" \notin faults, mode = "stop" PROVE StopInv'
    BY DEF StopInv
  <2>1. /\ Elements(stopped) \cap running = {}
        /\ \A i \in Indices : i < vi => Users(Request[i]) \cap running = {}
        /\ Users(Request[vi]) \cap running = {}
    BY DEF IInv, StopInv, V
  <2>2. \A i \in Indices : i <= vi => Users(Request[i]) \cap running = {}
    BY <1>1, <2>1, RequestType
  <2> QED
    BY <1>1, <2>1, <2>2, RequestType DEF StopInv, Copying
<1>6. OwedInv'
  BY DEF IInv, OwedInv
<1>7. RepoInv' /\ GoodSurvives'
  BY ResultsStay
<1> QED
  BY <1>3, <1>4, <1>5, <1>6, <1>7 DEF IInv

\* A new snapshot takes nothing away, and is not the newest of another volume.
LEMMA NewSnapshotSafe ==
  ASSUME IInv, NewSnapshot
  PROVE  /\ ids' = ids + 1 /\ ids' \in Nat
         /\ repo' \subseteq Snapshots' /\ bad' \subseteq 1 .. ids' /\ verified' \subseteq Snapshots'
         /\ IsFiniteSet(repo')
         /\ \A s \in verified' : s.id \notin bad'
         /\ GoodSurvives'
         /\ \A i \in Indices : Request[i] # V /\ Newest(i) /\ res'[i] = res[i] => Newest(i)'
<1> DEFINE new == [id |-> ids + 1, vol |-> V]
<1>1. ids \in Nat /\ repo \subseteq Snapshots /\ bad \subseteq 1 .. ids /\ verified \subseteq Snapshots /\ V \in Volumes
  BY RequestType DEF IInv, TypeOK, V
<1>2. /\ ids' = ids + 1 /\ repo' = repo \cup {new} /\ bad' \subseteq bad \cup {ids + 1}
      /\ verified' = verified
  BY DEF NewSnapshot
<1>3. Snapshots \subseteq Snapshots' /\ new \in Snapshots'
  BY <1>1, <1>2 DEF Snapshots
<1>4. \A s \in Snapshots : s.id # ids + 1
  BY <1>1 DEF Snapshots
<1>5. IsFiniteSet(repo')
  BY <1>2, FS_AddElement DEF IInv, RepoInv
<1>6. GoodSurvives'
  <2> SUFFICES ASSUME Distinct, NEW v \in Volumes, Of(verified, v) # {}
               PROVE  \E s \in Of(repo', v) : s.id \notin bad'
    BY <1>2 DEF GoodSurvives, ReadableStays, Distinct, Indices, Of
  <2>1. PICK s \in Of(repo, v) : s.id \notin bad
    BY DEF IInv, GoodSurvives, ReadableStays
  <2> QED
    BY <1>1, <1>2, <1>4, <2>1 DEF Of
<1>7. ASSUME NEW i \in Indices, Request[i] # V, Newest(i), res'[i] = res[i] PROVE Newest(i)'
  BY <1>2, <1>7 DEF Newest, Of
<1>8. \A s \in verified' : s.id \notin bad'
  BY <1>1, <1>2, <1>4 DEF IInv, RepoInv
<1> QED
  BY <1>1, <1>2, <1>3, <1>5, <1>6, <1>7, <1>8

\* Where the result of a volume leads to.
LEMMA ResultStep ==
  ASSUME IInv, NEW r, r.status # "none", Result(r), pc \in Copying, UNCHANGED <<mode, faults, stopped, failed, status, running, keep>>
  PROVE  /\ vi' \in Indices /\ PhaseInv' /\ StopInv'
         /\ pc' \in {"exists", "restart"}
         /\ res'[vi] = r /\ \A i \in Indices : i # vi => res'[i] = res[i]
<1>1. vi \in Indices /\ vi \in Nat /\ vi >= 1 /\ vi <= Len(Request) /\ Len(Request) \in Nat /\ 1 \in Indices
  BY RequestType DEF IInv, TypeOK
<1>2. DOMAIN res = Indices
  BY DEF IInv, TypeOK
<1>3. res'[vi] = r /\ \A i \in Indices : i # vi => res'[i] = res[i]
  BY <1>1, <1>2 DEF Result
<1>4. /\ status' = status /\ status = "success"
      /\ \A i \in Indices : i > vi => res[i] = Blank
      /\ \A i \in Indices : i < vi => res[i].status # "none"
  BY DEF IInv, PhaseInv
<1>5. CASE vi < Len(Request) /\ vi' = vi + 1 /\ pc' = "exists"
  <2>1. /\ \A i \in Indices : i > vi' => res'[i] = Blank
        /\ \A i \in Indices : i < vi' => res'[i].status # "none"
        /\ res'[vi'] = Blank /\ vi' \in Indices
    BY <1>1, <1>3, <1>4, <1>5, RequestType DEF Indices
  <2>2. PhaseInv'
    BY <1>4, <1>5, <2>1 DEF PhaseInv, Copied, Copying
  <2>3. StopInv'
    BY <1>5 DEF IInv, StopInv, Copying
  <2> QED
    BY <1>3, <1>5, <2>1, <2>2, <2>3
<1>6. CASE vi = Len(Request) /\ vi' = 1 /\ pc' = "restart"
  <2>1. \A i \in Indices : res'[i].status # "none"
    BY <1>1, <1>3, <1>4, <1>6, RequestType
  <2>2. PhaseInv'
    BY <1>4, <1>6, <2>1 DEF PhaseInv, Copied, Copying
  <2>3. StopInv'
    BY <1>6 DEF StopInv, Copying
  <2> QED
    BY <1>1, <1>3, <1>6, <2>2, <2>3
<1> QED
  BY <1>1, <1>5, <1>6 DEF Result

\* Results of an earlier volume stay results when snapshots are added.
LEMMA ResultsType ==
  ASSUME IInv, ids' \in Nat, ids' >= ids, NEW r,
         r \in [status : Statuses, snap : 0 .. ids', retention : Retentions],
         res' = [res EXCEPT ![vi] = r]
  PROVE  res' \in [Indices -> [status : Statuses, snap : 0 .. ids', retention : Retentions]]
<1> DEFINE R(n) == [status : Statuses, snap : 0 .. n, retention : Retentions]
<1>1. res \in [Indices -> R(ids)] /\ ids \in Nat
  BY DEF IInv, TypeOK, Statuses, Retentions
<1>2. R(ids) \subseteq R(ids')
  BY <1>1
<1> HIDE DEF R
<1>3. res \in [Indices -> R(ids')] /\ r \in R(ids')
  BY <1>1, <1>2 DEF R
<1> QED
  BY <1>3 DEF R

\* A volume whose copy failed has an error for a result, with or without a
\* snapshot in the repository.
LEMMA ErrorPreserves ==
  ASSUME IInv, Result(Error), pc \in Copying,
         UNCHANGED <<work, todo, stopped, failed, status, expired, host, runs>>,
         NewSnapshot \/ UNCHANGED repository
  PROVE  IInv'
<1> USE DEF work, host
<1>1. Error.status = "error"
  BY DEF Error
<1>2. /\ vi' \in Indices /\ PhaseInv' /\ StopInv' /\ pc' \in {"exists", "restart"}
      /\ res'[vi].status = "error" /\ \A i \in Indices : i # vi => res'[i] = res[i]
  BY <1>1, ResultStep
<1>3. /\ ids' \in Nat /\ ids' >= ids /\ repo' \subseteq Snapshots' /\ bad' \subseteq 1 .. ids'
      /\ verified' \subseteq Snapshots' /\ IsFiniteSet(repo') /\ \A s \in verified' : s.id \notin bad'
      /\ GoodSurvives' /\ verified' = verified
      /\ \A i \in Indices : Request[i] # V /\ Newest(i) /\ res'[i] = res[i] => Newest(i)'
  <2>1. CASE NewSnapshot
    <3>1. ids \in Nat /\ verified' = verified
      BY <2>1 DEF NewSnapshot, IInv, TypeOK
    <3> QED
      BY <2>1, <3>1, NewSnapshotSafe
  <2>2. CASE UNCHANGED repository
    <3>1. GoodSurvives'
      BY <2>2, RepositoryStays DEF IInv
    <3> QED
      BY <2>2, <3>1 DEF IInv, TypeOK, RepoInv, repository, Snapshots, Newest, Of
  <2> QED
    BY <2>1, <2>2
<1>4. TypeOK'
  <2>1. Error \in [status : Statuses, snap : 0 .. ids', retention : Retentions]
    BY <1>3 DEF Error, Statuses, Retentions, NoSnap
  <2>2. res' \in [Indices -> [status : Statuses, snap : 0 .. ids', retention : Retentions]]
    BY <1>3, <2>1, ResultsType DEF Result
  <2> QED
    BY <1>2, <1>3, <2>2 DEF IInv, TypeOK, Statuses, Retentions
<1>5. OwedInv'
  BY DEF IInv, OwedInv, PhaseInv, Copying
<1>6. RepoInv'
  <2>1. ASSUME Distinct, NEW i \in Indices, res'[i].status \in {"success", "warning"}
        PROVE  Newest(i)' /\ [id |-> res'[i].snap, vol |-> Request[i]] \in verified'
    <3>1. i # vi /\ res'[i] = res[i]
      BY <1>2, <2>1
    <3>2. Request[i] # V
      BY <2>1, <3>1 DEF Distinct, V, IInv, TypeOK
    <3>3. Newest(i) /\ [id |-> res[i].snap, vol |-> Request[i]] \in verified
      BY <2>1, <3>1 DEF IInv, RepoInv
    <3> QED
      BY <1>3, <3>1, <3>2, <3>3
  <2> QED
    BY <1>2, <1>3, <2>1 DEF RepoInv, Distinct, Indices
<1> QED
  BY <1>2, <1>3, <1>4, <1>5, <1>6 DEF IInv

\* docker volume inspect.
LEMMA VolumeExistsPreserves == ASSUME IInv, VolumeExists PROVE IInv'
<1>1. CASE Result(Error)
  BY <1>1, ErrorPreserves DEF VolumeExists, Copying
<1>2. CASE pc' = "backup" /\ UNCHANGED <<vi, res>>
  <2> USE <1>2 DEF VolumeExists, work, host, repository
  <2>1. TypeOK'
    BY DEF IInv, TypeOK, Snapshots
  <2>2. PhaseInv' /\ StopInv' /\ OwedInv'
    BY DEF IInv, PhaseInv, StopInv, OwedInv, Copied, Copying
  <2>3. RepoInv' /\ GoodSurvives'
    BY ResultsStay
  <2> QED
    BY <2>1, <2>2, <2>3 DEF IInv
<1> QED
  BY <1>1, <1>2 DEF VolumeExists

\* The new snapshot is the newest of its volume.
LEMMA BackupPreserves == ASSUME IInv, Backup PROVE IInv'
<1>1. pc = "backup" /\ UNCHANGED <<work, todo, stopped, failed, status, expired, host, runs>>
  BY DEF Backup
<1>2. CASE Result(Error) /\ (UNCHANGED repository \/ (~expired /\ NewSnapshot))
  BY <1>1, <1>2, ErrorPreserves DEF Copying
<1>3. ASSUME NewSnapshot, pc' = "readback", UNCHANGED vi, NEW st \in {"success", "warning"},
             res' = [res EXCEPT ![vi] = [status |-> st, snap |-> ids + 1, retention |-> "none"]]
      PROVE  IInv'
  <2> USE <1>1, <1>3 DEF work, host
  <2>1. vi \in Indices /\ DOMAIN res = Indices /\ V \in Volumes /\ ids \in Nat
    BY RequestType DEF IInv, TypeOK, V
  <2>2. /\ res'[vi].status \in {"success", "warning"} /\ res'[vi].snap = ids'
        /\ \A i \in Indices : i # vi => res'[i] = res[i]
    BY <2>1 DEF NewSnapshot
  <2>3. /\ ids' = ids + 1 /\ ids' \in Nat /\ ids' >= ids
        /\ repo' \subseteq Snapshots' /\ bad' \subseteq 1 .. ids' /\ verified' \subseteq Snapshots'
    BY <2>1, NewSnapshotSafe
  <2>4. TypeOK'
    <3>1. [status |-> st, snap |-> ids + 1, retention |-> "none"]
            \in [status : Statuses, snap : 0 .. ids', retention : Retentions]
      BY <2>1, <2>3 DEF Statuses, Retentions
    <3>2. res' \in [Indices -> [status : Statuses, snap : 0 .. ids', retention : Retentions]]
      BY <2>3, <3>1, ResultsType
    <3> QED
      BY <2>3, <3>2 DEF IInv, TypeOK, Statuses, Retentions
  <2>5. PhaseInv' /\ StopInv' /\ OwedInv'
    BY <2>1, <2>2, RequestType DEF IInv, PhaseInv, StopInv, OwedInv, Copied, Copying
  <2>6. RepoInv'
    <3>1. Newest(vi)'
      <4>1. [id |-> ids + 1, vol |-> Request[vi]] \in repo'
        BY DEF NewSnapshot, V
      <4>2. \A t \in repo' : t.id <= ids'
        BY <2>3 DEF Snapshots
      <4> QED
        BY <2>2, <2>3, <4>1, <4>2 DEF Newest, Of
    <3>2. ASSUME Distinct, NEW i \in Indices, res'[i].status \in {"success", "warning"}, i # vi
          PROVE  Newest(i)' /\ [id |-> res'[i].snap, vol |-> Request[i]] \in verified'
      <4>1. Request[i] # V /\ res'[i] = res[i]
        BY <2>1, <2>2, <3>2 DEF Distinct, V
      <4>2. Newest(i) /\ [id |-> res[i].snap, vol |-> Request[i]] \in verified
        BY <3>2, <4>1 DEF IInv, RepoInv
      <4> QED
        BY <4>1, <4>2, NewSnapshotSafe DEF NewSnapshot
    <3> QED
      BY <2>2, <3>1, <3>2, NewSnapshotSafe DEF RepoInv, Distinct, Indices
  <2> QED
    BY <2>4, <2>5, <2>6, NewSnapshotSafe DEF IInv
<1> QED
  BY <1>2, <1>3 DEF Backup

\* Only a snapshot that was read back stays a result.
LEMMA ReadBackPreserves == ASSUME IInv, ReadBack PROVE IInv'
<1>1. /\ pc = "readback"
      /\ UNCHANGED <<work, todo, stopped, failed, status, expired, host, repo, bad, ids, runs>>
  BY DEF ReadBack
<1>2. CASE Result(Error) /\ UNCHANGED verified
  BY <1>1, <1>2, ErrorPreserves DEF Copying, repository
<1>3. CASE /\ res[vi].snap \notin bad
           /\ verified' = verified \cup {[id |-> res[vi].snap, vol |-> V]}
           /\ Result(res[vi])
  <2> USE <1>1, <1>3 DEF work, host
  <2> DEFINE snap == [id |-> res[vi].snap, vol |-> V]
  <2>1. vi \in Indices /\ res[vi].status \in {"success", "warning"} /\ Newest(vi) /\ snap \in repo
    BY DEF IInv, TypeOK, PhaseInv, RepoInv, Newest, V
  <2>2. /\ vi' \in Indices /\ PhaseInv' /\ StopInv' /\ pc' \in {"exists", "restart"}
        /\ \A i \in Indices : res'[i] = res[i]
    BY <2>1, ResultStep DEF Copying
  <2>3. res' = res
    BY <2>1 DEF Result, IInv, TypeOK
  <2>4. TypeOK'
    BY <2>1, <2>2, <2>3 DEF IInv, TypeOK, Snapshots
  <2>5. OwedInv'
    BY DEF IInv, OwedInv, PhaseInv, Copying
  <2>6. RepoInv'
    BY <2>1, <2>2, <2>3 DEF IInv, RepoInv, Newest, Of, Distinct, Indices, V
  <2>7. GoodSurvives'
    <3> SUFFICES ASSUME Distinct, NEW v \in Volumes, Of(verified', v) # {}
                 PROVE  \E s \in Of(repo, v) : s.id \notin bad
      BY DEF GoodSurvives, ReadableStays, Distinct, Indices, Of
    <3>1. CASE Of(verified, v) # {}
      BY <3>1 DEF IInv, GoodSurvives, ReadableStays
    <3>2. CASE Of(verified, v) = {}
      <4>1. v = V /\ snap \in Of(repo, v)
        BY <2>1, <3>2 DEF Of
      <4> QED
        BY <4>1
    <3> QED
      BY <3>1, <3>2
  <2> QED
    BY <2>2, <2>4, <2>5, <2>6, <2>7 DEF IInv
<1> QED
  BY <1>2, <1>3 DEF ReadBack

\* A container leaves the list as it is started.
LEMMA RestartPreserves == ASSUME IInv, Restart PROVE IInv'
<1> DEFINE c == stopped[Len(stopped)]
<1>1. /\ pc = "restart" /\ pc' = pc /\ stopped' = SubSeq(stopped, 1, Len(stopped) - 1)
      /\ owed' = owed \ {c} /\ failed' \subseteq failed \cup {c} /\ running' \subseteq running \cup {c}
      /\ UNCHANGED <<work, vi, todo, res, status, expired, repository, runs>>
  BY DEF Restart
<1>2. /\ c \in Containers /\ stopped' \in Seq(Containers)
      /\ Elements(stopped) = Elements(stopped') \cup {c}
  BY <1>1, ElementsOfFront DEF Restart, IInv, TypeOK
<1> USE <1>1, <1>2 DEF work, repository
<1>3. TypeOK'
  BY DEF IInv, TypeOK, Snapshots
<1>4. PhaseInv' /\ StopInv'
  BY DEF IInv, PhaseInv, StopInv, Copied, Copying
<1>5. OwedInv'
  BY DEF IInv, OwedInv
<1>6. RepoInv' /\ GoodSurvives'
  BY ResultsStay
<1> QED
  BY <1>3, <1>4, <1>5, <1>6 DEF IInv

\* The list is empty: retention, or the report of a run that was broken off.
LEMMA RestartedPreserves == ASSUME IInv, Restarted PROVE IInv'
<1> USE DEF Restarted, work, host, repository
<1>1. TypeOK'
  BY DEF IInv, TypeOK, Snapshots
<1>2. PhaseInv' /\ StopInv' /\ OwedInv'
  BY DEF IInv, PhaseInv, StopInv, OwedInv, Copied, Copying
<1>3. RepoInv' /\ GoodSurvives'
  BY ResultsStay
<1> QED
  BY <1>1, <1>2, <1>3 DEF IInv

\* What retention writes into a result.
LEMMA RetainedStep ==
  ASSUME IInv, pc \in {"retain", "forget"}, Eligible, NEW r \in Retentions, Retained(r)
  PROVE  /\ res' \in [Indices -> [status : Statuses, snap : 0 .. ids, retention : Retentions]]
         /\ \A i \in Indices : res'[i].status # "none"
         /\ \A i \in Indices : res'[i].snap = res[i].snap
         /\ \A i \in Indices : res'[i].status \in {"success", "warning"}
                                 => res[i].status \in {"success", "warning"}
<1>1. /\ res \in [Indices -> [status : Statuses, snap : 0 .. ids, retention : Retentions]]
      /\ vi \in Indices
  BY DEF IInv, TypeOK, Statuses, Retentions
<1>2. \A i \in Indices : res[i].status # "none"
  BY DEF IInv, PhaseInv, Copied
<1> DEFINE st == IF r # "applied" /\ res[vi].status = "success" THEN "warning" ELSE res[vi].status
<1>3. res' = [res EXCEPT ![vi] = [[res[vi] EXCEPT !.retention = r] EXCEPT !.status = st]]
  BY <1>1 DEF Retained
<1>4. /\ res'[vi] = [status |-> st, snap |-> res[vi].snap, retention |-> r]
      /\ DOMAIN res' = Indices /\ \A i \in Indices : i # vi => res'[i] = res[i]
  BY <1>1, <1>3
<1>5. res[vi].status \in {"success", "warning"}
  BY <1>1, <1>2 DEF Eligible, Statuses
<1>6. [status |-> st, snap |-> res[vi].snap, retention |-> r]
        \in [status : Statuses, snap : 0 .. ids, retention : Retentions]
  BY <1>1, <1>5 DEF Statuses
<1> QED
  BY <1>1, <1>2, <1>3, <1>4, <1>5, <1>6

\* Where retention of a volume leads to.
LEMMA NextRetentionStep ==
  ASSUME IInv, pc \in {"retain", "forget"}, NextRetention,
         res' \in [Indices -> [status : Statuses, snap : 0 .. ids, retention : Retentions]],
         \A i \in Indices : res'[i].status # "none",
         UNCHANGED <<faults, mode, stopped, failed, owed, before>>
  PROVE  /\ vi' \in Indices /\ status' \in {"success", "warning", "error"}
         /\ pc' \in {"retain", "report"}
         /\ PhaseInv' /\ StopInv' /\ OwedInv'
<1>1. vi \in Indices /\ vi \in Nat /\ vi >= 1 /\ vi <= Len(Request) /\ Len(Request) \in Nat /\ 1 \in Indices
  BY RequestType DEF IInv, TypeOK
<1>2. stopped = <<>> /\ status = "success"
  BY DEF IInv, PhaseInv
<1>3. vi' \in Indices /\ pc' \in {"retain", "report"}
  BY <1>1 DEF NextRetention, Indices
<1>4. /\ status' \in {"success", "warning", "error"} /\ (pc' = "retain" => status' = "success")
      /\ pc' = "report" /\ status' = "success" =>
           failed = {} /\ \A i \in Indices : res'[i].status = "success"
  <2>1. CASE pc' = "retain" /\ status' = status
    BY <1>2, <2>1
  <2>2. CASE /\ pc' = "report"
             /\ status' = IF \E i \in Indices : res'[i].status = "error" THEN "error"
                          ELSE IF failed # {} \/ \E i \in Indices : res'[i].status = "warning"
                               THEN "warning" ELSE "success"
    BY <2>2 DEF Statuses
  <2> QED
    BY <2>1, <2>2 DEF NextRetention
<1>5. PhaseInv' /\ StopInv'
  BY <1>2, <1>3, <1>4 DEF PhaseInv, StopInv, Copied, Copying
<1>6. OwedInv'
  BY <1>2 DEF IInv, OwedInv
<1> QED
  BY <1>3, <1>4, <1>5, <1>6

\* A volume that has nothing to retain, or keeps all.
LEMMA SkipRetentionPreserves == ASSUME IInv, SkipRetention PROVE IInv'
<1> USE DEF SkipRetention, work, host, repository
<1>1. /\ res' \in [Indices -> [status : Statuses, snap : 0 .. ids, retention : Retentions]]
      /\ \A i \in Indices : res'[i].status # "none"
  BY DEF IInv, TypeOK, PhaseInv, Copied, Statuses, Retentions
<1>2. /\ vi' \in Indices /\ status' \in {"success", "warning", "error"}
      /\ pc' \in {"retain", "report"} /\ PhaseInv' /\ StopInv' /\ OwedInv'
  BY <1>1, NextRetentionStep
<1>3. TypeOK'
  BY <1>2 DEF IInv, TypeOK, Snapshots
<1>4. RepoInv' /\ GoodSurvives'
  BY <1>2, ResultsStay
<1> QED
  BY <1>2, <1>3, <1>4 DEF IInv

\* Retention goes ahead only with a plan that keeps something.
LEMMA DryRunPreserves == ASSUME IInv, DryRun PROVE IInv'
<1>1. /\ pc = "retain" /\ Eligible
      /\ UNCHANGED <<work, todo, stopped, failed, expired, host, repository, runs>>
  BY DEF DryRun
<1>2. CASE Kept(V) # {} /\ pc' = "forget" /\ UNCHANGED <<vi, res, status>>
  <2> USE <1>1, <1>2 DEF work, host, repository
  <2>1. keep' > 0
    <3>1. PICK s \in Of(repo, V) : Cardinality({t \in Of(repo, V) : t.id > s.id}) < keep
      BY DEF Kept
    <3>2. IsFiniteSet({t \in Of(repo, V) : t.id > s.id})
      <4>1. {t \in Of(repo, V) : t.id > s.id} \subseteq repo
        BY DEF Of
      <4> QED
        BY <4>1, FS_Subset DEF IInv, RepoInv
    <3>3. Cardinality({t \in Of(repo, V) : t.id > s.id}) \in Nat
      BY <3>2, FS_CardinalityType
    <3>4. keep \in Int
      BY BackupAssumption DEF IInv, TypeOK, NoRetention
    <3> QED
      BY <3>1, <3>3, <3>4
  <2>2. TypeOK'
    BY DEF IInv, TypeOK, Snapshots
  <2>3. PhaseInv' /\ StopInv' /\ OwedInv'
    BY DEF IInv, PhaseInv, StopInv, OwedInv, Copied, Copying
  <2>4. RepoInv'
    BY <2>1 DEF IInv, RepoInv, Newest, Of, Distinct, Indices, Eligible
  <2> QED
    BY <2>2, <2>3, <2>4, RepositoryStays DEF IInv
<1>3. ASSUME NEW r \in {"failed", "skipped"}, Retained(r), NextRetention PROVE IInv'
  <2> USE <1>1, <1>3 DEF work, host, repository
  <2>1. /\ res' \in [Indices -> [status : Statuses, snap : 0 .. ids, retention : Retentions]]
        /\ \A i \in Indices : res'[i].status # "none" /\ res'[i].snap = res[i].snap
        /\ \A i \in Indices : res'[i].status \in {"success", "warning"}
                                => res[i].status \in {"success", "warning"}
    <3>1. r \in Retentions
      BY DEF Retentions
    <3> QED
      BY <3>1, RetainedStep
  <2>2. /\ vi' \in Indices /\ status' \in {"success", "warning", "error"}
        /\ pc' \in {"retain", "report"} /\ PhaseInv' /\ StopInv' /\ OwedInv'
    BY <2>1, NextRetentionStep
  <2>3. TypeOK'
    BY <2>1, <2>2 DEF IInv, TypeOK, Snapshots, Statuses, Retentions
  <2>4. RepoInv'
    BY <2>1, <2>2 DEF IInv, RepoInv, Newest, Of, Distinct, Indices
  <2> QED
    BY <2>2, <2>3, <2>4, RepositoryStays DEF IInv
<1> QED
  BY <1>2, <1>3 DEF DryRun

\* restic forget leaves the newest snapshot of each volume, which was read back.
LEMMA ForgetOldSafe ==
  ASSUME IInv, pc = "forget", ForgetOld, UNCHANGED <<bad, verified>>
  PROVE  /\ repo' \subseteq repo /\ IsFiniteSet(repo') /\ GoodSurvives'
         /\ \A i \in Indices :
              Distinct /\ Newest(i) => [id |-> res[i].snap, vol |-> Request[i]] \in repo'
<1>1. repo' \subseteq repo
  BY DEF ForgetOld, Kept, Of
<1>2. IsFiniteSet(repo')
  BY <1>1, FS_Subset DEF IInv, RepoInv
<1>3. keep > 0 /\ vi \in Indices /\ res[vi].status \in {"success", "warning"}
  BY DEF IInv, TypeOK, PhaseInv, Copied, RepoInv, Eligible
<1>4. \A s : s \in Of(repo, V) /\ (\A t \in Of(repo, V) : ~(t.id > s.id)) => s \in Kept(V)
  <2> SUFFICES ASSUME NEW s \in Of(repo, V), \A t \in Of(repo, V) : ~(t.id > s.id)
               PROVE  s \in Kept(V)
    OBVIOUS
  <2>1. {t \in Of(repo, V) : t.id > s.id} = {}
    OBVIOUS
  <2>2. Cardinality({t \in Of(repo, V) : t.id > s.id}) = 0
    BY <2>1, FS_EmptySet
  <2> QED
    BY <1>3, <2>2 DEF Kept
<1>5. ASSUME NEW i \in Indices, Newest(i)
      PROVE  [id |-> res[i].snap, vol |-> Request[i]] \in repo'
  <2> DEFINE s == [id |-> res[i].snap, vol |-> Request[i]]
  <2>1. s \in repo /\ s \in Of(repo, Request[i]) /\ \A t \in Of(repo, Request[i]) : t.id <= s.id
    BY <1>5 DEF Newest, Of
  <2>2. CASE Request[i] # V
    BY <2>1, <2>2 DEF ForgetOld, Of
  <2>3. CASE Request[i] = V
    <3>1. \A t \in Of(repo, V) : ~(t.id > s.id)
      BY <2>1, <2>3 DEF Of, IInv, TypeOK, Snapshots
    <3>2. s \in Kept(V)
      BY <1>4, <2>1, <2>3, <3>1
    <3> QED
      BY <3>2 DEF ForgetOld
  <2> QED
    BY <2>2, <2>3
<1>6. GoodSurvives'
  <2> SUFFICES ASSUME Distinct, NEW v \in Volumes, Of(verified, v) # {}
               PROVE  \E s \in Of(repo', v) : s.id \notin bad
    BY DEF GoodSurvives, ReadableStays, Distinct, Indices, Of
  <2>1. CASE v # V
    <3>1. PICK s \in Of(repo, v) : s.id \notin bad
      BY DEF IInv, GoodSurvives, ReadableStays
    <3>2. s \in Of(repo', v)
      BY <2>1, <3>1 DEF ForgetOld, Of
    <3> QED
      BY <3>1, <3>2
  <2>2. CASE v = V
    <3> DEFINE s == [id |-> res[vi].snap, vol |-> Request[vi]]
    <3>1. Newest(vi) /\ s \in verified
      BY <1>3 DEF IInv, RepoInv
    <3>2. s \in repo' /\ s.id \notin bad
      BY <1>3, <1>5, <3>1 DEF IInv, RepoInv
    <3> QED
      BY <2>2, <3>2 DEF Of, V
  <2> QED
    BY <2>1, <2>2
<1> QED
  BY <1>1, <1>2, <1>5, <1>6

\* What retention removes is older than every result of the run.
LEMMA ForgetPreserves == ASSUME IInv, Forget PROVE IInv'
<1>1. /\ pc = "forget" /\ Eligible
      /\ UNCHANGED <<work, todo, stopped, failed, expired, host, bad, ids, verified, runs>>
  BY DEF Forget, IInv, RepoInv
<1>2. PICK r \in {"applied", "failed"} : Retained(r) /\ NextRetention
  BY DEF Forget
<1>3. ForgetOld \/ UNCHANGED repo
  BY DEF Forget
<1> USE <1>1, <1>2 DEF work, host
<1>4. /\ repo' \subseteq repo /\ IsFiniteSet(repo') /\ GoodSurvives'
      /\ \A i \in Indices :
           Distinct /\ Newest(i) => [id |-> res[i].snap, vol |-> Request[i]] \in repo'
  <2>1. CASE ForgetOld
    BY <2>1, ForgetOldSafe
  <2>2. CASE UNCHANGED repo
    BY <2>2, RepositoryStays DEF IInv, RepoInv, Newest, repository
  <2> QED
    BY <1>3, <2>1, <2>2
<1>5. /\ res' \in [Indices -> [status : Statuses, snap : 0 .. ids, retention : Retentions]]
      /\ \A i \in Indices : res'[i].status # "none" /\ res'[i].snap = res[i].snap
      /\ \A i \in Indices : res'[i].status \in {"success", "warning"}
                              => res[i].status \in {"success", "warning"}
  <2>1. r \in Retentions
    BY DEF Retentions
  <2> QED
    BY <2>1, RetainedStep
<1>6. /\ vi' \in Indices /\ status' \in {"success", "warning", "error"}
      /\ pc' \in {"retain", "report"} /\ PhaseInv' /\ StopInv' /\ OwedInv'
  BY <1>5, NextRetentionStep
<1>7. TypeOK'
  BY <1>4, <1>5, <1>6 DEF IInv, TypeOK, Snapshots, Statuses, Retentions
<1>8. RepoInv'
  BY <1>4, <1>5, <1>6 DEF IInv, RepoInv, Newest, Of, Distinct, Indices
<1> QED
  BY <1>4, <1>6, <1>7, <1>8 DEF IInv

\* The end of a run and the expiry of its context change nothing of this.
LEMMA ReportPreserves == ASSUME IInv, Report PROVE IInv'
<1> USE DEF Report, work, host, repository
<1>1. TypeOK'
  BY DEF IInv, TypeOK, Snapshots
<1>2. PhaseInv' /\ StopInv' /\ OwedInv'
  BY DEF IInv, PhaseInv, StopInv, OwedInv, Copied, Copying
<1>3. RepoInv' /\ GoodSurvives'
  BY ResultsStay
<1> QED
  BY <1>1, <1>2, <1>3 DEF IInv

\* A crash takes the list of stopped containers with it; what a helper was
\* doing may still take effect.
LEMMA CrashPreserves == ASSUME IInv, Crash PROVE IInv'
<1> USE DEF Crash, work, host
<1>1. \A i \in Indices : res'[i] = Blank
  BY BlankResults
<1>2. /\ ids' \in Nat /\ repo' \subseteq Snapshots' /\ bad' \subseteq 1 .. ids'
      /\ verified' \subseteq Snapshots' /\ IsFiniteSet(repo') /\ \A s \in verified' : s.id \notin bad'
      /\ GoodSurvives'
  <2>1. CASE UNCHANGED repository
    BY <2>1, RepositoryStays DEF IInv, TypeOK, RepoInv, repository, Snapshots
  <2>2. CASE NewSnapshot
    BY <2>2, NewSnapshotSafe
  <2>3. CASE pc = "forget" /\ ForgetOld /\ UNCHANGED <<bad, ids, verified>>
    BY <2>3, ForgetOldSafe DEF IInv, TypeOK, RepoInv, Snapshots
  <2> QED
    BY <2>1, <2>2, <2>3
<1>3. TypeOK'
  <2>1. res' \in [Indices -> [status : Statuses, snap : 0 .. ids', retention : Retentions]]
    BY <1>2, BlankResults
  <2>2. <<>> \in Seq(Containers)
    BY EmptySeq
  <2> QED
    BY <1>2, <2>1, <2>2, RequestType DEF IInv, TypeOK, Statuses, Retentions
<1>4. PhaseInv' /\ StopInv'
  BY DEF PhaseInv, StopInv, Copied, Copying
<1>5. OwedInv'
  <2>1. ~(faults \cap {"crash", "stopLate"} = {})
    BY Zenon
  <2> QED
    BY <2>1 DEF OwedInv
<1>6. RepoInv'
  BY <1>1, <1>2, BlankResults DEF RepoInv
<1> QED
  BY <1>2, <1>3, <1>4, <1>5, <1>6 DEF IInv

\* Time, other people, and steps of other parts of the program.
LEMMA OthersPreserve == ASSUME IInv, Expire \/ User \/ UNCHANGED vars PROVE IInv'
<1>1. /\ UNCHANGED <<faults, pc, mode, keep, before, vi, todo, stopped, failed, res, status>>
      /\ UNCHANGED <<repo, bad, ids, verified, runs>>
      /\ expired' \in BOOLEAN /\ running' \subseteq Containers /\ owed' \subseteq owed
      /\ "user" \notin faults => running' = running
  <2>1. CASE Expire
    BY <2>1 DEF Expire, work, host, repository, IInv, TypeOK
  <2>2. CASE User
    BY <2>2 DEF User, work, repository, IInv, TypeOK
  <2>3. CASE UNCHANGED vars
    BY <2>3 DEF vars, IInv, TypeOK
  <2> QED
    BY <2>1, <2>2, <2>3
<1> USE <1>1
<1>2. TypeOK'
  BY DEF IInv, TypeOK, Snapshots
<1>3. PhaseInv'
  BY DEF IInv, PhaseInv, Copied, Copying
<1>4. StopInv'
  BY DEF IInv, StopInv, Copying, V
<1>5. OwedInv'
  BY DEF IInv, OwedInv
<1>6. RepoInv' /\ GoodSurvives'
  BY RepositoryStays DEF IInv, RepoInv, Newest, Of, Distinct, Indices, Eligible, repository
<1> QED
  BY <1>2, <1>3, <1>4, <1>5, <1>6 DEF IInv

-----------------------------------------------------------------------------
(* The theorems.                                                           *)

\* The invariant is inductive.
LEMMA StepPreserves == ASSUME IInv, [Next]_vars PROVE IInv'
<1>1. CASE Start \/ CatConfig
  BY <1>1, StartPreserves, CatConfigPreserves
<1>2. CASE Stop
  BY <1>2, ListUsersPreserves, StopUserPreserves, StopNextVolumePreserves DEF Stop
<1>3. CASE Copy
  BY <1>3, VolumeExistsPreserves, BackupPreserves, ReadBackPreserves DEF Copy
<1>4. CASE Restart \/ Restarted
  BY <1>4, RestartPreserves, RestartedPreserves
<1>5. CASE Retain
  BY <1>5, SkipRetentionPreserves, DryRunPreserves, ForgetPreserves DEF Retain
<1>6. CASE Report \/ Crash
  BY <1>6, ReportPreserves, CrashPreserves
<1>7. CASE Expire \/ User \/ UNCHANGED vars
  BY <1>7, OthersPreserve
<1> QED
  BY <1>1, <1>2, <1>3, <1>4, <1>5, <1>6, <1>7 DEF Next, Step

\* It holds of every run, whatever faults are possible.
LEMMA InvariantHolds == Spec => []IInv
<1>1. IInv /\ [Next]_vars => IInv'
  BY StepPreserves
<1> QED
  BY InitInv, <1>1, PTL DEF Spec

\* The state of a backup run has its types.
THEOREM TypeCorrect == Spec => []TypeOK
<1>1. IInv => TypeOK
  BY DEF IInv
<1> QED
  BY InvariantHolds, <1>1, PTL

\* stopUsers: a volume is copied with none of its users running, for any number
\* of volumes and any sharing of them.
THEOREM QuiescedCopyHolds == Spec => []QuiescedCopy
<1>1. IInv => QuiescedCopy
  BY DEF IInv, TypeOK, StopInv, QuiescedCopy, Copying, V
<1> QED
  BY InvariantHolds, <1>1, PTL

\* backup's deferred restart: no error path leaves a container down that the
\* run stopped and did not try to start.
THEOREM StartedAgainHolds == Spec => []StartedAgain
<1>1. IInv => StartedAgain
  BY ElementsOfEmpty DEF IInv, PhaseInv, OwedInv, StartedAgain
<1> QED
  BY InvariantHolds, <1>1, PTL

\* backup: the containers of the run are started before applyRetention.
THEOREM BackBeforeRetentionHolds == Spec => []BackBeforeRetention
<1>1. IInv => BackBeforeRetention
  BY ElementsOfEmpty DEF IInv, PhaseInv, OwedInv, BackBeforeRetention
<1> QED
  BY InvariantHolds, <1>1, PTL

\* applyRetention never removes the last readable snapshot of a volume, whatever
\* is kept and whatever snapshots earlier runs left, if no volume is asked for
\* twice.
THEOREM GoodSurvivesHolds == Spec => []GoodSurvives
<1>1. IInv => GoodSurvives
  BY DEF IInv
<1> QED
  BY InvariantHolds, <1>1, PTL

\* A report of success is true of the repository and of the containers.
THEOREM SuccessIsTrueHolds == Spec => []SuccessIsTrue
<1>1. IInv => SuccessIsTrue
  <2> SUFFICES ASSUME IInv, Distinct, pc = "report", status = "success"
               PROVE  /\ failed = {}
                      /\ \A i \in Indices :
                           [id |-> res[i].snap, vol |-> Request[i]] \in verified \cap repo
    BY DEF SuccessIsTrue
  <2>1. failed = {} /\ \A i \in Indices : res[i].status = "success"
    BY DEF IInv, PhaseInv
  <2>2. ASSUME NEW i \in Indices
        PROVE  [id |-> res[i].snap, vol |-> Request[i]] \in verified \cap repo
    BY <2>1 DEF IInv, RepoInv, Newest
  <2> QED
    BY <2>1, <2>2
<1> QED
  BY InvariantHolds, <1>1, PTL

=============================================================================

-------------------------- MODULE BackupHostProofs --------------------------
(***************************************************************************)
(* Backup sessions of any number of runs, quick actions and tunnels: one   *)
(* run works at a time, a finished session leaves no share volume, and the *)
(* reaper of an only tunnel touches nothing that is in use.                *)
(***************************************************************************)
EXTENDS BackupHost, TLAPS

\* The gate belongs to the run that works; only a run reports.
GateInv ==
  /\ \A i \in Runs : session[i] \in Active <=> gate = i
  /\ \A i \in Quicks : session[i] # "reporting"
  /\ gate # None => attempts < MaxAttempts

\* A session that has not run a helper yet, or is between two, has none.
HelperInv ==
  \A i \in Ids : session[i] \in {"none", "waiting", "creating", "open"} => i \notin helpers

\* Without the faults that leave something behind, a share volume belongs to a
\* session at work or to a dead one, and so does a helper.
CleanInv ==
  faults \cap {"probe", "create", "docker"} = {} =>
    \A i \in Ids :
      /\ session[i] \in {"none", "waiting", "creating", "reporting", "done"} => vols[i] = "none"
      /\ i \in helpers => session[i] \in {"helper", "dead"}

\* Without a second enrolment a process has one tunnel, and until that one is
\* connected no session.
LoneInv ==
  "reenroll" \notin faults =>
    /\ tunnelStarted \/ \A t \in Tunnels : tunnel[t] = "none"
    /\ \A t, u \in Tunnels : tunnel[t] # "none" /\ tunnel[u] # "none" => t = u
    /\ \/ \E t \in Tunnels : tunnel[t] = "connected"
       \/ \A i \in Ids : session[i] \in {"none", "done", "dead"}

IInv == TypeOK /\ GateInv /\ HelperInv /\ CleanInv /\ LoneInv

-----------------------------------------------------------------------------
(* The initial state, and one lemma per part of the program.               *)

\* Nothing has happened yet.
LEMMA InitInv == Init => IInv
<1> SUFFICES ASSUME Init PROVE IInv
  OBVIOUS
<1> USE HostAssumption DEF Init
<1>1. TypeOK
  <2>1. /\ session \in [Ids -> Active \cup {"none", "waiting", "done", "dead"}]
        /\ vols \in [Ids -> {"none", "share", "empty"}] /\ helpers \subseteq Ids /\ reported \subseteq Runs
    OBVIOUS
  <2>2. /\ tunnel \in [Tunnels -> {"none", "listHelpers", "removeHelpers",
                                  "listVolumes", "removeVolumes", "connected"}]
        /\ doomed \in [Tunnels -> SUBSET Ids]
    OBVIOUS
  <2>3. alive \in BOOLEAN /\ tunnelStarted \in BOOLEAN
    OBVIOUS
  <2>4. faults \in FaultModels /\ gate \in Runs \cup {None} /\ attempts \in 0 .. MaxAttempts
    OBVIOUS
  <2> QED
    BY <2>1, <2>2, <2>3, <2>4 DEF TypeOK
<1>2. /\ \A i \in Ids : session[i] = "none" /\ vols[i] = "none"
      /\ \A t \in Tunnels : tunnel[t] = "none"
  OBVIOUS
<1>3. GateInv
  BY <1>2 DEF GateInv, Active, Ids
<1>4. HelperInv /\ CleanInv /\ LoneInv
  BY <1>2 DEF HelperInv, CleanInv, LoneInv
<1> QED
  BY <1>1, <1>3, <1>4 DEF IInv

\* The poll loop starts a tunnel, at first the only one.
LEMMA PollLoopPreserves == ASSUME IInv, Boot \/ StartTunnel \/ Reenroll PROVE IInv'
<1>1. CASE Boot \/ Reenroll
  <2> USE <1>1 DEF Boot, Reenroll, reaper, docker, report
  <2>1. TypeOK'
    BY DEF IInv, TypeOK
  <2>2. GateInv' /\ HelperInv' /\ CleanInv' /\ LoneInv'
    BY DEF IInv, GateInv, HelperInv, CleanInv, LoneInv
  <2> QED
    BY <2>1, <2>2 DEF IInv
<1>2. CASE StartTunnel
  <2>1. PICK t \in Tunnels : tunnel[t] = "none" /\ tunnel' = [tunnel EXCEPT ![t] = "listHelpers"]
    BY <1>2 DEF StartTunnel
  <2> USE <1>2, <2>1 DEF StartTunnel, docker, report
  <2>2. TypeOK'
    BY DEF IInv, TypeOK
  <2>3. GateInv' /\ HelperInv' /\ CleanInv'
    BY DEF IInv, GateInv, HelperInv, CleanInv
  <2>4. LoneInv'
    BY DEF IInv, TypeOK, LoneInv
  <2> QED
    BY <2>2, <2>3, <2>4 DEF IInv
<1> QED
  BY <1>1, <1>2

\* The reaper only removes.
LEMMA ReapPreserves == ASSUME IInv, NEW t \in Tunnels, Reap(t) PROVE IInv'
<1>1. /\ UNCHANGED <<faults, alive, tunnelStarted, session, gate, attempts, reported>>
      /\ helpers' \subseteq helpers
      /\ vols' \in [Ids -> {"none", "share", "empty"}]
      /\ \A i \in Ids : vols'[i] \in {vols[i], "none"}
      /\ doomed' \in [Tunnels -> SUBSET Ids]
  BY DEF Reap, ListHelpers, RemoveHelpers, ListVolumes, RemoveVolumes,
         process, report, docker, IInv, TypeOK
<1>2. \E s \in {"removeHelpers", "listVolumes", "removeVolumes", "connected"} :
        tunnel' = [tunnel EXCEPT ![t] = s]
  BY DEF Reap, ListHelpers, RemoveHelpers, ListVolumes, RemoveVolumes
<1>3. tunnel[t] \notin {"none", "connected"}
  BY DEF Reap, ListHelpers, RemoveHelpers, ListVolumes, RemoveVolumes
<1>4. TypeOK'
  BY <1>1, <1>2 DEF IInv, TypeOK
<1>5. GateInv' /\ HelperInv' /\ CleanInv'
  BY <1>1 DEF IInv, GateInv, HelperInv, CleanInv
<1>6. LoneInv'
  BY <1>1, <1>2, <1>3 DEF IInv, TypeOK, LoneInv
<1> QED
  BY <1>4, <1>5, <1>6 DEF IInv

\* A session is accepted from a connected tunnel, and a run takes a free gate.
LEMMA AcceptPreserves ==
  ASSUME IInv, NEW i \in Ids, Accept(i) \/ (i \in Runs /\ TakeGate(i))
  PROVE  IInv'
<1> USE HostAssumption DEF Accept, TakeGate, Move, process, reaper, docker, report
<1>1. TypeOK'
  BY DEF IInv, TypeOK, Active
<1>2. GateInv'
  BY DEF IInv, TypeOK, GateInv, Ids, Active
<1>3. HelperInv' /\ CleanInv'
  BY DEF IInv, TypeOK, HelperInv, CleanInv
<1>4. LoneInv'
  BY DEF IInv, TypeOK, LoneInv
<1> QED
  BY <1>1, <1>2, <1>3, <1>4 DEF IInv

\* A session at work, up to its report.
LEMMA SessionPreserves ==
  ASSUME IInv, NEW i \in Ids,
         CreateVolume(i) \/ RunHelper(i) \/ HelperDone(i) \/ ProbeTimeout(i) \/ Close(i)
  PROVE  IInv'
<1> DEFINE was == session[i]
           is  == session'[i]
<1>1. /\ UNCHANGED <<faults, alive, tunnelStarted, tunnel, doomed, gate, attempts, reported>>
      /\ \A j \in Ids \ {i} : session'[j] = session[j] /\ vols'[j] = vols[j]
      /\ \A j \in Ids \ {i} : j \in helpers' <=> j \in helpers
      /\ helpers' \subseteq Ids
      /\ session' \in [Ids -> Active \cup {"none", "waiting", "done", "dead"}]
      /\ vols' \in [Ids -> {"none", "share", "empty"}]
  BY DEF CreateVolume, RunHelper, HelperDone, ProbeTimeout, Close, Move, AfterClose,
         process, reaper, docker, report, Active, IInv, TypeOK
<1>2. /\ was \in {"creating", "open", "helper", "closing"}
      /\ is \in {"open", "helper", "closing", "reporting", "done"}
      /\ is = "reporting" => i \in Runs
      /\ is = "done" => i \notin Runs
      /\ is = "open" => i \notin helpers'
  BY DEF CreateVolume, RunHelper, HelperDone, ProbeTimeout, Close, Move, AfterClose,
         IInv, TypeOK, HelperInv
<1>3. TypeOK'
  BY <1>1 DEF IInv, TypeOK
<1>4. GateInv'
  BY <1>1, <1>2, HostAssumption DEF IInv, GateInv, Ids, Active
<1>5. HelperInv'
  BY <1>1, <1>2 DEF IInv, HelperInv
<1>6. CleanInv'
  <2> SUFFICES ASSUME faults \cap {"probe", "create", "docker"} = {} PROVE CleanInv'
    BY <1>1 DEF CleanInv
  <2>1. "probe" \notin faults /\ "create" \notin faults /\ "docker" \notin faults
    OBVIOUS
  <2>2. /\ was \in {"creating"} => vols[i] = "none"
        /\ i \in helpers => was = "helper"
    BY <1>2 DEF IInv, CleanInv
  <2>3. /\ is \in {"reporting", "done"} => vols'[i] = "none"
        /\ i \in helpers' => is = "helper"
    BY <2>1, <2>2 DEF CreateVolume, RunHelper, HelperDone, ProbeTimeout, Close, Move, AfterClose, IInv, TypeOK
  <2> QED
    BY <1>1, <1>2, <2>3 DEF IInv, CleanInv
<1>7. LoneInv'
  BY <1>1, <1>2 DEF IInv, LoneInv
<1> QED
  BY <1>3, <1>4, <1>5, <1>6, <1>7 DEF IInv

\* The report is sent with the gate held, and at the last attempt it is free.
LEMMA ReportPreserves == ASSUME IInv, NEW i \in Ids, Report(i) PROVE IInv'
<1>1. /\ UNCHANGED <<faults, alive, tunnelStarted, tunnel, doomed, vols, helpers>>
      /\ session[i] = "reporting"
      /\ reported' \subseteq reported \cup {i}
  BY DEF Report, process, reaper, docker, report, Release, Move
<1>2. i \in Runs /\ gate = i /\ gate # None /\ attempts < MaxAttempts
  BY <1>1, HostAssumption DEF IInv, GateInv, Ids, Active
<1>3. \/ Move(i, "done") /\ gate' = None
      \/ UNCHANGED <<session, gate>> /\ attempts' # MaxAttempts
  BY DEF Report, Release
<1>4. attempts' \in 0 .. MaxAttempts
  BY <1>2, HostAssumption DEF Report, IInv, TypeOK, report
<1>5. TypeOK'
  BY <1>1, <1>2, <1>3, <1>4 DEF IInv, TypeOK, Move
<1>6. GateInv'
  <2>1. CASE Move(i, "done") /\ gate' = None
    BY <1>2, <2>1, HostAssumption DEF IInv, TypeOK, GateInv, Ids, Active, Move
  <2>2. CASE UNCHANGED <<session, gate>> /\ attempts' # MaxAttempts
    BY <1>4, <2>2, HostAssumption DEF IInv, GateInv
  <2> QED
    BY <1>3, <2>1, <2>2
<1>7. HelperInv' /\ CleanInv' /\ LoneInv'
  BY <1>1, <1>3 DEF IInv, TypeOK, HelperInv, CleanInv, LoneInv, Move
<1> QED
  BY <1>5, <1>6, <1>7 DEF IInv

\* A helper nobody waits for ends.
LEMMA OrphanPreserves == ASSUME IInv, NEW i \in Ids, OrphanEnds(i) PROVE IInv'
<1> USE DEF OrphanEnds, process, reaper, report
<1>1. TypeOK'
  BY DEF IInv, TypeOK
<1>2. GateInv' /\ HelperInv' /\ CleanInv' /\ LoneInv'
  BY DEF IInv, GateInv, HelperInv, CleanInv, LoneInv
<1> QED
  BY <1>1, <1>2 DEF IInv

\* A crash ends every session, and the gate and the tunnels with it.
LEMMA CrashPreserves == ASSUME IInv, Crash PROVE IInv'
<1> USE HostAssumption DEF Crash, docker
<1>1. TypeOK'
  <2>1. session' \in [Ids -> Active \cup {"none", "waiting", "done", "dead"}]
    BY DEF IInv, TypeOK
  <2>2. doomed' \in [Tunnels -> SUBSET Ids] /\ alive' \in BOOLEAN /\ tunnelStarted' \in BOOLEAN
    OBVIOUS
  <2> QED
    BY <2>1, <2>2 DEF IInv, TypeOK
<1>2. GateInv' /\ HelperInv' /\ CleanInv' /\ LoneInv'
  BY DEF IInv, TypeOK, GateInv, HelperInv, CleanInv, LoneInv, Ids, Active
<1> QED
  BY <1>1, <1>2 DEF IInv

-----------------------------------------------------------------------------
(* The theorems.                                                           *)

\* The invariant is inductive.
LEMMA StepPreserves == ASSUME IInv, [Next]_vars PROVE IInv'
<1>1. CASE Boot \/ StartTunnel \/ Reenroll \/ Crash
  BY <1>1, PollLoopPreserves, CrashPreserves
<1>2. CASE \E t \in Tunnels : Reap(t)
  BY <1>2, ReapPreserves
<1>3. CASE \E i \in Ids : Accept(i) \/ Work(i) \/ ProbeTimeout(i) \/ OrphanEnds(i)
  BY <1>3, AcceptPreserves, SessionPreserves, ReportPreserves, OrphanPreserves DEF Work
<1>4. CASE \E i \in Runs : TakeGate(i)
  BY <1>4, AcceptPreserves DEF Ids
<1>5. CASE UNCHANGED vars
  <2> USE <1>5 DEF vars
  <2>1. TypeOK'
    BY DEF IInv, TypeOK
  <2>2. GateInv' /\ HelperInv' /\ CleanInv' /\ LoneInv'
    BY DEF IInv, GateInv, HelperInv, CleanInv, LoneInv
  <2> QED
    BY <2>1, <2>2 DEF IInv
<1> QED
  BY <1>1, <1>2, <1>3, <1>4, <1>5 DEF Next

\* It holds of every host, whatever faults are possible.
LEMMA InvariantHolds == Spec => []IInv
<1>1. IInv /\ [Next]_vars => IInv'
  BY StepPreserves
<1> QED
  BY InitInv, <1>1, PTL DEF Spec

\* The state of sessions, tunnels and docker has its types; in particular a
\* report is attempted at most MaxAttempts times.
THEOREM TypeCorrect == Spec => []TypeOK
<1>1. IInv => TypeOK
  BY DEF IInv
<1> QED
  BY InvariantHolds, <1>1, PTL

\* backupGate: of any number of runs at most one works, across crashes and
\* reports that are given up.
THEOREM OneRunAtATimeHolds == Spec => []OneRunAtATime
<1>1. IInv => OneRunAtATime
  BY HostAssumption DEF IInv, GateInv, OneRunAtATime
<1> QED
  BY InvariantHolds, <1>1, PTL

\* Close: the share volume, with its password, is gone before the report.
THEOREM RemovedAtEndHolds == Spec => []RemovedAtEnd
<1>1. IInv => RemovedAtEnd
  BY DEF IInv, CleanInv, RemovedAtEnd
<1> QED
  BY InvariantHolds, <1>1, PTL

\* No step of the agent takes a helper or a share volume from a session at work
\* if its process has one tunnel.
LEMMA StepSparesLive ==
  ASSUME IInv, [Next]_vars, "reenroll" \notin faults PROVE SparesLive \/ UNCHANGED vars
<1>1. CASE \E t \in Tunnels : Reap(t)
  <2>1. PICK t \in Tunnels : tunnel[t] \notin {"none", "connected"}
    BY <1>1 DEF Reap, ListHelpers, RemoveHelpers, ListVolumes, RemoveVolumes
  <2>2. \A u \in Tunnels : tunnel[u] # "connected"
    BY <2>1 DEF IInv, LoneInv
  <2>3. \A i \in Ids : session[i] \in {"none", "done", "dead"}
    BY <2>2 DEF IInv, LoneInv
  <2> QED
    BY <2>3 DEF SparesLive
<1>2. CASE Boot \/ StartTunnel \/ Reenroll \/ Crash \/ (\E i \in Ids : Accept(i)) \/ \E i \in Runs : TakeGate(i)
  BY <1>2 DEF Boot, StartTunnel, Reenroll, Crash, Accept, TakeGate, docker, SparesLive
<1>3. ASSUME NEW i \in Ids, Work(i) \/ ProbeTimeout(i) \/ OrphanEnds(i) PROVE SparesLive
  <2>1. ASSUME NEW j \in Ids, j # i
        PROVE  (j \in helpers => j \in helpers') /\ vols'[j] = vols[j]
    BY <1>3, <2>1 DEF Work, CreateVolume, RunHelper, HelperDone, ProbeTimeout, Close, Report,
                      OrphanEnds, docker, IInv, TypeOK
  <2>2. ASSUME session[i] \in {"open", "helper"}, session'[i] = session[i]
        PROVE  (i \in helpers => i \in helpers') /\ vols'[i] = vols[i]
    BY <1>3, <2>2 DEF Work, CreateVolume, RunHelper, HelperDone, ProbeTimeout, Close, Report,
                      OrphanEnds, docker, Move, AfterClose, IInv, TypeOK, HelperInv
  <2> QED
    BY <2>1, <2>2 DEF SparesLive
<1> QED
  BY <1>1, <1>2, <1>3 DEF Next

\* reapBackupLeftovers spares what is in use, if the agent was not enrolled
\* again without a restart.
THEOREM ReaperSparesLiveHolds == Spec => ReaperSparesLive
<1>1. IInv /\ [Next]_vars => ["reenroll" \notin faults => SparesLive]_vars
  BY StepSparesLive
<1> QED
  BY InvariantHolds, <1>1, PTL DEF Spec, ReaperSparesLive

-----------------------------------------------------------------------------
(* The refinement of RunQueue.                                             *)

\* The run at work is the one that holds the gate.
LEMMA WorkingIsGate == ASSUME TypeOK, GateInv PROVE Working = gate
<1>1. CASE gate = None
  BY <1>1, HostAssumption DEF GateInv, Working
<1>2. CASE gate # None
  <2>1. gate \in Runs /\ \A i \in Runs : session[i] \in Active <=> i = gate
    BY <1>2 DEF TypeOK, GateInv
  <2> QED
    BY <2>1 DEF Working
<1> QED
  BY <1>1, <1>2

\* The same as an implication.
LEMMA GateHolds == IInv => Working = gate
  BY WorkingIsGate DEF IInv

\* After a step.
LEMMA GateHoldsNext == (IInv => Working = gate)'
  BY GateHolds, PTL

\* The state of the queue, in the variables of the code.
Waiting == {i \in Runs : session[i] = "waiting"}
Over    == {i \in Runs : session[i] \in {"done", "dead"}}

\* A step that moves no run in or out of the queue or its turn, and reports
\* nothing, is not seen.
LEMMA Unseen ==
  ASSUME UNCHANGED <<gate, reported>>, Working = gate, Working' = gate',
         \A i \in Runs : session'[i] \in {"waiting", "done", "dead"} \/ session[i] \in {"waiting", "done", "dead"}
                           => session'[i] = session[i]
  PROVE  UNCHANGED Queue!vars
<1>1. Waiting' = Waiting /\ Over' = Over
  BY DEF Waiting, Over
<1> QED
  BY <1>1 DEF Queue!vars, Waiting, Over

\* A run is accepted, and gets the gate when it is free.
LEMMA AcceptRefines ==
  ASSUME TypeOK, GateInv, Working = gate, Working' = gate',
         NEW i \in Ids, Accept(i) \/ (i \in Runs /\ TakeGate(i))
  PROVE  [Queue!Next]_(Queue!vars)
<1> USE DEF TypeOK, Move, report
<1>1. CASE Accept(i) /\ i \in Runs
  <2>1. Waiting' = Waiting \cup {i} /\ Over' = Over /\ UNCHANGED <<gate, reported>>
    BY <1>1 DEF Accept, Waiting, Over
  <2>2. i \notin Waiting \cup {gate} \cup Over
    BY <1>1 DEF Accept, Waiting, Over, GateInv, Active
  <2>3. Queue!Submit(i)
    BY <2>1, <2>2 DEF Queue!Submit, Waiting, Over
  <2> QED
    BY <1>1, <2>3 DEF Queue!Next
<1>2. CASE Accept(i) /\ i \notin Runs
  BY <1>2, Unseen DEF Accept
<1>3. CASE i \in Runs /\ TakeGate(i)
  <2>1. Waiting' = Waiting \ {i} /\ Over' = Over /\ i \in Waiting /\ gate = None /\ gate' = i
    BY <1>3 DEF TakeGate, Waiting, Over
  <2>2. Queue!Begin(i)
    BY <1>3, <2>1 DEF Queue!Begin, TakeGate, Waiting, Over
  <2> QED
    BY <1>3, <2>2 DEF Queue!Next
<1> QED
  BY <1>1, <1>2, <1>3

\* An attempt of the report arrives or not; the last one ends the turn.
LEMMA ReportRefines ==
  ASSUME TypeOK, GateInv, Working = gate, Working' = gate', NEW i \in Ids, Report(i)
  PROVE  [Queue!Next]_(Queue!vars)
<1> USE DEF TypeOK, Move, report
<1>1. i \in Runs /\ gate = i /\ gate # None
  BY HostAssumption DEF Report, GateInv, Ids, Active
<1>2. reported' \in {reported, reported \cup {gate}}
  BY <1>1 DEF Report
<1>3. CASE Release(i)
  <2>1. Waiting' = Waiting /\ Over' = Over \cup {i} /\ gate' = None
    BY <1>1, <1>3 DEF Report, Release, Waiting, Over
  <2>2. Queue!End
    BY <1>1, <1>2, <2>1 DEF Queue!End, Waiting, Over
  <2> QED
    BY <2>2 DEF Queue!Next
<1>4. CASE UNCHANGED <<session, gate>>
  <2>1. CASE reported' = reported
    BY <1>4, <2>1, Unseen
  <2>2. CASE reported' = reported \cup {gate}
    <3>1. Queue!Tell
      BY <1>1, <1>4, <2>2 DEF Queue!Tell
    <3> QED
      BY <3>1 DEF Queue!Next
  <2> QED
    BY <1>2, <2>1, <2>2
<1> QED
  BY <1>3, <1>4 DEF Report

\* Those at work and those that wait are over.
LEMMA CrashRefines ==
  ASSUME TypeOK, GateInv, Working = gate, Working' = gate', Crash
  PROVE  [Queue!Next]_(Queue!vars)
<1>1. Waiting' = {} /\ gate' = None /\ UNCHANGED reported
  BY DEF Crash, Waiting, Ids
<1>2. Over' = Over \cup Waiting \cup ({gate} \ {None})
  BY HostAssumption DEF Crash, Waiting, Over, Ids, TypeOK, GateInv, Active
<1>3. Queue!Die
  BY <1>1, <1>2 DEF Queue!Die, Waiting, Over
<1> QED
  BY <1>3 DEF Queue!Next

\* The sessions of any number of runs and tunnels, with any faults, implement
\* the queue: every step is one of the queue's or leaves it alone.
THEOREM RefinesQueue == Spec => QueueSpec
<1>1. Init => Queue!Init
  <2> SUFFICES ASSUME Init PROVE Queue!Init
    OBVIOUS
  <2>1. TypeOK /\ GateInv
    BY InitInv DEF IInv
  <2>2. Working = None
    BY <2>1, WorkingIsGate DEF Init
  <2> QED
    BY <2>2 DEF Init, Ids, Queue!Init
<1>2. ASSUME IInv, IInv', [Next]_vars PROVE [Queue!Next]_(Queue!vars)
  <2>1. TypeOK /\ GateInv /\ TypeOK' /\ GateInv' /\ Working = gate
    BY <1>2, WorkingIsGate DEF IInv
  <2>2. Working' = gate'
    BY <1>2, GateHoldsNext
  <2>3. CASE Crash \/ (\E i \in Ids : Accept(i) \/ Report(i)) \/ \E i \in Runs : TakeGate(i)
    BY <2>1, <2>2, <2>3, CrashRefines, AcceptRefines, ReportRefines DEF Ids
  <2>4. CASE Boot \/ StartTunnel \/ Reenroll \/ (\E t \in Tunnels : Reap(t)) \/ UNCHANGED vars
    <3>1. UNCHANGED <<session, gate, reported>>
      BY <2>4 DEF Boot, StartTunnel, Reenroll, Reap, ListHelpers, RemoveHelpers, ListVolumes,
                  RemoveVolumes, vars, report
    <3> QED
      BY <2>1, <2>2, <3>1, Unseen
  <2>5. ASSUME NEW i \in Ids, CreateVolume(i) \/ RunHelper(i) \/ HelperDone(i) \/ Close(i)
                              \/ ProbeTimeout(i) \/ OrphanEnds(i)
        PROVE  UNCHANGED Queue!vars
    <3>1. UNCHANGED <<gate, reported>>
      BY <2>5 DEF CreateVolume, RunHelper, HelperDone, Close, ProbeTimeout, OrphanEnds, report
    <3>2. \A j \in Runs :
            session'[j] \in {"waiting", "done", "dead"} \/ session[j] \in {"waiting", "done", "dead"}
              => session'[j] = session[j]
      BY <2>1, <2>5 DEF CreateVolume, RunHelper, HelperDone, Close, ProbeTimeout, OrphanEnds,
                        Move, AfterClose, TypeOK, Ids
    <3> QED
      BY <2>1, <2>2, <3>1, <3>2, Unseen
  <2> QED
    BY <1>2, <2>3, <2>4, <2>5 DEF Next, Work
<1> QED
  BY <1>1, <1>2, InvariantHolds, PTL DEF Spec, QueueSpec, Queue!Spec
=============================================================================

--------------------------- MODULE RotationProofs ---------------------------
(***************************************************************************)
(* Rotation is safe for every set of pairs and of faults, as long as       *)
(* os.Rename succeeds: no crash, torn write, lost or refused announcement, *)
(* and no reset of the controller, locks the agent out.                    *)
(***************************************************************************)
EXTENDS Rotation, TLAPS

Generating == pc \in {"openCert", "fillCert", "openKey", "fillKey"}

\* The current pair is usable, or the key alone was replaced and its
\* certificate is the prepared one.
FilesInv ==
  established =>
    \/ disk["cert"] \in Pairs /\ disk["key"] = disk["cert"]
    \/ /\ disk["cert"] \in Pairs
       /\ disk["key"] \in Pairs
       /\ disk["nextCert"] = disk["key"]
       /\ pc \in {"down", "commitCert"}

\* What each point of the program knows of the files.
ControlInv ==
  /\ pc \in {"idle", "prepare", "announce", "commitKey"} \/ (Generating /\ dest = "next")
       => established /\ mem \in Pairs /\ disk["cert"] = mem /\ disk["key"] = mem
  /\ pc \in {"announce", "commitKey"}
       => cand \in Pairs /\ disk["nextCert"] = cand /\ disk["nextKey"] = cand
  /\ pc = "commitCert"
       => /\ established
          /\ cand \in Pairs /\ disk["key"] = cand /\ disk["nextCert"] = cand
          /\ mem \in Pairs /\ disk["cert"] = mem
  /\ Generating => cand \in Pairs
  /\ Generating /\ dest = "current" => ~established
  /\ pc \in {"openKey", "fillKey"} => disk[CertFile] = cand
  /\ pc = "down" => mem = Absent
  /\ ~established => /\ ~Enrolled /\ mem = Absent /\ (pc = "down" \/ Generating)
                     /\ disk["key"] \notin Pairs /\ disk["nextCert"] = Absent

\* What the controller knows of the agent.
ControllerInv ==
  /\ ~Enrolled => ctl.next = Absent
  /\ Enrolled => BootIdentity \in Accepted /\ (mem # Absent => mem \in Accepted)
  /\ Enrolled /\ pc \in {"commitKey", "commitCert"} => ctl.cur = mem /\ cand \in Accepted

IInv == TypeOK /\ FilesInv /\ ControlInv /\ ControllerInv

\* A failed rename breaks it.
SafeInv == Promised => IInv

-----------------------------------------------------------------------------
(* The initial state.                                                      *)
LEMMA InitInv == Init => IInv
<1> SUFFICES ASSUME Init PROVE IInv
  OBVIOUS
<1>1. TypeOK
  <2>1. backoff \in BOOLEAN /\ established \in BOOLEAN
    BY DEF Init
  <2> QED
    BY <2>1 DEF Init, TypeOK, Files, Content, PCs
<1>2. FilesInv /\ ControlInv /\ ControllerInv
  BY PairsAssumption DEF Init, FilesInv, ControlInv, ControllerInv, Generating, Enrolled, Files
<1> QED
  BY <1>1, <1>2 DEF IInv

(* One lemma per part of the program: the step preserves the invariant.    *)

\* A start loads the current pair, finishes an interrupted commit, or generates.
LEMMA StartPreserves ==
  ASSUME IInv, LoadOrGenerate
  PROVE  IInv'
<1> USE PairsAssumption DEF IInv, TypeOK, Files, Content, PCs, Generating, Enrolled,
        Accepted, BootIdentity, Loads, CertFile
<1>1. CASE Loads("cert", "key") /\ Running(disk["cert"])
           /\ UNCHANGED <<disk, dest, cand, aged, backoff, ctl>>
  BY <1>1, SMTT(30) DEF FilesInv, ControlInv, ControllerInv, Running, LoadOrGenerate
<1>2. CASE /\ disk["cert"] # Absent /\ ~Loads("cert", "key") /\ Loads("nextCert", "key")
           /\ disk' = [disk EXCEPT !["cert"] = disk["nextCert"], !["nextCert"] = Absent]
           /\ Running(disk["nextCert"])
           /\ UNCHANGED <<dest, cand, aged, backoff, ctl>>
  BY <1>2, SMTT(30) DEF FilesInv, ControlInv, ControllerInv, Running, LoadOrGenerate
<1>3. CASE disk["cert"] = Absent /\ StartGenerate("current")
           /\ UNCHANGED <<disk, mem, established, backoff, ctl>>
  BY <1>3, SMTT(30) DEF FilesInv, ControlInv, ControllerInv, StartGenerate, Fresh, LoadOrGenerate
<1> QED
  BY <1>1, <1>2, <1>3 DEF LoadOrGenerate

\* The two files of a new pair are opened and filled one after the other.
LEMMA GeneratePreserves ==
  ASSUME IInv, Generate
  PROVE  IInv'
<1> USE PairsAssumption DEF IInv, TypeOK, Files, Content, PCs, Generating, Enrolled,
        Accepted, BootIdentity, Loads, CertFile, KeyFile
<1>1. CASE OpenFile
  BY <1>1, SMTT(30) DEF FilesInv, ControlInv, ControllerInv, OpenFile
<1>2. CASE FillCert
  BY <1>2, SMTT(30) DEF FilesInv, ControlInv, ControllerInv, FillCert
<1>3. CASE FillKey
  <2>1. established' \in BOOLEAN
    BY <1>3 DEF FillKey, Running
  <2> QED
    BY <1>3, <2>1, SMTT(30) DEF FilesInv, ControlInv, ControllerInv, FillKey, Running
<1> QED
  BY <1>1, <1>2, <1>3 DEF Generate

\* One rotation: prepare, announce, rename the key, rename the certificate.
LEMMA RotatePreserves ==
  ASSUME IInv, Rotate
  PROVE  IInv'
<1> USE PairsAssumption DEF IInv, TypeOK, Files, Content, PCs, Generating, Enrolled,
        Accepted, BootIdentity, Loads, CertFile
<1>1. CASE PrepareNext
  BY <1>1, SMTT(30) DEF FilesInv, ControlInv, ControllerInv, PrepareNext, StartGenerate, Fresh
<1>2. CASE AnnounceAcked
  BY <1>2, SMTT(30) DEF FilesInv, ControlInv, ControllerInv, AnnounceAcked, Recorded, AfterUse
<1>3. CASE CommitKey
  BY <1>3, SMTT(30) DEF FilesInv, ControlInv, ControllerInv, CommitKey
<1>4. CASE CommitCert
  BY <1>4, SMTT(30) DEF FilesInv, ControlInv, ControllerInv, CommitCert
<1> QED
  BY <1>1, <1>2, <1>3, <1>4 DEF Rotate

\* Requests to the controller, and time.
LEMMA RequestPreserves ==
  ASSUME IInv, Enroll \/ Poll \/ OtherRequest \/ Ages \/ BackoffExpires
  PROVE  IInv'
<1> USE PairsAssumption DEF IInv, TypeOK, Files, Content, PCs, Generating, Enrolled,
        Accepted, BootIdentity, Loads, CertFile
<1>1. CASE Enroll
  BY <1>1, SMTT(30) DEF FilesInv, ControlInv, ControllerInv, Enroll
<1>2. CASE Poll
  <2>1. backoff' \in BOOLEAN
    BY <1>2 DEF Poll, AfterUse
  <2> QED
    BY <1>2, <2>1, SMTT(30) DEF FilesInv, ControlInv, ControllerInv, Poll, AfterUse
<1>3. CASE OtherRequest
  BY <1>3, SMTT(30) DEF FilesInv, ControlInv, ControllerInv, OtherRequest, AfterUse
<1>4. CASE Ages
  BY <1>4, SMTT(30) DEF FilesInv, ControlInv, ControllerInv, Ages
<1>5. CASE BackoffExpires
  <2>1. backoff' \in BOOLEAN
    BY <1>5 DEF BackoffExpires
  <2> QED
    BY <1>5, <2>1, SMTT(30) DEF FilesInv, ControlInv, ControllerInv, BackoffExpires
<1> QED
  BY <1>1, <1>2, <1>3, <1>4, <1>5

\* Failures and crashes; renames that fail are excluded.
LEMMA FailurePreserves ==
  ASSUME Promised, IInv, Failure
  PROVE  IInv'
<1> USE PairsAssumption DEF IInv, TypeOK, Files, Content, PCs, Generating, Enrolled,
        Accepted, BootIdentity, Loads, CertFile
<1>1. CASE GenerateFails
  BY <1>1, SMTT(30) DEF FilesInv, ControlInv, ControllerInv, GenerateFails
<1>2. CASE AnnounceReplyLost
  BY <1>2, SMTT(30) DEF FilesInv, ControlInv, ControllerInv, AnnounceReplyLost, Recorded, AfterUse
<1>3. CASE AnnounceRefused
  BY <1>3, SMTT(30) DEF FilesInv, ControlInv, ControllerInv, AnnounceRefused
<1>4. CASE ControllerForgets
  BY <1>4, SMTT(30) DEF FilesInv, ControlInv, ControllerInv, ControllerForgets
<1>5. CASE Crash
  <2>1. backoff' \in BOOLEAN
    BY <1>5 DEF Crash
  <2> QED
    BY <1>5, <2>1, SMTT(30) DEF FilesInv, ControlInv, ControllerInv, Crash
<1> QED
  BY <1>1, <1>2, <1>3, <1>4, <1>5 DEF Failure, RenameFails, Promised

\* Every step keeps the invariant, where renames succeed.
LEMMA NextPreserves ==
  ASSUME Promised, IInv, [Next]_vars
  PROVE  IInv'
<1>1. CASE UNCHANGED vars
  BY <1>1 DEF vars, IInv, TypeOK, FilesInv, ControlInv, ControllerInv, Generating,
     Enrolled, Accepted, BootIdentity, Loads, CertFile
<1>2. CASE Fatal
  BY <1>1, <1>2 DEF Fatal
<1> QED
  BY <1>1, <1>2, StartPreserves, GeneratePreserves, RotatePreserves,
     RequestPreserves, FailurePreserves DEF Next

\* The faults that can happen stay the same.
LEMMA FaultsFixed == ASSUME [Next]_vars PROVE UNCHANGED faults
  BY DEF Next, vars, LoadOrGenerate, Fatal, Generate, OpenFile, FillCert, FillKey, Enroll, Poll,
     Rotate, PrepareNext, AnnounceAcked, CommitKey, CommitCert, OtherRequest, Ages,
     BackoffExpires, Failure, GenerateFails, AnnounceReplyLost, AnnounceRefused, RenameFails,
     ControllerForgets, Crash

\* IInv holds throughout, if renames cannot fail.
LEMMA InvariantHolds == Spec => []SafeInv
<1>1. Init => SafeInv
  BY InitInv DEF SafeInv
<1>2. ASSUME SafeInv, [Next]_vars PROVE SafeInv'
  BY <1>2, FaultsFixed, NextPreserves DEF SafeInv, Promised
<1> QED
  BY <1>1, <1>2, PTL DEF Spec

-----------------------------------------------------------------------------
(* Type correctness, renames that fail included.                           *)

\* Every action keeps the types.
LEMMA TypePreserved == ASSUME TypeOK, [Next]_vars PROVE TypeOK'
<1> USE DEF TypeOK, Files, Content, PCs
<1>1. faults' \in FaultModels
  BY FaultsFixed
<1>2. CASE LoadOrGenerate
  <2>1. established' \in BOOLEAN /\ backoff' \in BOOLEAN
    BY <1>2 DEF LoadOrGenerate, Running
  <2> QED
    BY <1>1, <1>2, <2>1, SMTT(30) DEF LoadOrGenerate, Running, StartGenerate, Fresh, Loads
<1>3. CASE Generate
  <2>1. established' \in BOOLEAN /\ backoff' \in BOOLEAN
    BY <1>3 DEF Generate, OpenFile, FillCert, FillKey, Running
  <2> QED
    BY <1>1, <1>3, <2>1, SMTT(30) DEF Generate, OpenFile, FillCert, FillKey, Running, CertFile, KeyFile
<1>4. CASE Rotate
  BY <1>1, <1>4, SMTT(30) DEF Rotate, PrepareNext, StartGenerate, Fresh, Loads, AnnounceAcked,
     Recorded, AfterUse, CommitKey, CommitCert
<1>5. CASE Enroll \/ Poll \/ OtherRequest \/ Ages \/ BackoffExpires
  <2>1. established' \in BOOLEAN /\ backoff' \in BOOLEAN
    BY <1>5 DEF Enroll, Poll, OtherRequest, Ages, BackoffExpires
  <2> QED
    BY <1>1, <1>5, <2>1, SMTT(30) DEF Enroll, Poll, OtherRequest, Ages, BackoffExpires, AfterUse
<1>6. CASE Failure
  <2>1. established' \in BOOLEAN /\ backoff' \in BOOLEAN
    BY <1>6 DEF Failure, GenerateFails, AnnounceReplyLost, AnnounceRefused, RenameFails,
       ControllerForgets, Crash
  <2> QED
    BY <1>1, <1>6, <2>1, SMTT(30) DEF Failure, GenerateFails, AnnounceReplyLost, AnnounceRefused,
       RenameFails, ControllerForgets, Crash, Recorded, AfterUse
<1>7. CASE Fatal \/ UNCHANGED vars
  BY <1>7 DEF Fatal, vars
<1> QED
  BY <1>2, <1>3, <1>4, <1>5, <1>6, <1>7 DEF Next

-----------------------------------------------------------------------------
(* What follows from the invariant.                                        *)

\* Type correctness.
THEOREM TypeCorrect == Spec => []TypeOK
<1>1. Init => TypeOK
  BY InitInv DEF IInv
<1> QED
  BY <1>1, TypePreserved, PTL DEF Spec

\* No crash, torn write or lost message of a rotation leaves the agent with
\* files its next start cannot use (rotate.go: "no crash can lock the agent out").
THEOREM NoCrashLocksOutHolds == Spec => []NoCrashLocksOut
<1>1. SafeInv => NoCrashLocksOut
  BY PairsAssumption DEF SafeInv, Promised, IInv, FilesInv, NoCrashLocksOut, NeverLockedOut,
     BootIdentity, Loads
<1> QED
  BY <1>1, InvariantHolds, PTL

\* The identity a restart would bring up is accepted by the controller.
THEOREM RestartAcceptedHolds == Spec => [](Promised => RestartAccepted)
<1>1. SafeInv => (Promised => RestartAccepted)
  BY DEF SafeInv, IInv, ControllerInv, RestartAccepted
<1> QED
  BY <1>1, InvariantHolds, PTL

\* The certificate a running agent presents is accepted by the controller.
THEOREM RunningCertAcceptedHolds == Spec => [](Promised => RunningCertAccepted)
<1>1. SafeInv => (Promised => RunningCertAccepted)
  BY DEF SafeInv, IInv, ControllerInv, RunningCertAccepted
<1> QED
  BY <1>1, InvariantHolds, PTL

-----------------------------------------------------------------------------
(* A key is installed only once the controller accepts it, renames that    *)
(* fail included.                                                          *)

AckInv ==
  /\ established => disk["cert"] # Absent
  /\ Generating => cand \in Pairs /\ (dest = "current" => ~established)
  /\ pc \in {"openKey", "fillKey"} => disk[CertFile] = cand
  /\ pc \in {"announce", "commitKey"} => disk["nextKey"] = cand
  /\ pc \in {"announce", "commitKey", "commitCert"} => cand \in Pairs /\ disk["nextCert"] = cand
  /\ ~Enrolled => ctl.next = Absent
  /\ pc = "commitKey" /\ Enrolled => \/ ctl.next = cand
                                     \/ ctl.cur = cand /\ ctl.next = Absent

\* A recorded announcement leaves the host enrolled, with cand announced.
LEMMA AfterRecorded ==
  ASSUME TypeOK, AckInv, Recorded PROVE ctl'.cur # Absent /\ ctl'.next = cand
<1>1. ctl'.next = cand /\ ctl'.cur = AfterUse(mem).cur /\ mem # Absent /\ mem \in {ctl.cur, ctl.next}
  BY DEF Recorded, Accepted
<1>2. CASE mem = ctl.next
  BY <1>1, <1>2 DEF AfterUse
<1>3. CASE mem # ctl.next
  BY <1>1, <1>3 DEF AfterUse
<1> QED
  BY <1>1, <1>2, <1>3

\* AckInv is inductive, whatever fails.
LEMMA AckPreserved == ASSUME TypeOK, AckInv, [Next]_vars PROVE AckInv'
<1> USE PairsAssumption DEF TypeOK, AckInv, Files, Content, PCs, Generating, Enrolled, CertFile
<1>1. CASE LoadOrGenerate
  BY <1>1, SMTT(30) DEF LoadOrGenerate, Running, StartGenerate, Fresh, Loads
<1>2. CASE Generate
  BY <1>2, SMTT(30) DEF Generate, OpenFile, FillCert, FillKey, Running, KeyFile
<1>3. CASE Rotate
  <2>1. CASE PrepareNext
    BY <2>1, SMTT(30) DEF PrepareNext, StartGenerate, Fresh, Loads
  <2>2. CASE AnnounceAcked
    BY <2>2, AfterRecorded, SMTT(30) DEF AnnounceAcked
  <2>3. CASE CommitKey \/ CommitCert
    BY <2>3, SMTT(30) DEF CommitKey, CommitCert
  <2> QED
    BY <1>3, <2>1, <2>2, <2>3 DEF Rotate
<1>4. CASE Enroll \/ Poll \/ OtherRequest \/ Ages \/ BackoffExpires
  <2>1. CASE Enroll \/ Ages \/ BackoffExpires
    BY <2>1, SMTT(30) DEF Enroll, Ages, BackoffExpires
  <2>2. CASE Poll
    BY <2>2, SMTT(30) DEF Poll, AfterUse, Accepted
  <2>3. CASE OtherRequest
    BY <2>3, SMTT(30) DEF OtherRequest, AfterUse, Accepted
  <2> QED
    BY <1>4, <2>1, <2>2, <2>3
<1>5. CASE Failure
  <2>1. CASE AnnounceReplyLost
    BY <2>1, AfterRecorded, SMTT(30) DEF AnnounceReplyLost
  <2>2. CASE GenerateFails \/ AnnounceRefused \/ RenameFails \/ ControllerForgets \/ Crash
    BY <2>2, SMTT(30) DEF GenerateFails, AnnounceRefused, RenameFails, ControllerForgets, Crash
  <2> QED
    BY <1>5, <2>1, <2>2 DEF Failure
<1>6. CASE Fatal \/ UNCHANGED vars
  BY <1>6 DEF Fatal, vars
<1> QED
  BY <1>1, <1>2, <1>3, <1>4, <1>5, <1>6 DEF Next

\* A key file changes only to a key whose certificate the controller accepts.
THEOREM AckBeforeInstallHolds == Spec => AckBeforeInstall
<1> DEFINE Install == established /\ Enrolled /\ disk'["key"] # disk["key"]
                        => disk'["key"] \in Accepted
<1>1. Init => AckInv
  BY DEF Init, AckInv, Generating, Files
<1>2. ASSUME TypeOK, AckInv, [Next]_vars PROVE [Install]_vars
  <2> USE <1>2 DEF TypeOK, Files, AckInv, Generating
  <2>1. CASE Generate
    BY <2>1 DEF Generate, OpenFile, FillCert, FillKey, CertFile, KeyFile
  <2>2. CASE CommitKey
    <3>1. disk'["key"] = cand /\ cand # Absent
      BY <2>2, PairsAssumption DEF CommitKey
    <3> QED
      BY <2>2, <3>1 DEF CommitKey, Accepted
  <2>3. CASE Rotate /\ ~CommitKey
    BY <2>3 DEF Rotate, PrepareNext, AnnounceAcked, CommitCert
  <2>4. CASE LoadOrGenerate
    BY <2>4 DEF LoadOrGenerate
  <2>5. CASE Failure
    BY <2>5 DEF Failure, GenerateFails, AnnounceReplyLost, AnnounceRefused, RenameFails,
       ControllerForgets, Crash
  <2>6. CASE Fatal \/ Enroll \/ Poll \/ OtherRequest \/ Ages \/ BackoffExpires \/ UNCHANGED vars
    BY <2>6 DEF Fatal, Enroll, Poll, OtherRequest, Ages, BackoffExpires, vars
  <2> QED
    BY <2>1, <2>2, <2>3, <2>4, <2>5, <2>6 DEF Next
<1> QED
  BY <1>1, <1>2, TypeCorrect, AckPreserved, PTL DEF Spec, AckBeforeInstall

-----------------------------------------------------------------------------
(* The refinement of Credential.                                           *)

\* The mapping, where it is one.
Plain == INSTANCE Credential WITH None <- Absent, held <- BootIdentity, accepted <- Accepted

\* Where a process runs, a restart would bring up the identity it uses,
\* except between the two renames of a commit.
LEMMA BootIdentityOf ==
  ASSUME IInv
  PROVE  /\ ~established => BootIdentity = Absent
         /\ mem # Absent /\ pc # "commitCert" => BootIdentity = mem
         /\ pc = "commitCert" => BootIdentity = cand
         /\ established => BootIdentity \in Pairs
  BY PairsAssumption DEF IInv, TypeOK, PCs, Generating, FilesInv, ControlInv, BootIdentity,
     Loads, Enrolled

\* A start brings up what the files already stood for.
LEMMA StartRefines ==
  ASSUME IInv, LoadOrGenerate PROVE UNCHANGED <<BootIdentity, Accepted>>
  BY PairsAssumption, SMTT(30) DEF IInv, TypeOK, Files, LoadOrGenerate, Running, BootIdentity,
     Loads, Accepted

\* Filling the key of the first pair adopts it; a prepared pair changes nothing yet.
LEMMA GenerateRefines ==
  ASSUME IInv, IInv', Generate PROVE [Plain!Next]_(Plain!vars)
<1> USE DEF Plain!vars, Accepted
<1>1. CASE dest = "current"
  <2>1. BootIdentity = Absent
    BY <1>1, BootIdentityOf DEF IInv, ControlInv, Generating, Generate, OpenFile, FillCert, FillKey
  <2>2. CASE OpenFile \/ FillCert
    <3>1. BootIdentity' = Absent
      BY <2>2, <1>1, PairsAssumption DEF IInv, ControlInv, Generating, OpenFile, FillCert,
         BootIdentity, Loads
    <3> QED
      BY <2>1, <2>2, <3>1 DEF OpenFile, FillCert
  <2>3. CASE FillKey
    <3>1. cand \in Pairs /\ BootIdentity' = cand
      BY <2>3, <1>1, PairsAssumption, SMTT(30) DEF IInv, TypeOK, Files, ControlInv, Generating,
         FillKey, Running, CertFile, KeyFile, BootIdentity, Loads
    <3>2. Plain!Adopt(cand)
      BY <2>1, <2>3, <3>1 DEF FillKey, Plain!Adopt
    <3> QED
      BY <3>1, <3>2 DEF Plain!Next
  <2> QED
    BY <2>2, <2>3 DEF Generate
<1>2. CASE dest # "current"
  <2>1. disk["cert"] = disk["key"] /\ disk["cert"] \in Pairs
    BY <1>2 DEF IInv, TypeOK, ControlInv, Generating, Generate, OpenFile, FillCert, FillKey
  <2>2. disk'["cert"] = disk["cert"] /\ disk'["key"] = disk["key"]
    BY <1>2, SMTT(30) DEF IInv, TypeOK, Files, Generate, OpenFile, FillCert, FillKey,
       CertFile, KeyFile
  <2> QED
    BY <2>1, <2>2 DEF BootIdentity, Loads, Generate, OpenFile, FillCert, FillKey
<1> QED
  BY <1>1, <1>2

\* An acknowledged announcement offers the prepared pair.
LEMMA RecordedRefines ==
  ASSUME IInv, pc = "announce", Recorded, UNCHANGED disk PROVE Plain!Next
<1>1. mem \in Pairs /\ cand \in Pairs /\ mem # Absent
  BY PairsAssumption DEF IInv, ControlInv
<1>2. BootIdentity = mem /\ BootIdentity' = mem
  BY <1>1, BootIdentityOf DEF BootIdentity, Loads
<1>3. Accepted' = {mem, cand}
  BY <1>1, PairsAssumption, SMTT(30) DEF IInv, TypeOK, Recorded, AfterUse, Accepted
<1>4. Plain!Offer(cand)
  BY <1>2, <1>3 DEF Plain!Offer, Recorded
<1> QED
  BY <1>1, <1>4 DEF Plain!Next

\* An acknowledgement offers the prepared pair, renaming the key switches to it.
LEMMA RotateRefines ==
  ASSUME IInv, IInv', Rotate PROVE [Plain!Next]_(Plain!vars)
<1>1. CASE PrepareNext
  BY <1>1 DEF PrepareNext, BootIdentity, Loads, Accepted, Plain!vars
<1>2. CASE AnnounceAcked
  BY <1>2, RecordedRefines DEF AnnounceAcked
<1>3. CASE CommitKey
  <2>1. cand \in Pairs /\ BootIdentity' = cand
    BY <1>3, PairsAssumption, SMTT(30) DEF CommitKey, IInv, TypeOK, Files, ControlInv,
       BootIdentity, Loads
  <2>2. BootIdentity # Absent
    BY <1>3, BootIdentityOf, PairsAssumption DEF CommitKey, IInv, ControlInv
  <2>3. Accepted = {} \/ cand \in Accepted
    BY <1>3 DEF IInv, TypeOK, ControllerInv, CommitKey, Accepted, Enrolled
  <2>4. Plain!Switch(cand)
    BY <1>3, <2>1, <2>2, <2>3 DEF CommitKey, Accepted, Plain!Switch
  <2> QED
    BY <2>1, <2>4 DEF Plain!Next
<1>4. CASE CommitCert
  <2>1. BootIdentity = cand /\ BootIdentity' = mem' /\ mem' = cand
    BY <1>4, BootIdentityOf, PairsAssumption, SMTT(30) DEF CommitCert, IInv, TypeOK, Files,
       ControlInv, BootIdentity, Loads
  <2> QED
    BY <1>4, <2>1 DEF CommitCert, Accepted, Plain!vars
<1> QED
  BY <1>1, <1>2, <1>3, <1>4 DEF Rotate

\* Enrolling registers, and any request may be a first use.
LEMMA RequestRefines ==
  ASSUME IInv, Enroll \/ Poll \/ OtherRequest PROVE [Plain!Next]_(Plain!vars)
<1>1. UNCHANGED BootIdentity
  BY DEF Enroll, Poll, OtherRequest, BootIdentity, Loads
<1>2. CASE Enroll
  <2>1. mem \in Pairs /\ BootIdentity = mem /\ mem # Absent
    BY <1>2, BootIdentityOf, PairsAssumption DEF Enroll, IInv, ControlInv
  <2>2. Accepted = {} /\ Accepted' = {mem}
    BY <1>2, <2>1 DEF IInv, ControllerInv, Enroll, Enrolled, Accepted
  <2> QED
    BY <1>1, <2>1, <2>2 DEF Plain!Next, Plain!Register
<1>3. CASE Poll \/ OtherRequest
  <2>1. mem \in Accepted /\ mem # Absent /\ ctl' = AfterUse(mem)
    BY <1>3 DEF Poll, OtherRequest, Accepted
  <2>2. CASE mem # ctl.next
    BY <1>1, <2>1, <2>2 DEF AfterUse, Accepted, Plain!vars
  <2>3. CASE mem = ctl.next
    <3>1. Accepted' = {mem}
      BY <2>1, <2>3 DEF AfterUse, Accepted
    <3>2. CASE pc = "commitCert"
      BY <1>1, <2>1, <2>3, <3>1, <3>2, PairsAssumption
         DEF IInv, ControllerInv, Enrolled, Accepted, Plain!vars
    <3>3. CASE pc # "commitCert"
      BY <1>1, <2>1, <3>1, <3>3, BootIdentityOf DEF Plain!Next, Plain!Drop
    <3> QED
      BY <3>2, <3>3
  <2> QED
    BY <2>2, <2>3
<1> QED
  BY <1>2, <1>3

\* A lost answer offers all the same; a controller that forgets accepts nothing.
LEMMA FailureRefines ==
  ASSUME Promised, IInv, Failure PROVE [Plain!Next]_(Plain!vars)
<1>1. UNCHANGED BootIdentity
  BY DEF Failure, GenerateFails, AnnounceReplyLost, AnnounceRefused, RenameFails,
     ControllerForgets, Crash, BootIdentity, Loads
<1>2. CASE AnnounceReplyLost
  BY <1>2, RecordedRefines DEF AnnounceReplyLost
<1>3. CASE ControllerForgets
  BY <1>1, <1>3 DEF ControllerForgets, Accepted, Plain!Next, Plain!Forget
<1>4. CASE GenerateFails \/ AnnounceRefused \/ Crash
  BY <1>1, <1>4 DEF GenerateFails, AnnounceRefused, Crash, Accepted, Plain!vars
<1> QED
  BY <1>2, <1>3, <1>4 DEF Failure, RenameFails, Promised

\* Every step is one of the abstract credential, or leaves it as it is.
LEMMA NextRefines ==
  ASSUME Promised, IInv, IInv', [Next]_vars PROVE [Plain!Next]_(Plain!vars)
<1>1. CASE LoadOrGenerate
  BY <1>1, StartRefines DEF Plain!vars
<1>2. CASE Ages \/ BackoffExpires \/ Fatal \/ UNCHANGED vars
  BY <1>2 DEF Ages, BackoffExpires, Fatal, vars, Plain!vars, BootIdentity, Loads, Accepted
<1> QED
  BY <1>1, <1>2, GenerateRefines, RotateRefines, RequestRefines, FailureRefines DEF Next

\* Rotation does what Credential promises: the agent switches only to an
\* identity its controller knows, and the controller drops the old one only
\* once the new one is what a restart would use.
THEOREM RefinesCredential == Spec => CredentialSpec
<1>1. Init => Cred!Init
  BY PairsAssumption DEF Init, Cred!Init, BootIdentity, Loads, Accepted, Files
<1>2. ASSUME SafeInv, SafeInv', [Next]_vars PROVE [Cred!Next]_(Cred!vars)
  <2>1. Promised' = Promised
    BY <1>2, FaultsFixed DEF Promised
  <2>2. CASE Promised
    <3>1. [Plain!Next]_(Plain!vars)
      BY <1>2, <2>1, <2>2, NextRefines DEF SafeInv
    <3> QED
      BY <2>1, <2>2, <3>1 DEF Plain!Next, Plain!vars, Plain!Register, Plain!Drop, Plain!Forget,
         Plain!Adopt, Plain!Offer, Plain!Switch, Cred!Next, Cred!vars, Cred!Register, Cred!Drop,
         Cred!Forget, Cred!Adopt, Cred!Offer, Cred!Switch
  <2>3. CASE ~Promised
    BY <2>1, <2>3 DEF Cred!vars
  <2> QED
    BY <2>2, <2>3
<1> QED
  BY <1>1, <1>2, InvariantHolds, PTL DEF Spec, CredentialSpec, Cred!Spec
=============================================================================

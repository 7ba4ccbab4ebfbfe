------------------------------ MODULE Rotation ------------------------------
(***************************************************************************)
(* The agent's TLS identity: internal/identity/identity.go (the four files *)
(* and the operations on them) and rotate.go (the two-phase rotation),     *)
(* driven by main.go.                                                      *)
(*                                                                         *)
(* A key pair is one element of Pairs; a file holds the certificate or the *)
(* key of a pair, is Absent, or is Torn (os.WriteFile truncates, then      *)
(* writes: a crash in between leaves an unparsable file).  The controller  *)
(* is external: it accepts the registered pair ctl.cur and, after an       *)
(* acknowledged announcement, also ctl.next, until ctl.next is first used. *)
(***************************************************************************)
EXTENDS Integers, FiniteSets

CONSTANTS
  Pairs,       \* identities (key pair and certificate)
  Absent,      \* no such file / no identity
  Torn,        \* a file cut by a crash or a failed write
  FaultModels  \* sets of faults, of which one is fixed from the start:
               \* "rename" (os.Rename fails), "forget" (the controller loses
               \* its record), "write" (os.WriteFile fails); a crash is always
               \* possible

ASSUME PairsAssumption == Absent \notin Pairs /\ Torn \notin Pairs /\ Absent # Torn
ASSUME FaultsAssumption == FaultModels \subseteq SUBSET {"rename", "forget", "write"}

VARIABLES
  faults,      \* the faults that can happen
  disk,        \* contents of the four identity files
  pc,          \* where the agent's main goroutine is
  dest,        \* which pair of files generate is writing
  mem,         \* currentCert (rotate.go)
  cand,        \* the pair being generated, announced or installed
  aged,        \* pairs whose identity.Age has reached --rotate-after
  backoff,     \* lastRotateAttempt is less than 10 minutes ago
  ctl,         \* the controller's record of this host
  established  \* history: the agent once had a loaded identity

vars == <<faults, disk, pc, dest, mem, cand, aged, backoff, ctl, established>>

-----------------------------------------------------------------------------
Files   == {"cert", "key", "nextCert", "nextKey"}
Content == Pairs \cup {Absent, Torn}
PCs     == {"down", "openCert", "fillCert", "openKey", "fillKey", "idle",
            "prepare", "announce", "commitKey", "commitCert"}

CertFile == IF dest = "current" THEN "cert" ELSE "nextCert"
KeyFile  == IF dest = "current" THEN "key"  ELSE "nextKey"

\* tls.LoadX509KeyPair succeeds: both files are whole and belong together.
Loads(c, k) == disk[c] \in Pairs /\ disk[c] = disk[k]

\* A freshly generated pair is none of those in use anywhere.
Fresh == Pairs \ ({disk[f] : f \in Files} \cup {mem, cand, ctl.cur, ctl.next})

Enrolled == ctl.cur # Absent
Accepted == {ctl.cur, ctl.next} \ {Absent}

\* The identity a process started now would authenticate with.
BootIdentity == IF Loads("cert", "key") THEN disk["cert"]
                ELSE IF disk["cert"] # Absent /\ Loads("nextCert", "key")
                     THEN disk["nextCert"] ELSE Absent

\* A process started now does not end in log.Fatal.
CanStart == disk["cert"] = Absent \/ BootIdentity # Absent

\* The controller's side of a request made with m: the first use of an
\* announced identity drops the old one.
AfterUse(m) == IF m = ctl.next THEN [cur |-> m, next |-> Absent] ELSE ctl

Init == /\ faults \in FaultModels
        /\ disk = [f \in Files |-> Absent]
        /\ pc = "down"
        /\ dest = "current"
        /\ mem = Absent
        /\ cand = Absent
        /\ aged = {}
        /\ backoff = FALSE
        /\ ctl = [cur |-> Absent, next |-> Absent]
        /\ established = FALSE

-----------------------------------------------------------------------------
(* Starting up: LoadOrGenerate.                                            *)

StartGenerate(where) ==
  \E p \in Fresh : /\ cand' = p
                   /\ aged' = aged \ {p}
                   /\ dest' = where
                   /\ pc' = "openCert"

Running(p) == mem' = p /\ pc' = "idle" /\ established' = TRUE

\* Load what is there; complete a commit that died between its renames
\* (finishInterrupted); or begin the first generation.
LoadOrGenerate ==
  /\ pc = "down"
  /\ \/ /\ Loads("cert", "key")
        /\ Running(disk["cert"])
        /\ UNCHANGED <<disk, dest, cand, aged>>
     \/ /\ disk["cert"] # Absent
        /\ ~Loads("cert", "key")
        /\ Loads("nextCert", "key")
        /\ disk' = [disk EXCEPT !["cert"] = disk["nextCert"], !["nextCert"] = Absent]
        /\ Running(disk["nextCert"])
        /\ UNCHANGED <<dest, cand, aged>>
     \/ /\ disk["cert"] = Absent
        /\ StartGenerate("current")
        /\ UNCHANGED <<disk, mem, established>>
  /\ UNCHANGED <<faults, backoff, ctl>>

\* main: log.Fatal on an identity that does not load (or whose interrupted
\* commit cannot be finished because the rename fails).
Fatal == /\ pc = "down"
         /\ ~CanStart \/ (BootIdentity # disk["cert"] /\ "rename" \in faults)
         /\ UNCHANGED vars

-----------------------------------------------------------------------------
(* generate: two os.WriteFile, each of which truncates and then writes.    *)

OpenFile == /\ \/ pc = "openCert" /\ disk' = [disk EXCEPT ![CertFile] = Torn]
                                  /\ pc' = "fillCert"
               \/ pc = "openKey"  /\ disk' = [disk EXCEPT ![KeyFile] = Torn]
                                  /\ pc' = "fillKey"
            /\ UNCHANGED <<faults, dest, mem, cand, aged, backoff, ctl, established>>

FillCert == /\ pc = "fillCert"
            /\ disk' = [disk EXCEPT ![CertFile] = cand]
            /\ pc' = "openKey"
            /\ UNCHANGED <<faults, dest, mem, cand, aged, backoff, ctl, established>>

\* The pair is complete: it is the identity at once, or the prepared one.
FillKey == /\ pc = "fillKey"
           /\ disk' = [disk EXCEPT ![KeyFile] = cand]
           /\ IF dest = "current"
              THEN Running(cand) /\ cand' = Absent
              ELSE pc' = "announce" /\ UNCHANGED <<mem, cand, established>>
           /\ UNCHANGED <<faults, dest, aged, backoff, ctl>>

\* A write fails: the first identity is fatal, the next one tried again later.
GenerateFails == /\ "write" \in faults
                 /\ pc \in {"openCert", "fillCert", "openKey", "fillKey"}
                 /\ pc' = IF dest = "current" THEN "down" ELSE "idle"
                 /\ cand' = Absent
                 /\ UNCHANGED <<faults, disk, dest, mem, aged, backoff, ctl, established>>

-----------------------------------------------------------------------------
(* The poll loop and maybeRotate.                                          *)

\* The controller registers the certificate the connection presents.
Enroll == /\ pc = "idle"
          /\ ~Enrolled
          /\ ctl' = [cur |-> mem, next |-> Absent]
          /\ UNCHANGED <<faults, disk, pc, dest, mem, cand, aged, backoff, established>>

\* One tick: the status check, then maybeRotate if the answer is
\* "connected", the certificate is old enough and no attempt is recent.
Poll == /\ pc = "idle"
        /\ mem \in Accepted
        /\ ctl' = AfterUse(mem)
        /\ \/ UNCHANGED <<pc, backoff>>
           \/ /\ mem \in aged
              /\ ~backoff
              /\ backoff' = TRUE
              /\ pc' = "prepare"
        /\ UNCHANGED <<faults, disk, dest, mem, cand, aged, established>>

\* Mutant: reuse whatever certificate is there, without loading the pair.
PrepareNextUnchecked ==
  /\ pc = "prepare"
  /\ \/ /\ disk["nextCert"] # Absent
        /\ cand' = disk["nextCert"]
        /\ pc' = "announce"
        /\ UNCHANGED <<dest, aged>>
     \/ /\ disk["nextCert"] = Absent
        /\ StartGenerate("next")
  /\ UNCHANGED <<faults, disk, mem, backoff, ctl, established>>

\* Mutant: a prepared pair that does not load is an error, not replaced.
PrepareNextGivesUp ==
  /\ pc = "prepare"
  /\ \/ /\ Loads("nextCert", "nextKey")
        /\ cand' = disk["nextCert"]
        /\ pc' = "announce"
        /\ UNCHANGED <<dest, aged>>
     \/ /\ disk["nextCert"] = Absent
        /\ StartGenerate("next")
     \/ /\ disk["nextCert"] # Absent
        /\ ~Loads("nextCert", "nextKey")
        /\ pc' = "idle"
        /\ UNCHANGED <<dest, cand, aged>>
  /\ UNCHANGED <<faults, disk, mem, backoff, ctl, established>>

\* Mutant: a pair prepared earlier is taken to be announced already.
PrepareNextSkipsAnnounce ==
  /\ pc = "prepare"
  /\ \/ /\ Loads("nextCert", "nextKey")
        /\ cand' = disk["nextCert"]
        /\ pc' = "commitKey"
        /\ UNCHANGED <<dest, aged>>
     \/ /\ ~Loads("nextCert", "nextKey")
        /\ StartGenerate("next")
  /\ UNCHANGED <<faults, disk, mem, backoff, ctl, established>>

\* Reuse a prepared pair that loads, generate one otherwise.
PrepareNext ==
  /\ pc = "prepare"
  /\ \/ /\ Loads("nextCert", "nextKey")
        /\ cand' = disk["nextCert"]
        /\ pc' = "announce"
        /\ UNCHANGED <<dest, aged>>
     \/ /\ ~Loads("nextCert", "nextKey")
        /\ StartGenerate("next")
  /\ UNCHANGED <<faults, disk, mem, backoff, ctl, established>>

\* POST /agent/rotate reaches the controller, which records the new pair.
Recorded == mem \in Accepted
            /\ ctl' = [cur |-> AfterUse(mem).cur, next |-> cand]

AnnounceAcked == /\ pc = "announce"
                 /\ Recorded
                 /\ pc' = "commitKey"
                 /\ UNCHANGED <<faults, disk, dest, mem, cand, aged, backoff, established>>

\* Recorded, but the agent sees an error and gives this attempt up.
AnnounceReplyLost == /\ pc = "announce"
                     /\ Recorded
                     /\ pc' = "idle"
                     /\ cand' = Absent
                     /\ UNCHANGED <<faults, disk, dest, mem, aged, backoff, established>>

\* Mutant: the status code is not looked at.
AnnounceRefusedIgnored ==
  /\ pc = "announce"
  /\ pc' = "commitKey"
  /\ UNCHANGED <<faults, disk, dest, mem, cand, aged, backoff, ctl, established>>

\* Not delivered, or answered with something else than 204.
AnnounceRefused == /\ pc = "announce"
                   /\ pc' = "idle"
                   /\ cand' = Absent
                   /\ UNCHANGED <<faults, disk, dest, mem, aged, backoff, ctl, established>>

\* Mutant: the certificate is renamed before the key.
CommitKeyAfterCert ==
  /\ pc = "commitKey"
  /\ Loads("nextCert", "nextKey")
  /\ disk' = [disk EXCEPT !["cert"] = disk["nextCert"], !["nextCert"] = Absent]
  /\ pc' = "commitCert"
  /\ UNCHANGED <<faults, dest, mem, cand, aged, backoff, ctl, established>>

\* CommitNext, first rename; it loads the prepared pair beforehand.
CommitKey == /\ pc = "commitKey"
             /\ Loads("nextCert", "nextKey")
             /\ disk' = [disk EXCEPT !["key"] = disk["nextKey"], !["nextKey"] = Absent]
             /\ pc' = "commitCert"
             /\ UNCHANGED <<faults, dest, mem, cand, aged, backoff, ctl, established>>

\* CommitNext, second rename, then setClientCert.
CommitCert == /\ pc = "commitCert"
              /\ disk' = [disk EXCEPT !["cert"] = disk["nextCert"], !["nextCert"] = Absent]
              /\ mem' = cand
              /\ cand' = Absent
              /\ pc' = "idle"
              /\ UNCHANGED <<faults, dest, aged, backoff, ctl, established>>

\* Either rename fails: maybeRotate logs it and leaves the rest for later.
RenameFails == /\ "rename" \in faults
               /\ pc \in {"commitKey", "commitCert"}
               /\ pc' = "idle"
               /\ cand' = Absent
               /\ UNCHANGED <<faults, disk, dest, mem, aged, backoff, ctl, established>>

-----------------------------------------------------------------------------
(* The surroundings.                                                       *)

\* The tunnel and the backup reporter use the certificate at any moment.
OtherRequest == /\ mem \in Accepted
                /\ ctl' = AfterUse(mem)
                /\ UNCHANGED <<faults, disk, pc, dest, mem, cand, aged, backoff, established>>

ControllerForgets == /\ "forget" \in faults
                     /\ ctl' = [cur |-> Absent, next |-> Absent]
                     /\ UNCHANGED <<faults, disk, pc, dest, mem, cand, aged, backoff, established>>

Ages == /\ mem \in Pairs
        /\ aged' = aged \cup {mem}
        /\ UNCHANGED <<faults, disk, pc, dest, mem, cand, backoff, ctl, established>>

BackoffExpires == /\ pc = "idle"
                  /\ backoff' = FALSE
                  /\ UNCHANGED <<faults, disk, pc, dest, mem, cand, aged, ctl, established>>

Crash == /\ pc # "down"
         /\ pc' = "down"
         /\ mem' = Absent
         /\ cand' = Absent
         /\ backoff' = FALSE
         /\ UNCHANGED <<faults, disk, dest, aged, ctl, established>>

Generate == OpenFile \/ FillCert \/ FillKey
Rotate   == PrepareNext \/ AnnounceAcked \/ CommitKey \/ CommitCert
Failure  == \/ GenerateFails \/ AnnounceReplyLost \/ AnnounceRefused
            \/ RenameFails \/ ControllerForgets \/ Crash

Next == \/ LoadOrGenerate \/ Fatal \/ Generate \/ Enroll \/ Poll \/ Rotate
        \/ OtherRequest \/ Ages \/ BackoffExpires \/ Failure

Spec == Init /\ [][Next]_vars

\* The controller answers an agent that it does not know.
TurnedAway == AnnounceRefused /\ mem \notin Accepted

\* A live process takes its next step and gets its answers; the 10 s ticker
\* and the 10 minute throttle elapse.
Fairness == /\ WF_vars(TurnedAway)
            /\ WF_vars(LoadOrGenerate) /\ WF_vars(Generate) /\ WF_vars(Rotate)
            /\ WF_vars(Enroll) /\ WF_vars(Poll) /\ WF_vars(BackoffExpires)

LiveSpec == Spec /\ Fairness

-----------------------------------------------------------------------------
(* Properties.                                                             *)

TypeOK == /\ faults \in FaultModels
          /\ disk \in [Files -> Content]
          /\ pc \in PCs
          /\ dest \in {"current", "next"}
          /\ mem \in Pairs \cup {Absent}
          /\ cand \in Pairs \cup {Absent}
          /\ aged \subseteq Pairs
          /\ backoff \in BOOLEAN
          /\ ctl \in [cur : Pairs \cup {Absent}, next : Pairs \cup {Absent}]
          /\ established \in BOOLEAN

\* Once the agent has had an identity, the next start can use the files ("no
\* crash can lock the agent out", rotate.go).  A rename that fails refutes it.
NeverLockedOut == established => disk["cert"] # Absent /\ BootIdentity # Absent

\* No crash anywhere in a rotation, torn write, lost announcement or reset of
\* the controller leaves files that the next start cannot use ("two-phase so
\* that no crash can lock the agent out"), as long as os.Rename succeeds.
NoCrashLocksOut == "rename" \notin faults => NeverLockedOut

\* The identity that a restart at this very moment would bring up is one the
\* controller accepts: neither a commit before the acknowledgement nor a drop
\* of the old fingerprint before the new one is durable, nor a failed rename.
RestartAccepted == Enrolled /\ BootIdentity # Absent => BootIdentity \in Accepted

\* A running agent presents a certificate its controller accepts.
RunningCertAccepted == Enrolled /\ mem # Absent => mem \in Accepted

\* A key is put in place only when the controller already accepts it (or has
\* lost the host altogether): "only once the controller acknowledged does the
\* agent install it" (rotate.go).
AckBeforeInstall ==
  [][established /\ Enrolled /\ disk'["key"] # disk["key"]
       => disk'["key"] \in Accepted]_vars

\* Every start leads to an identity: "loads an existing identity from dir, or
\* generates and persists a fresh self-signed one if none exists yet"
\* (LoadOrGenerate).  A crash between the two writes of the first generation
\* refutes it.
StartsAlways == pc = "down" => CanStart

\* Once crashes and refusals stop, an identity past --rotate-after is
\* replaced, whatever half-written prepared pair earlier attempts left and
\* even if the controller has to register the host anew.
RotationCompletes ==
  "rename" \notin faults /\ <>[][Failure => TurnedAway]_vars =>
    \A p \in Pairs : (BootIdentity = p /\ p \in aged) ~> (BootIdentity # p)

\* The files and the controller implement the abstract credential where
\* renames succeed; where they can fail, no credential is promised.
Promised == "rename" \notin faults
Cred == INSTANCE Credential WITH None <- Absent,
          held     <- IF Promised THEN BootIdentity ELSE Absent,
          accepted <- IF Promised THEN Accepted ELSE {}
CredentialSpec == Cred!Spec
=============================================================================

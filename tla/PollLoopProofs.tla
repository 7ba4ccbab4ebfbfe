--------------------------- MODULE PollLoopProofs ----------------------------
(***************************************************************************)
(* The health check tells the truth for any limits of health.go, any pace  *)
(* of the poll loop that fits them, and any faults: healthy once nothing   *)
(* got in the way for long enough, unhealthy once no state got through.    *)
(***************************************************************************)
EXTENDS PollLoop, TLAPS

-----------------------------------------------------------------------------
(* Unhealthy when stuck: nothing in memory or in the file is newer than    *)
(* the time the controller has been cut off for.                           *)

\* An age that is not less than n ticks.
AtLeast(age, n) == age = Never \/ age >= n

\* The record s gives the check nothing to be healthy from that is newer.
NoNewer(s) == \/ AtLeast(s.controller, cut)
              \/ s.connected # Never /\ s.connected >= cut /\ AtLeast(s.statePushed, cut)

StuckInv ==
  /\ host # "connected" => cut = 0
  /\ "errors" \notin faults =>
       /\ NoNewer(file)
       /\ mem.connected # Never => mem.connected >= cut /\ AtLeast(mem.statePushed, cut)
       /\ mem.connected = Never => AtLeast(mem.controller, cut)

-----------------------------------------------------------------------------
(* Healthy when working: after a trouble each thing the loop has to do     *)
(* takes a bounded number of calm ticks.                                   *)

\* How long the loop stays in one place.
TimeInv ==
  /\ pc \in {"sleep", "retry"} => late <= Hang /\ (calm > Hang => late <= 1)
  /\ pc \in {"load", "create", "fill", "command"} => late = 0
  /\ pc = "deploy" /\ calm > 0 => late <= Fresh - 2
  /\ pc = "off" => calm = 0

\* An id the controller does not know goes with a recent trouble.
IdInv ==
  /\ pc = "retry" => idFile = "none" /\ calm <= late
  /\ pc = "load" /\ idFile # "none" => calm = 0
  /\ pc \in {"create", "fill"} /\ ~Known => calm = 0

\* The file is up to date and the controller was seen at most n ticks ago.
Seen(n) == file = mem /\ file.controller # Never /\ file.controller <= n

\* A trouble is recent, or the controller was seen recently: the loop sleeps
\* once, and with an id that turns out to be unknown twice, between answers.
SeenInv ==
  /\ pc = "sleep" /\ ~Known => calm <= late \/ Seen(Fresh - 2 + late)
  /\ pc \in {"load", "create", "fill"} => calm <= Hang \/ Seen(Fresh - 1)
  /\ pc = "sleep" /\ Known => calm <= Hang + late \/ Seen(Fresh - 1 + late)
  /\ pc = "command" => Seen(0)
  /\ pc = "deploy" => Seen(late) \/ (Seen(Old) /\ late = Fresh)

\* The longest the loop takes to hear of a change at the controller.
Hearing == IF Hang > Fresh - 1 THEN Hang ELSE Fresh - 1

\* A host that is not connected any more, and of which the agent has not heard
\* so, was rejected or forgotten recently.
Behind == host # "connected" /\ mem.connected # Never
BehindInv ==
  Behind =>
    /\ pc = "command" => calm = 0
    /\ pc = "deploy" => calm <= late
    /\ pc = "sleep" /\ ~Known => calm <= Fresh - 2 + late
    /\ pc \in {"load", "create", "fill"} => calm <= Hearing
    /\ pc = "sleep" /\ Known => calm <= Hearing + late

\* The age of the last state that was pushed, or else of the connection.
News == IF mem.statePushed # Never THEN mem.statePushed
        ELSE IF mem.connected # Never THEN mem.connected ELSE 0

Recovery == IF Hearing + 1 > Resync THEN Hearing + 1 ELSE Resync
Lull     == IF Fresh > Resync THEN Fresh ELSE Resync

\* A trouble is recent, or a state was pushed recently: the tunnel resyncs, and
\* is dialled at once when it is down.
NewsInv ==
  /\ tunnel # "none" => mem.controller # Never
  /\ mem.connected = Never /\ mem.statePushed # Never =>
       mem.controller # Never /\ mem.statePushed <= mem.controller
  /\ tunnel = "none" /\ mem.connected # Never =>
       pc \in {"command", "deploy"} /\ (mem.connected <= late \/ late = Fresh)
  /\ tunnel = "none" => mem.statePushed = Never
  /\ tunnel = "up" /\ quiet < Resync => News <= quiet \/ calm <= quiet
  /\ tunnel = "down" \/ (tunnel = "up" /\ quiet = Resync) => News <= Lull \/ calm <= Recovery

Working    == IdInv /\ SeenInv /\ BehindInv /\ NewsInv
WorkingInv == "disk" \notin faults => Working

IInv == TypeOK /\ StuckInv /\ TimeInv /\ WorkingInv

-----------------------------------------------------------------------------
(* Ages and marks.                                                         *)

\* The limits are numbers.
LEMMA Limits ==
  /\ Fresh \in Nat /\ Resync \in Nat /\ Grace \in Nat /\ Hang \in Nat /\ Settle \in Nat
  /\ 2 <= Fresh /\ 1 <= Resync /\ 1 <= Hang /\ Hang <= Fresh
  /\ Fresh <= 3 * Resync /\ 3 * Resync <= Grace
  /\ Hang + 1 < Settle /\ Fresh < Settle /\ Resync < Settle
  BY HealthAssumption, PollLoopAssumption

\* A moment one tick later: no less, no more than one tick more, and one tick
\* more unless it is past every limit.
LEMMA OlderStep ==
  ASSUME NEW age \in Ages
  PROVE  /\ Older(age) \in Ages /\ (Older(age) = Never <=> age = Never)
         /\ age # Never => age \in 0 .. Old /\ Older(age) \in 0 .. Old
                           /\ age <= Older(age) /\ Older(age) <= age + 1
                           /\ (Older(age) = age + 1 \/ Older(age) = Old)
  BY Limits DEF Older, Ages, Never, Old

\* A record one tick later.
LEMMA AgedStep ==
  ASSUME NEW s \in HealthState
  PROVE  /\ Aged(s) \in HealthState
         /\ Aged(s).controller = Older(s.controller)
         /\ Aged(s).connected = Older(s.connected)
         /\ Aged(s).statePushed = Older(s.statePushed)
<1>1. s.controller \in Ages /\ s.connected \in Ages /\ s.statePushed \in Ages
  BY DEF HealthState
<1>2. Aged(s) = [controller |-> Older(s.controller), connected |-> Older(s.connected),
                 statePushed |-> Older(s.statePushed)]
  BY DEF Aged, HealthState
<1> QED
  BY <1>1, <1>2, OlderStep DEF HealthState

\* What a status check and a push write.
LEMMA MarkStep ==
  ASSUME NEW s \in HealthState
  PROVE  /\ Unknown \in HealthState
         /\ \A b \in BOOLEAN : ControllerSeen(s, b) \in HealthState
         /\ StatePushed(s) \in HealthState
         /\ StatePushed(s).controller = s.controller /\ StatePushed(s).connected = s.connected
         /\ StatePushed(s).statePushed = 0
<1>1. 0 \in Ages /\ Never \in Ages
  BY Limits DEF Ages, Old
<1>2. s.controller \in Ages /\ s.connected \in Ages /\ s.statePushed \in Ages
  BY DEF HealthState
<1> QED
  BY <1>1, <1>2 DEF HealthState, Unknown, ControllerSeen, StatePushed

-----------------------------------------------------------------------------
(* Types, and how long the loop stays in one place.                        *)

\* The file takes the record in memory, or stays as it is.
LEMMA MarkType ==
  ASSUME TypeOK, NEW s \in HealthState, Mark(s)
  PROVE  /\ mem' = s /\ mem' \in HealthState /\ file' \in HealthState
         /\ file' \in {file, s} /\ ("disk" \notin faults => file' = s)
  BY DEF Mark, TypeOK

\* Steps of the poll loop that leave the marks alone.
Places == Start \/ LoadId \/ Enroll \/ EnrollFails \/ Retry \/ CreateIdFile \/ FillIdFile
          \/ CacheFails \/ PollFails \/ PollGone \/ RemoveFails
          \/ NoCommand \/ BeginDeploy \/ EndDeploy

\* They keep the types.
LEMMA PlacesType == ASSUME TypeOK, Places PROVE TypeOK'
<1>1. /\ pc' \in {"load", "retry", "create", "fill", "sleep", "command", "deploy"}
      /\ UNCHANGED <<faults, quiet, marks, cut>>
      /\ idFile' \in {"none", "torn", "old", "good"} /\ id' \in {"none", "torn", "old", "good"}
      /\ late' = 0 /\ calm' \in {0, calm}
  BY DEF TypeOK, Places, Start, LoadId, Enroll, EnrollFails, Retry, CreateIdFile, FillIdFile,
         CacheFails, PollFails, PollGone, RemoveFails, Gone, NoCommand, BeginDeploy, EndDeploy,
         GoTo, ids, world, push, marks, past
<1>2. /\ host' \in {"unknown", "pending", "connected"} /\ UNCHANGED <<reach, docker>>
  BY DEF TypeOK, Places, Start, LoadId, Enroll, EnrollFails, Retry, CreateIdFile, FillIdFile,
         CacheFails, PollFails, PollGone, RemoveFails, Gone, NoCommand, BeginDeploy, EndDeploy,
         Recorded, world
<1>3. tunnel' \in {tunnel, "down"}
  BY DEF Places, Start, LoadId, Enroll, EnrollFails, Retry, CreateIdFile, FillIdFile,
         CacheFails, PollFails, PollGone, RemoveFails, Gone, NoCommand, BeginDeploy, EndDeploy,
         StartTunnel, push
<1>4. late' \in 0 .. (IF Fresh > Hang THEN Fresh ELSE Hang) /\ calm' \in 0 .. Settle
  BY <1>1, Limits DEF TypeOK
<1> QED
  BY <1>1, <1>2, <1>3, <1>4 DEF TypeOK, marks

\* Steps that write the health file.
LEMMA MarkingType == ASSUME TypeOK, PollAnswered \/ PollError \/ Push PROVE TypeOK'
<1>1. /\ UNCHANGED <<faults, ids, world, calm>>
      /\ pc' \in {pc, "sleep", "command"} /\ late' \in {late, 0}
      /\ tunnel' = tunnel /\ quiet' \in {quiet, 0} /\ cut' \in {cut, 0}
  BY DEF PollAnswered, PollError, Push, GoTo, push, past
<1>2. mem' \in HealthState /\ file' \in HealthState
  <2>1. mem \in HealthState
    BY DEF TypeOK
  <2>2. CASE PollAnswered \/ PollError
    <3>1. PICK b \in BOOLEAN : Mark(ControllerSeen(mem, b))
      BY <2>2 DEF PollAnswered, PollError
    <3> QED
      BY <2>1, <3>1, MarkStep, MarkType
  <2>3. CASE Push
    BY <2>1, <2>3, MarkStep, MarkType DEF Push
  <2> QED
    BY <2>2, <2>3
<1>3. /\ late' \in 0 .. (IF Fresh > Hang THEN Fresh ELSE Hang)
      /\ quiet' \in 0 .. Resync /\ cut' \in 0 .. Old
  BY <1>1, Limits DEF TypeOK, Old
<1> QED
  BY <1>1, <1>2, <1>3 DEF TypeOK, ids, world

\* The tunnel and the world.
LEMMA OthersType ==
  ASSUME TypeOK, Dial \/ NoPush \/ TunnelBreaks \/ World \/ Crash \/ UNCHANGED vars
  PROVE  TypeOK'
<1>1. CASE Dial \/ NoPush \/ TunnelBreaks
  <2>1. /\ UNCHANGED <<faults, pc, late, ids, world, marks, cut>>
        /\ tunnel' \in {"up", "down"} /\ quiet' \in {0, Resync} /\ calm' \in {0, calm}
    BY <1>1 DEF Dial, NoPush, TunnelBreaks, past, TypeOK
  <2>2. quiet' \in 0 .. Resync /\ calm' \in 0 .. Settle
    BY <2>1, Limits DEF TypeOK
  <2> QED
    BY <2>1, <2>2 DEF TypeOK, ids, world, marks
<1>2. CASE World
  <2>1. /\ UNCHANGED <<faults, pc, late, push, marks>>
        /\ host' \in {"unknown", "pending", "connected"}
        /\ idFile' \in {idFile, "old"} /\ id' \in {id, "old"}
        /\ calm' \in {0, calm} /\ cut' \in {0, cut}
    BY <1>2 DEF World, Approve, Reject, Forget, Outage, DockerStops, ids, past, TypeOK
  <2>2. reach' \in BOOLEAN /\ docker' \in BOOLEAN
    BY <1>2 DEF World, Approve, Reject, Forget, Outage, DockerStops, TypeOK
  <2>3. calm' \in 0 .. Settle /\ cut' \in 0 .. Old
    BY <2>1, Limits DEF TypeOK, Old
  <2> QED
    BY <2>1, <2>2, <2>3 DEF TypeOK, push, marks
<1>3. CASE Crash
  <2>1. late' = 0 /\ quiet' = 0 /\ calm' = 0 /\ cut' = 0 /\ mem' = Unknown
    BY <1>3 DEF Crash, GoTo
  <2>2. /\ late' \in 0 .. (IF Fresh > Hang THEN Fresh ELSE Hang)
        /\ quiet' \in 0 .. Resync /\ calm' \in 0 .. Settle /\ cut' \in 0 .. Old
        /\ mem' \in HealthState
    BY <2>1, Limits, MarkStep DEF TypeOK, Old
  <2> QED
    BY <1>3, <2>2 DEF Crash, GoTo, TypeOK, world
<1>4. CASE UNCHANGED vars
  BY <1>4 DEF vars, ids, world, push, marks, past, TypeOK
<1> QED
  BY <1>1, <1>2, <1>3, <1>4

\* A tick: every clock goes on, up to its limit.
LEMMA TickType ==
  ASSUME TypeOK, TimeInv, Tick
  PROVE  TypeOK' /\ mem' = Aged(mem) /\ file' = Aged(file)
<1>1. UpTo(late + 1, Fresh) \in 0 .. (IF Fresh > Hang THEN Fresh ELSE Hang)
  BY Limits DEF UpTo, TypeOK
<1>2. calm' \in 0 .. Settle /\ cut' \in 0 .. Old
  BY Limits DEF Tick, UpTo, TypeOK, Old
<1>3. quiet' \in 0 .. Resync
  BY Limits DEF Tick, Due, TypeOK
<1>4. mem' \in HealthState /\ file' \in HealthState
  BY AgedStep DEF Tick, TypeOK
<1> QED
  BY <1>1, <1>2, <1>3, <1>4 DEF Tick, TypeOK, ids, world

-----------------------------------------------------------------------------
(* Unhealthy when stuck.                                                   *)

\* With the controller in reach until now nothing is to be shown.
LEMMA NotCutOff ==
  ASSUME TypeOK', cut' = 0 PROVE StuckInv'
<1>1. \A age \in Ages : age = Never \/ age >= 0
  BY Limits DEF Ages, Old
<1>2. /\ file'.controller \in Ages
      /\ mem'.controller \in Ages /\ mem'.connected \in Ages /\ mem'.statePushed \in Ages
  BY DEF TypeOK, HealthState
<1> QED
  BY <1>1, <1>2 DEF StuckInv, NoNewer, AtLeast

\* A tick makes everything as much older as the time it counts.
LEMMA OlderThan ==
  ASSUME NEW age \in Ages, NEW n \in 0 .. Old, NEW m \in 0 .. UpTo(n + 1, Old)
  PROVE  /\ AtLeast(age, n) => AtLeast(Older(age), m)
         /\ age # Never /\ age >= n => Older(age) # Never /\ Older(age) >= m
  BY OlderStep, Limits DEF AtLeast, UpTo, Old

\* No step leaves something newer than the time the controller was cut off for.
LEMMA StuckPreserved == ASSUME TypeOK, TypeOK', TimeInv, StuckInv, [Next]_vars PROVE StuckInv'
<1>1. CASE Places
  <2>1. /\ UNCHANGED <<faults, marks, cut>>
        /\ host' = host \/ host = "unknown"
    BY <1>1 DEF Places, Start, LoadId, Enroll, EnrollFails, Retry, CreateIdFile, FillIdFile,
         CacheFails, PollFails, PollGone, RemoveFails, Gone, NoCommand, BeginDeploy, EndDeploy,
         GoTo, Recorded, world, marks, past
  <2> QED
    BY <2>1 DEF StuckInv, NoNewer, AtLeast, marks
<1>2. CASE PollAnswered
  <2>1. CASE mem.connected = Never \/ host # "connected"
    <3>1. cut' = 0
      BY <1>2, <2>1 DEF PollAnswered, StuckInv
    <3> QED
      BY <3>1, NotCutOff
  <2>2. CASE mem.connected # Never /\ host = "connected"
    <3>1. /\ UNCHANGED <<faults, host, cut>>
          /\ mem'.connected = mem.connected /\ mem'.statePushed = mem.statePushed
          /\ file' \in {file, mem'}
      BY <1>2, <2>2 DEF PollAnswered, Mark, ControllerSeen, world
    <3> QED
      BY <2>2, <3>1 DEF StuckInv, NoNewer
  <2> QED
    BY <2>1, <2>2
<1>3. CASE PollError
  BY <1>3 DEF PollError, StuckInv, world, past
<1>4. CASE Push \/ Crash \/ Reject \/ Forget
  BY <1>4, NotCutOff DEF Push, Crash, Reject, Forget
<1>5. CASE Dial \/ NoPush \/ TunnelBreaks \/ Outage \/ DockerStops \/ UNCHANGED vars
  <2>1. UNCHANGED <<faults, host, mem, file, cut>>
    BY <1>5 DEF Dial, NoPush, TunnelBreaks, Outage, DockerStops, vars, world, marks, past
  <2> QED
    BY <2>1 DEF StuckInv, NoNewer, AtLeast
<1>6. CASE Approve
  <2>1. cut' = 0
    BY <1>6 DEF Approve, StuckInv, past
  <2> QED
    BY <2>1, NotCutOff
<1>7. CASE Tick
  <2>1. CASE cut' = 0
    BY <2>1, NotCutOff
  <2>2. CASE cut' # 0
    <3>1. host = "connected" /\ UNCHANGED <<faults, host>> /\ cut' = UpTo(cut + 1, Old)
      BY <1>7, <2>2 DEF Tick, world
    <3>2. cut \in 0 .. Old /\ cut' \in 0 .. UpTo(cut + 1, Old)
      BY <3>1, Limits DEF TypeOK, UpTo, Old
    <3>3. mem \in HealthState /\ file \in HealthState /\ mem' = Aged(mem) /\ file' = Aged(file)
      BY <1>7 DEF Tick, TypeOK
    <3> DEFINE m == cut'
    <3>4. ASSUME NEW s \in {mem, file}
          PROVE  /\ s.controller \in Ages /\ s.connected \in Ages /\ s.statePushed \in Ages
                 /\ Aged(s).controller = Older(s.controller)
                 /\ Aged(s).connected = Older(s.connected)
                 /\ Aged(s).statePushed = Older(s.statePushed)
      BY <3>3, AgedStep DEF HealthState
    <3>5. \A age \in Ages :
            /\ AtLeast(age, cut) => AtLeast(Older(age), cut')
            /\ age # Never /\ age >= cut => Older(age) # Never /\ Older(age) >= cut'
            /\ age = Never => Older(age) = Never
      BY <3>2, OlderThan, OlderStep
    <3>6. "errors" \notin faults =>
            /\ NoNewer(file)
            /\ mem.connected # Never => mem.connected >= cut /\ AtLeast(mem.statePushed, cut)
            /\ mem.connected = Never => AtLeast(mem.controller, cut)
      BY DEF StuckInv
    <3>7. "errors" \notin faults => NoNewer(file)'
      BY <3>3, <3>4, <3>5, <3>6 DEF NoNewer, AtLeast
    <3>8. "errors" \notin faults =>
            /\ mem'.connected # Never => mem'.connected >= cut' /\ AtLeast(mem'.statePushed, cut')
            /\ mem'.connected = Never => AtLeast(mem'.controller, cut')
      <4>1. mem.connected # Never <=> Older(mem.connected) # Never
        BY <3>4, OlderStep
      <4> QED
        BY <3>3, <3>4, <3>5, <3>6, <4>1
    <3> QED
      BY <3>1, <3>7, <3>8 DEF StuckInv, AtLeast
  <2> QED
    BY <2>1, <2>2
<1> QED
  BY <1>1, <1>2, <1>3, <1>4, <1>5, <1>6, <1>7 DEF Next, Agent, Tunnel, World, Places

\* How long the loop stays in one place.
LEMMA TimePreserved == ASSUME TypeOK, TypeOK', TimeInv, [Next]_vars PROVE TimeInv'
<1>1. CASE Agent \/ Crash
  <2>1. late' = 0 /\ (pc' = "off" => calm' = 0)
    BY <1>1 DEF Agent, Start, LoadId, Enroll, EnrollFails, Retry, CreateIdFile, FillIdFile,
         CacheFails, PollFails, PollGone, RemoveFails, Gone, PollAnswered, PollError,
         NoCommand, BeginDeploy, EndDeploy, Crash, GoTo
  <2> QED
    BY <2>1, Limits DEF TimeInv
<1>2. CASE Tunnel \/ World \/ UNCHANGED vars
  <2>1. pc' = pc /\ late' = late /\ calm' \in {0, calm}
    BY <1>2 DEF Tunnel, Dial, Push, NoPush, TunnelBreaks, World, Approve, Reject, Forget, Outage,
                DockerStops, vars, past
  <2> QED
    BY <2>1, Limits DEF TimeInv, TypeOK
<1>3. CASE Tick
  <2>1. /\ pc' = pc /\ late \in Nat /\ calm \in Nat
        /\ late' = UpTo(late + 1, Fresh)
        /\ calm' = IF Trouble THEN 0 ELSE UpTo(calm + 1, Settle)
        /\ pc \notin {"load", "create", "fill", "command"}
        /\ pc \in {"sleep", "retry"} => ~(late >= (IF calm < Hang THEN Hang ELSE 1))
    BY <1>3 DEF Tick, Due, TypeOK
  <2>2. calm' \in Nat /\ calm' <= calm + 1 /\ late' \in Nat /\ late' <= late + 1
    BY <2>1, Limits DEF UpTo
  <2>3. pc \in {"sleep", "retry"} => late' <= Hang /\ (calm' > Hang => late' <= 1)
    <3>1. CASE calm < Hang
      BY <2>1, <2>2, <3>1, Limits
    <3>2. CASE ~(calm < Hang)
      BY <2>1, <2>2, <3>2, Limits
    <3> QED
      BY <3>1, <3>2
  <2>4. pc = "deploy" /\ calm' > 0 => late' <= Fresh - 2
    <3>1. pc = "deploy" /\ calm' > 0 => ~(late + 2 >= Fresh)
      BY <2>1 DEF Trouble
    <3> QED
      BY <2>1, <2>2, <3>1, Limits
  <2>5. pc = "off" => calm' = 0
    BY <2>1 DEF Trouble
  <2> QED
    BY <2>1, <2>3, <2>4, <2>5 DEF TimeInv
<1> QED
  BY <1>1, <1>2, <1>3 DEF Next

-----------------------------------------------------------------------------
(* Healthy when working.                                                   *)

\* The clocks and the ages are numbers.
LEMMA Numbers ==
  ASSUME TypeOK
  PROVE  /\ late \in Nat /\ calm \in 0 .. Settle /\ quiet \in 0 .. Resync
         /\ {file.controller, mem.controller, mem.connected, mem.statePushed} \subseteq Ages
         /\ \A age \in Ages : age \in Int /\ (age # Never => age >= 0)
         /\ Never = -1 /\ Never \in Ages /\ Old \in Nat
<1>1. late \in Nat /\ calm \in 0 .. Settle /\ quiet \in 0 .. Resync
  BY Limits DEF TypeOK
<1>2. {file.controller, mem.controller, mem.connected, mem.statePushed} \subseteq Ages
  BY DEF TypeOK, HealthState
<1>3. /\ \A age \in Ages : age \in Int /\ (age # Never => age >= 0)
      /\ Never = -1 /\ Never \in Ages /\ Old \in Nat
  BY Limits DEF Ages, Never, Old
<1> QED
  BY <1>1, <1>2, <1>3

\* A step of the poll loop that only goes somewhere else: the tunnel's news
\* stay what they were.
LEMMA NewsStay ==
  ASSUME TypeOK, NewsInv, UNCHANGED <<mem, tunnel, quiet>>, calm' \in {0, calm},
         tunnel = "none" /\ mem.connected # Never => pc' = pc /\ late' = late
  PROVE  NewsInv'
<1>1. calm' <= calm /\ calm' \in Nat /\ quiet \in Nat
  BY Numbers
<1>2. Recovery \in Nat
  BY Limits DEF Recovery, Hearing
<1>3. News' = News
  BY DEF News
<1> QED
  BY <1>1, <1>2, <1>3, Numbers DEF NewsInv

\* From the start to an id: any trouble is recent, or the last answer is.
LEMMA EnrolPreserves ==
  ASSUME TypeOK, TypeOK', TimeInv, Working, "disk" \notin faults,
         \/ Start \/ LoadId \/ Enroll \/ EnrollFails \/ Retry \/ CreateIdFile \/ FillIdFile
         \/ PollFails \/ PollGone
  PROVE  Working'
<1> USE Limits, Numbers DEF GoTo, ids, world, push, marks, past
<1>1. /\ UNCHANGED <<mem, file, tunnel, quiet>> /\ late' = 0 /\ calm' \in {0, calm}
      /\ pc \notin {"command", "deploy"} /\ pc' \notin {"off", "command", "deploy"}
  BY DEF Start, LoadId, Enroll, EnrollFails, Retry, CreateIdFile, FillIdFile,
         PollFails, PollGone, Gone
<1>2. NewsInv'
  <2>1. ~(tunnel = "none" /\ mem.connected # Never)
    BY <1>1 DEF Working, NewsInv
  <2> QED
    BY <1>1, <2>1, NewsStay DEF Working
<1>3. CASE EnrollFails \/ PollFails
  <2>1. calm' = 0 /\ (pc' = "retry" => idFile' = "none") /\ pc' \in {"retry", "sleep"}
    BY <1>3 DEF EnrollFails, PollFails
  <2>2. IdInv' /\ SeenInv' /\ BehindInv'
    BY <1>1, <2>1 DEF IdInv, SeenInv, BehindInv, Hearing
  <2> QED
    BY <1>2, <2>2 DEF Working
<1>4. CASE Start
  <2>1. calm' = 0 /\ pc' = "load"
    BY <1>4 DEF Start, TimeInv
  <2>2. IdInv' /\ SeenInv' /\ BehindInv'
    BY <1>1, <2>1 DEF IdInv, SeenInv, BehindInv, Hearing
  <2> QED
    BY <1>2, <2>2 DEF Working
<1>5. CASE LoadId
  <2>1. calm' = 0 /\ pc' = "sleep"
    BY <1>5 DEF LoadId, Working, IdInv
  <2>2. IdInv' /\ SeenInv' /\ BehindInv'
    BY <1>1, <2>1 DEF IdInv, SeenInv, BehindInv, Hearing
  <2> QED
    BY <1>2, <2>2 DEF Working
<1>6. CASE Retry
  <2>1. /\ pc = "retry" /\ pc' = "load" /\ UNCHANGED <<idFile, calm, host>>
        /\ idFile = "none" /\ calm <= late /\ late <= Hang
    BY <1>6 DEF Retry, Working, IdInv, TimeInv
  <2>2. IdInv' /\ SeenInv' /\ BehindInv'
    BY <1>1, <2>1 DEF IdInv, SeenInv, BehindInv, Hearing
  <2> QED
    BY <1>2, <2>2 DEF Working
<1>7. CASE PollGone
  <2>1. /\ pc = "sleep" /\ ~Known /\ pc' = "load" /\ idFile' = "none" /\ UNCHANGED <<calm, host>>
        /\ late <= Hang /\ (calm > Hang => late <= 1)
    BY <1>7 DEF PollGone, Gone, TimeInv
  <2>2. IdInv'
    BY <2>1 DEF IdInv
  <2>3. SeenInv'
    BY <1>1, <2>1 DEF Working, SeenInv, Seen
  <2>4. BehindInv'
    BY <1>1, <2>1 DEF Working, BehindInv, Behind, Hearing
  <2> QED
    BY <1>2, <2>2, <2>3, <2>4 DEF Working
<1>8. CASE Enroll
  <2>1. /\ pc = "load" /\ pc' = "create" /\ UNCHANGED <<calm, idFile>> /\ Known'
        /\ host' = host \/ host = "unknown"
    BY <1>8 DEF Enroll, Recorded, Known
  <2>2. IdInv'
    BY <2>1 DEF IdInv
  <2>3. SeenInv'
    BY <1>1, <2>1 DEF Working, SeenInv, Seen
  <2>4. BehindInv'
    BY <1>1, <2>1 DEF Working, BehindInv, Behind
  <2> QED
    BY <1>2, <2>2, <2>3, <2>4 DEF Working
<1>9. CASE CreateIdFile
  <2>1. pc = "create" /\ pc' = "fill" /\ UNCHANGED <<calm, id, host>>
    BY <1>9 DEF CreateIdFile
  <2>2. IdInv' /\ SeenInv' /\ BehindInv'
    BY <1>1, <2>1 DEF Working, IdInv, SeenInv, Seen, BehindInv, Behind, Known
  <2> QED
    BY <1>2, <2>2 DEF Working
<1>10. CASE FillIdFile
  <2>1. /\ pc = "fill" /\ pc' = "sleep" /\ UNCHANGED <<calm, id, host>>
        /\ ~Known => calm = 0
    BY <1>10 DEF FillIdFile, Working, IdInv
  <2>2. IdInv' /\ SeenInv' /\ BehindInv'
    BY <1>1, <2>1 DEF Working, IdInv, SeenInv, Seen, BehindInv, Behind, Hearing, Known
  <2> QED
    BY <1>2, <2>2 DEF Working
<1> QED
  BY <1>3, <1>4, <1>5, <1>6, <1>7, <1>8, <1>9, <1>10

\* A command, and the deploy that keeps the loop from asking.
LEMMA CommandPreserves ==
  ASSUME TypeOK, TypeOK', TimeInv, Working, NoCommand \/ BeginDeploy \/ EndDeploy
  PROVE  Working'
<1> USE Limits, Numbers DEF GoTo, ids, world, push, marks, past
<1>1. /\ UNCHANGED <<mem, file, quiet, calm, host, id, idFile>> /\ late' = 0
      /\ pc \in {"command", "deploy"} /\ pc' \in {"sleep", "deploy"}
  BY DEF NoCommand, BeginDeploy, EndDeploy
<1>2. /\ pc = "command" => late = 0
      /\ pc = "deploy" /\ calm > 0 => late <= Fresh - 2
  BY DEF TimeInv
<1>3. CASE BeginDeploy
  <2>1. IdInv' /\ SeenInv' /\ BehindInv'
    BY <1>1, <1>3 DEF BeginDeploy, Working, IdInv, SeenInv, Seen, BehindInv, Behind
  <2>2. NewsInv'
    BY <1>1, <1>2, <1>3 DEF BeginDeploy, Working, NewsInv, News
  <2> QED
    BY <2>1, <2>2 DEF Working
<1>4. CASE NoCommand \/ EndDeploy
  <2>1. pc' = "sleep" /\ tunnel' = (IF tunnel = "none" THEN "down" ELSE tunnel) /\ Known' = Known
    BY <1>1, <1>4 DEF NoCommand, EndDeploy, StartTunnel, Known
  <2>2. IdInv'
    BY <2>1 DEF IdInv
  <2>3. SeenInv'
    BY <1>1, <1>2, <2>1 DEF Working, SeenInv, Seen
  <2>4. BehindInv'
    BY <1>1, <1>2, <2>1 DEF Working, BehindInv, Behind, Hearing
  <2>5. NewsInv'
    <3>1. mem.controller # Never
      BY <1>1 DEF Working, SeenInv, Seen
    <3>2. CASE tunnel # "none"
      BY <1>1, <2>1, <3>2, <3>1 DEF Working, NewsInv, News
    <3>3. CASE tunnel = "none"
      <4>1. News <= Lull \/ calm <= Recovery
        BY <1>1, <1>2, <3>3 DEF Working, NewsInv, News, Lull, Recovery, Hearing
      <4> QED
        BY <1>1, <2>1, <3>3, <3>1, <4>1 DEF Working, NewsInv, News
    <3> QED
      BY <3>2, <3>3
  <2> QED
    BY <2>2, <2>3, <2>4, <2>5 DEF Working
<1> QED
  BY <1>3, <1>4

\* After an answer the file is as new as the record in memory.
LEMMA PollPreserves ==
  ASSUME TypeOK, TypeOK', TimeInv, Working, "disk" \notin faults, PollAnswered \/ PollError
  PROVE  Working'
<1> USE Limits, Numbers DEF GoTo, ids, world, push, past
<1>1. /\ UNCHANGED <<tunnel, quiet, calm, host, id, idFile>> /\ late' = 0
      /\ pc = "sleep" /\ pc' \in {"sleep", "command"}
      /\ late <= Hang /\ (calm > Hang => late <= 1)
  BY DEF PollAnswered, PollError, TimeInv
<1>2. PICK b \in BOOLEAN :
        /\ mem' = ControllerSeen(mem, b) /\ file' = mem'
        /\ b => host = "connected" /\ Known
        /\ pc' = "command" => b
        /\ b => PollAnswered /\ pc' = "command"
  <2>1. CASE PollAnswered
    <3>1. mem' = ControllerSeen(mem, host = "connected") /\ file' = mem'
      BY <2>1 DEF PollAnswered, Mark
    <3> QED
      BY <2>1, <3>1 DEF PollAnswered
  <2>2. CASE PollError
    <3>1. mem' = ControllerSeen(mem, FALSE) /\ file' = mem'
      BY <2>2 DEF PollError, Mark
    <3> QED
      BY <2>2, <3>1 DEF PollError
  <2> QED
    BY <2>1, <2>2
<1>3. /\ mem'.controller = 0 /\ mem'.controller # Never
      /\ ~b => mem'.connected = Never /\ mem'.statePushed = Never
      /\ b => mem'.connected = (IF mem.connected = Never THEN 0 ELSE mem.connected)
              /\ mem'.statePushed = mem.statePushed
  BY <1>2 DEF ControllerSeen
<1>4. IdInv'
  BY <1>1 DEF IdInv
<1>5. SeenInv'
  BY <1>1, <1>2, <1>3 DEF SeenInv, Seen
<1>6. BehindInv'
  BY <1>1, <1>2, <1>3 DEF BehindInv, Behind
<1>7. NewsInv'
  <2>1. CASE ~b
    <3>1. mem'.connected = Never /\ mem'.statePushed = Never
      BY <1>3, <2>1
    <3>2. News' = 0
      BY <3>1 DEF News
    <3> QED
      BY <1>1, <1>3, <3>1, <3>2 DEF NewsInv, Lull
  <2>2. CASE b /\ mem.connected # Never
    <3>1. mem'.connected = mem.connected /\ mem'.statePushed = mem.statePushed
      BY <1>3, <2>2
    <3>2. News' = News
      BY <3>1 DEF News
    <3> QED
      BY <1>1, <1>3, <2>2, <3>1, <3>2 DEF Working, NewsInv
  <2>3. CASE b /\ mem.connected = Never
    <3>1. mem'.connected = 0 /\ mem'.statePushed = mem.statePushed /\ pc' = "command"
      BY <1>2, <1>3, <2>3
    <3>2. News' = News
      BY <2>3, <3>1 DEF News
    <3>3. tunnel = "none" => mem.statePushed = Never
      BY DEF Working, NewsInv
    <3> QED
      BY <1>1, <1>3, <2>3, <3>1, <3>2, <3>3 DEF Working, NewsInv
  <2> QED
    BY <2>1, <2>2, <2>3
<1> QED
  BY <1>4, <1>5, <1>6, <1>7 DEF Working

\* A dial asks for news at once; a push brings them.
LEMMA TunnelPreserves ==
  ASSUME TypeOK, TypeOK', TimeInv, Working, "disk" \notin faults, Tunnel
  PROVE  Working'
<1> USE Limits, Numbers DEF ids, world, past
<1>1. UNCHANGED <<pc, late, host, id, idFile>> /\ calm' \in {0, calm} /\ Known' = Known
  BY DEF Tunnel, Dial, Push, NoPush, TunnelBreaks, Known
<1>2. IdInv'
  BY <1>1 DEF Working, IdInv
<1>3. CASE Push
  <2>1. /\ mem' = StatePushed(mem) /\ file' = mem' /\ mem \in HealthState
        /\ tunnel = "up" /\ tunnel' = "up" /\ quiet' = 0 /\ calm' = calm
    BY <1>3 DEF Push, Mark, TypeOK
  <2>2. mem'.controller = mem.controller /\ mem'.connected = mem.connected /\ mem'.statePushed = 0
    BY <2>1, MarkStep
  <2>3. SeenInv'
    BY <1>1, <2>1, <2>2 DEF Working, SeenInv, Seen
  <2>4. BehindInv'
    BY <1>1, <2>1, <2>2 DEF Working, BehindInv, Behind
  <2>5. News' = 0
    BY <2>2 DEF News
  <2>6. NewsInv'
    BY <2>1, <2>2, <2>5 DEF Working, NewsInv
  <2> QED
    BY <1>2, <2>3, <2>4, <2>6 DEF Working
<1>4. CASE Dial \/ NoPush \/ TunnelBreaks
  <2>1. mem' = mem /\ file' = file
    BY <1>4 DEF Dial, NoPush, TunnelBreaks, marks
  <2>2. SeenInv' /\ BehindInv'
    BY <1>1, <2>1 DEF Working, SeenInv, Seen, BehindInv, Behind, Hearing
  <2>3. News' = News /\ tunnel # "none" /\ tunnel' # "none"
    BY <1>4, <2>1 DEF News, Dial, NoPush, TunnelBreaks
  <2>4. /\ tunnel' = "up" /\ quiet' < Resync => News <= quiet' \/ calm' <= quiet'
        /\ tunnel' = "down" \/ (tunnel' = "up" /\ quiet' = Resync) => News <= Lull \/ calm' <= Recovery
    <3>1. News \in Int /\ Lull \in Int /\ Recovery \in Int /\ Resync <= Lull /\ Resync <= Recovery
      BY DEF News, Lull, Recovery, Hearing
    <3>2. CASE Dial
      BY <1>1, <3>1, <3>2 DEF Dial, Working, NewsInv
    <3>3. CASE NoPush
      BY <1>1, <3>1, <3>3 DEF NoPush
    <3>4. CASE TunnelBreaks
      BY <1>1, <3>1, <3>4 DEF TunnelBreaks, Working, NewsInv
    <3> QED
      BY <1>4, <3>2, <3>3, <3>4
  <2>5. NewsInv'
    BY <2>1, <2>3, <2>4 DEF Working, NewsInv
  <2> QED
    BY <1>2, <2>2, <2>5 DEF Working
<1> QED
  BY <1>3, <1>4 DEF Tunnel

\* The controller and the network: what makes the agent wrong is a trouble.
LEMMA WorldPreserves ==
  ASSUME TypeOK, TypeOK', TimeInv, Working, World \/ Crash \/ UNCHANGED vars
  PROVE  Working'
<1> USE Limits, Numbers DEF world, marks, push, past, ids
<1>1. CASE Crash
  <2>1. /\ pc' = "off" /\ calm' = 0 /\ mem' = Unknown /\ tunnel' = "none"
        /\ mem'.connected = Never /\ mem'.statePushed = Never
    BY <1>1 DEF Crash, GoTo, Unknown
  <2>2. NewsInv'
    BY <2>1 DEF NewsInv
  <2> QED
    BY <2>1, <2>2 DEF Working, IdInv, SeenInv, BehindInv
<1>2. CASE World \/ UNCHANGED vars
  <2>1. /\ UNCHANGED <<pc, late, tunnel, quiet, mem, file>> /\ calm' \in {0, calm}
        /\ \/ calm' = 0
           \/ /\ UNCHANGED <<calm, id, idFile>> /\ (Known' = Known)
              /\ host' # "connected" => host = host'
        /\ pc = "retry" => (idFile = "none" => idFile' = "none")
    BY <1>2 DEF World, Approve, Reject, Forget, Outage, DockerStops, vars, Known
  <2>2. NewsInv'
    BY <2>1, NewsStay DEF Working
  <2>3. CASE calm' = 0
    BY <2>1, <2>2, <2>3 DEF Working, IdInv, SeenInv, Seen, BehindInv, Hearing
  <2>4. CASE UNCHANGED <<calm, id, idFile>> /\ (Known' = Known) /\ (host' # "connected" => host = host')
    BY <2>1, <2>2, <2>4 DEF Working, IdInv, SeenInv, Seen, BehindInv, Behind, Hearing
  <2> QED
    BY <2>1, <2>3, <2>4
<1> QED
  BY <1>1, <1>2

\* Long enough after a trouble, the controller was seen recently and the file
\* says so.
LEMMA SeenRecently ==
  TypeOK /\ TimeInv /\ IdInv /\ SeenInv => calm <= Hang + 1 \/ Seen(Fresh)
<1> SUFFICES ASSUME TypeOK, TimeInv, IdInv, SeenInv PROVE calm <= Hang + 1 \/ Seen(Fresh)
  OBVIOUS
<1> USE Limits, Numbers DEF TimeInv, Seen
<1>1. CASE pc \in {"off", "retry"}
  BY <1>1 DEF IdInv
<1>2. CASE pc = "sleep" /\ ~Known
  BY <1>2 DEF SeenInv
<1>3. CASE pc = "sleep" /\ Known
  BY <1>3 DEF SeenInv
<1>4. CASE pc \in {"load", "create", "fill"}
  BY <1>4 DEF SeenInv
<1>5. CASE pc \in {"command", "deploy"}
  BY <1>5 DEF SeenInv
<1> QED
  BY <1>1, <1>2, <1>3, <1>4, <1>5 DEF TypeOK

\* Long enough after a trouble, the agent has heard that it is not connected.
LEMMA HeardOf ==
  TypeOK /\ TimeInv /\ IdInv /\ BehindInv /\ Behind => calm <= Hearing + 1
<1> SUFFICES ASSUME TypeOK, TimeInv, IdInv, BehindInv, Behind PROVE calm <= Hearing + 1
  OBVIOUS
<1> USE Limits, Numbers DEF TimeInv, Hearing
<1>1. CASE pc \in {"off", "retry"}
  BY <1>1 DEF IdInv
<1>2. CASE pc = "sleep" /\ ~Known
  BY <1>2 DEF BehindInv
<1>3. CASE pc = "sleep" /\ Known
  BY <1>3 DEF BehindInv
<1>4. CASE pc \in {"load", "create", "fill"}
  BY <1>4 DEF BehindInv
<1>5. CASE pc \in {"command", "deploy"}
  BY <1>5 DEF BehindInv
<1> QED
  BY <1>1, <1>2, <1>3, <1>4, <1>5 DEF TypeOK

\* The same of the state after a step.
LEMMA AfterwardsToo ==
  /\ (TypeOK /\ TimeInv /\ IdInv /\ SeenInv => calm <= Hang + 1 \/ Seen(Fresh))'
  /\ (TypeOK /\ TimeInv /\ IdInv /\ BehindInv /\ Behind => calm <= Hearing + 1)'
  BY SeenRecently, HeardOf, PTL

\* What a tick does to the clocks and to the ages of the marks.
LEMMA TickClocks ==
  ASSUME TypeOK, TimeInv, Tick
  PROVE  /\ UNCHANGED <<faults, pc, ids, world, tunnel>>
         /\ pc \in {"off", "retry", "sleep", "deploy"}
         /\ late' = (IF late < Fresh THEN late + 1 ELSE late)
         /\ pc \in {"retry", "sleep"} => late' = late + 1
         /\ calm' \in Nat /\ calm' <= calm + 1 /\ (Trouble => calm' = 0)
         /\ quiet' = (IF tunnel = "up" THEN quiet + 1 ELSE quiet)
         /\ tunnel = "up" => quiet < Resync
         /\ tunnel = "down" => ~reach \/ host # "connected"
<1> USE Limits, Numbers
<1>1. late \in 0 .. Fresh
  BY DEF TypeOK
<1>2. late' = (IF late < Fresh THEN late + 1 ELSE late)
  BY <1>1 DEF Tick, UpTo
<1>3. pc \in {"retry", "sleep"} => ~(late >= (IF calm < Hang THEN Hang ELSE 1))
  BY DEF Tick, Due
<1>4. pc \in {"retry", "sleep"} => late < Fresh
  BY <1>1, <1>3
<1>5. calm' \in Nat /\ calm' <= calm + 1 /\ (Trouble => calm' = 0)
  BY DEF Tick, UpTo
<1>6. /\ pc \in {"off", "retry", "sleep", "deploy"}
      /\ tunnel = "up" => quiet < Resync
      /\ tunnel = "down" => ~reach \/ host # "connected"
  BY DEF Tick, Due, TypeOK
<1> QED
  BY <1>2, <1>4, <1>5, <1>6 DEF Tick

\* The marks get older, in memory and in the file alike.
LEMMA TickAges ==
  ASSUME TypeOK, TimeInv, Tick
  PROVE  /\ \A mark \in {"controller", "connected", "statePushed"} :
              mem'[mark] = Older(mem[mark]) /\ mem[mark] \in Ages
         /\ file = mem => file' = mem'
<1>1. mem \in HealthState /\ mem' = Aged(mem) /\ file' = Aged(file)
  BY TickType DEF TypeOK
<1>2. mem.controller \in Ages /\ mem.connected \in Ages /\ mem.statePushed \in Ages
  BY <1>1 DEF HealthState
<1> QED
  BY <1>1, <1>2, AgedStep

\* Time: one tick after the other, the loop gets round before it is too late.
LEMMA TickPreserves ==
  ASSUME TypeOK, TypeOK', TimeInv, TimeInv', Working, Tick
  PROVE  Working'
<1> USE Limits, Numbers
<1> DEFINE ThenSeen(n) == file' = mem' /\ file'.controller # Never /\ file'.controller <= n
<1>1. /\ UNCHANGED <<faults, pc, idFile, id, host, reach, docker, tunnel>>
      /\ pc \in {"off", "retry", "sleep", "deploy"}
      /\ late' = (IF late < Fresh THEN late + 1 ELSE late)
      /\ pc \in {"retry", "sleep"} => late' = late + 1
      /\ calm' \in Nat /\ calm' <= calm + 1 /\ (Trouble => calm' = 0)
      /\ quiet' = (IF tunnel = "up" THEN quiet + 1 ELSE quiet)
      /\ tunnel = "up" => quiet < Resync
      /\ tunnel = "down" => ~reach \/ host # "connected"
  BY TickClocks DEF ids, world
<1>2. /\ mem'.controller = Older(mem.controller) /\ mem.controller \in Ages
      /\ mem'.connected = Older(mem.connected) /\ mem.connected \in Ages
      /\ mem'.statePushed = Older(mem.statePushed) /\ mem.statePushed \in Ages
      /\ file = mem => file' = mem'
  BY TickAges
<1>3. /\ mem'.controller = Never <=> mem.controller = Never
      /\ mem'.connected = Never <=> mem.connected = Never
      /\ mem'.statePushed = Never <=> mem.statePushed = Never
  BY <1>2, OlderStep
<1>4. /\ mem.controller # Never => mem'.controller <= mem.controller + 1 /\ mem'.controller <= Old
      /\ mem.connected # Never => mem'.connected <= mem.connected + 1
      /\ mem.statePushed # Never => mem'.statePushed <= mem.statePushed + 1
      /\ {mem'.controller, mem'.connected, mem'.statePushed} \subseteq Int
      /\ {mem.controller, mem.connected, mem.statePushed} \subseteq Int
  <2>1. {mem'.controller, mem'.connected, mem'.statePushed} \subseteq Ages
    BY <1>2, OlderStep
  <2> QED
    BY <1>2, <2>1, OlderStep
<1>5. ASSUME NEW n \in Nat, NEW m \in Nat, Seen(n), n + 1 <= m \/ m = Old
      PROVE  ThenSeen(m)
  <2>1. mem.controller # Never /\ mem.controller <= n /\ file' = mem'
    BY <1>2, <1>5 DEF Seen
  <2> QED
    BY <1>3, <1>4, <1>5, <2>1
<1>6. Known' = Known /\ Behind' = Behind
  BY <1>1, <1>3 DEF Known, Behind
<1>7. IdInv'
  BY <1>1, <1>6 DEF Working, IdInv
<1>8. SeenInv'
  <2>1. CASE pc \in {"off", "retry"}
    BY <1>1, <2>1 DEF SeenInv
  <2>2. CASE pc = "sleep" /\ ~Known
    <3>1. CASE calm <= late
      BY <1>1, <1>6, <2>2, <3>1 DEF SeenInv
    <3>2. CASE Seen(Fresh - 2 + late)
      <4>1. ThenSeen(Fresh - 2 + (late + 1))
        BY <1>5, <3>2
      <4> QED
        BY <1>1, <1>6, <2>2, <4>1 DEF SeenInv, Seen
    <3> QED
      BY <2>2, <3>1, <3>2 DEF Working, SeenInv
  <2>3. CASE pc = "sleep" /\ Known
    <3>1. CASE calm <= Hang + late
      BY <1>1, <1>6, <2>3, <3>1 DEF SeenInv
    <3>2. CASE Seen(Fresh - 1 + late)
      <4>1. ThenSeen(Fresh - 1 + (late + 1))
        BY <1>5, <3>2
      <4> QED
        BY <1>1, <1>6, <2>3, <4>1 DEF SeenInv, Seen
    <3> QED
      BY <2>3, <3>1, <3>2 DEF Working, SeenInv
  <2>4. CASE pc = "deploy"
    <3>1. CASE late < Fresh
      <4>1. Seen(late)
        BY <2>4, <3>1 DEF Working, SeenInv
      <4>2. ThenSeen(late + 1)
        BY <1>5, <4>1
      <4> QED
        BY <1>1, <2>4, <3>1, <4>2 DEF SeenInv, Seen
    <3>2. CASE ~(late < Fresh)
      <4>1. Seen(late) \/ Seen(Old)
        BY <2>4 DEF Working, SeenInv
      <4>2. ThenSeen(Old)
        BY <1>5, <4>1
      <4>3. late' = late /\ late = Fresh
        BY <1>1, <3>2 DEF TypeOK
      <4> QED
        BY <1>1, <2>4, <4>2, <4>3 DEF SeenInv, Seen
    <3> QED
      BY <3>1, <3>2
  <2> QED
    BY <1>1, <2>1, <2>2, <2>3, <2>4
<1>9. BehindInv'
  <2>1. CASE late < Fresh \/ pc = "sleep"
    <3>1. late' = late + 1
      BY <1>1, <2>1
    <3> QED
      BY <1>1, <1>6, <3>1 DEF Working, BehindInv, Hearing
  <2>2. CASE ~(late < Fresh) /\ pc = "deploy"
    <3>1. calm' = 0
      BY <1>1, <2>2 DEF Trouble
    <3> QED
      BY <1>1, <2>2, <3>1 DEF BehindInv
  <2> QED
    BY <1>1, <2>1, <2>2 DEF BehindInv
<1>10. NewsInv'
  <2>1. /\ tunnel' # "none" => mem'.controller # Never
        /\ tunnel' = "none" => mem'.statePushed = Never
    BY <1>1, <1>3 DEF Working, NewsInv
  <2>2. mem'.connected = Never /\ mem'.statePushed # Never =>
          mem'.controller # Never /\ mem'.statePushed <= mem'.controller
    <3>1. ASSUME mem.controller # Never, mem.statePushed # Never, mem.statePushed <= mem.controller
          PROVE  mem'.statePushed <= mem'.controller
      BY <1>2, <1>4, <3>1, OlderStep DEF Old
    <3> QED
      BY <1>3, <3>1 DEF Working, NewsInv
  <2>3. tunnel' = "none" /\ mem'.connected # Never =>
          pc' \in {"command", "deploy"} /\ (mem'.connected <= late' \/ late' = Fresh)
    <3>1. late \in 0 .. Fresh
      BY DEF TypeOK
    <3>2. tunnel = "none" /\ mem.connected # Never =>
            pc = "deploy" /\ (mem.connected <= late \/ late = Fresh)
      BY <1>1 DEF Working, NewsInv
    <3> QED
      BY <1>1, <1>3, <1>4, <3>1, <3>2
  <2>4. News' \in Int /\ (News' <= News + 1 \/ News' = 0) /\ News \in Int /\ News >= 0
    BY <1>2, <1>3, <1>4 DEF News
  <2>5. Lull \in Int /\ Recovery \in Int /\ Resync <= Lull /\ Resync <= Recovery /\ Fresh <= Lull
        /\ Hearing + 1 <= Recovery /\ Hang + 1 <= Recovery
    BY DEF Lull, Recovery, Hearing
  <2>6. CASE tunnel = "up"
    <3>1. News' <= quiet' \/ calm' <= quiet'
      BY <1>1, <2>4, <2>6 DEF Working, NewsInv
    <3> QED
      BY <1>1, <2>1, <2>2, <2>3, <2>5, <2>6, <3>1, <2>4 DEF NewsInv
  <2>7. CASE tunnel = "down"
    <3>1. News' <= Lull \/ calm' <= Recovery
      <4>1. CASE ~reach
        BY <1>1, <2>5, <4>1 DEF Trouble
      <4>2. CASE host # "connected" /\ mem'.connected # Never
        BY <1>1, <1>7, <1>9, <2>5, <4>2, AfterwardsToo DEF Behind, Hearing
      <4>3. CASE mem'.connected = Never /\ mem'.statePushed # Never
        <5>1. calm' <= Hang + 1 \/ Seen(Fresh)'
          BY <1>7, <1>8, AfterwardsToo
        <5>2. mem'.statePushed <= mem'.controller /\ News' = mem'.statePushed
          BY <2>2, <4>3 DEF News
        <5>3. CASE Seen(Fresh)'
          <6>1. mem'.controller <= Fresh
            BY <5>3 DEF Seen
          <6> QED
            BY <1>4, <2>5, <5>2, <6>1
        <5> QED
          BY <1>1, <2>5, <5>1, <5>3
      <4>4. CASE mem'.connected = Never /\ mem'.statePushed = Never
        BY <2>5, <4>4 DEF News
      <4> QED
        BY <1>1, <2>7, <4>1, <4>2, <4>3, <4>4
    <3> QED
      BY <1>1, <2>1, <2>2, <2>3, <2>7, <3>1 DEF NewsInv
  <2>8. CASE tunnel = "none"
    BY <1>1, <2>1, <2>2, <2>3, <2>8 DEF NewsInv
  <2> QED
    BY <2>6, <2>7, <2>8 DEF TypeOK
<1> QED
  BY <1>7, <1>8, <1>9, <1>10 DEF Working

-----------------------------------------------------------------------------
(* The invariant, and what follows from it.                                *)

\* Nothing has been seen yet.
LEMMA InitInv == ASSUME Init PROVE IInv
<1> USE DEF Init
<1>1. TypeOK
  <2>1. 0 \in 0 .. (IF Fresh > Hang THEN Fresh ELSE Hang) /\ 0 \in 0 .. Resync
        /\ 0 \in 0 .. Settle /\ 0 \in 0 .. Old
    BY Limits DEF Old
  <2>2. Unknown \in HealthState
    BY DEF Unknown, HealthState, Ages
  <2> QED
    BY <2>1, <2>2 DEF TypeOK
<1>2. StuckInv
  BY DEF StuckInv, NoNewer, AtLeast, Unknown
<1>3. TimeInv
  BY Limits DEF TimeInv
<1>4. Working
  <2>1. mem.connected = Never /\ mem.statePushed = Never
    BY DEF Unknown
  <2> QED
    BY <2>1 DEF Working, IdInv, SeenInv, BehindInv, Behind, NewsInv
<1> QED
  BY <1>1, <1>2, <1>3, <1>4 DEF IInv, WorkingInv

\* No step changes which faults can happen.
LEMMA FaultsStay == ASSUME [Next]_vars PROVE faults' = faults
  BY DEF Next, Agent, Tunnel, World, Start, LoadId, Enroll, EnrollFails, Retry, CreateIdFile,
         FillIdFile, CacheFails, PollFails, PollGone, RemoveFails, Gone, PollAnswered, PollError,
         NoCommand, BeginDeploy, EndDeploy, Dial, Push, NoPush, TunnelBreaks,
         Approve, Reject, Forget, Outage, DockerStops, Crash, Tick, vars

\* Every step keeps the invariant.
LEMMA StepPreserves == ASSUME IInv, [Next]_vars PROVE IInv'
<1> USE DEF IInv
<1>1. TypeOK'
  BY PlacesType, MarkingType, OthersType, TickType DEF Next, Agent, Tunnel, Places
<1>2. StuckInv' /\ TimeInv'
  BY <1>1, StuckPreserved, TimePreserved
<1>3. ASSUME "disk" \notin faults PROVE Working'
  <2>1. Working /\ ~CacheFails /\ ~RemoveFails
    BY <1>3 DEF WorkingInv, CacheFails, RemoveFails
  <2> QED
    BY <1>1, <1>2, <1>3, <2>1, EnrolPreserves, CommandPreserves, PollPreserves, TunnelPreserves,
       WorldPreserves, TickPreserves DEF Next, Agent
<1>4. WorkingInv'
  BY <1>3, FaultsStay DEF WorkingInv
<1> QED
  BY <1>1, <1>2, <1>4

\* IInv holds throughout.
LEMMA InvariantHolds == Spec => []IInv
<1>1. Init => IInv
  BY InitInv
<1>2. IInv /\ [Next]_vars => IInv'
  BY StepPreserves
<1> QED
  BY <1>1, <1>2, PTL DEF Spec

\* Variables keep their types, the clocks their bounds.
THEOREM TypeCorrect == Spec => []TypeOK
<1>1. IInv => TypeOK
  BY DEF IInv
<1> QED
  BY <1>1, InvariantHolds, PTL

\* Whatever the limits and the faults, if nothing got in the way for Settle
\* ticks the check says healthy: the controller was seen recently, and the
\* agent has heard that it is not connected, or is connected and pushed a state
\* recently, or has not had the time to.
THEOREM HealthyWhenWorkingHolds == Spec => []HealthyWhenWorking
<1>1. IInv => HealthyWhenWorking
  <2> SUFFICES ASSUME IInv, "disk" \notin faults, calm = Settle PROVE Healthy(file)
    BY DEF HealthyWhenWorking
  <2> USE Limits
  <2>1. TypeOK /\ TimeInv /\ IdInv /\ SeenInv /\ BehindInv /\ NewsInv
    BY DEF IInv, WorkingInv, Working
  <2>2. file = mem /\ file.controller # Never /\ file.controller <= Fresh
    BY <2>1, SeenRecently DEF Seen
  <2>3. /\ {mem.connected, mem.statePushed} \subseteq Int
        /\ Lull <= 3 * Resync /\ Recovery < Settle /\ late \in 0 .. Fresh
    <3>1. {mem.connected, mem.statePushed} \subseteq Int /\ late \in 0 .. Fresh
      BY <2>1, Numbers DEF TypeOK
    <3> QED
      BY <3>1 DEF Lull, Recovery, Hearing
  <2>4. CASE mem.connected = Never
    BY <2>2, <2>4 DEF Healthy, Within
  <2>5. CASE mem.connected # Never /\ tunnel = "none"
    <3>1. mem.statePushed = Never /\ (mem.connected <= late \/ late = Fresh)
      BY <2>1, <2>5 DEF NewsInv
    <3>2. late < Fresh
      <4>1. pc \in {"command", "deploy"} /\ calm > 0
        BY <2>1, <2>5 DEF NewsInv
      <4> QED
        BY <2>1, <2>3, <4>1 DEF TimeInv
    <3>3. mem.statePushed = Never /\ mem.connected <= Grace
      BY <2>3, <3>1, <3>2
    <3> QED
      BY <2>2, <2>5, <3>3 DEF Healthy, Within
  <2>6. CASE mem.connected # Never /\ tunnel # "none"
    <3>1. News <= 3 * Resync
      <4>1. quiet \in 0 .. Resync /\ tunnel \in {"down", "up"}
        BY <2>1, <2>6 DEF TypeOK
      <4>2. CASE tunnel = "up" /\ quiet < Resync
        <5>1. News <= quiet
          BY <2>1, <4>1, <4>2 DEF NewsInv
        <5>2. News \in Int
          BY <2>3 DEF News
        <5> QED
          BY <4>1, <5>1, <5>2
      <4>3. CASE ~(tunnel = "up" /\ quiet < Resync)
        <5>1. News <= Lull
          BY <2>1, <2>3, <4>1, <4>3 DEF NewsInv, Recovery, Hearing
        <5>2. News \in Int /\ Lull \in Int
          BY <2>3 DEF News, Lull
        <5> QED
          BY <2>3, <5>1, <5>2
      <4> QED
        BY <4>2, <4>3
    <3>2. CASE mem.statePushed # Never
      <4>1. mem.statePushed <= StateFresh
        BY <3>1, <3>2 DEF News, StateFresh
      <4> QED
        BY <2>2, <3>2, <4>1 DEF Healthy, Within
    <3>3. CASE mem.statePushed = Never
      <4>1. mem.connected <= Grace
        BY <2>3, <2>6, <3>1, <3>3 DEF News
      <4> QED
        BY <2>2, <2>6, <3>3, <4>1 DEF Healthy, Within
    <3> QED
      BY <3>2, <3>3
  <2> QED
    BY <2>4, <2>5, <2>6
<1> QED
  BY <1>1, InvariantHolds, PTL

\* Whatever the limits and the faults, a connected host of which no state got
\* through for longer than the grace period is not reported healthy: all that
\* the file could be healthy from is older than that.
THEOREM UnhealthyWhenStuckHolds == Spec => []UnhealthyWhenStuck
<1>1. IInv => UnhealthyWhenStuck
  <2> SUFFICES ASSUME IInv, "errors" \notin faults, cut > Grace PROVE ~Healthy(file)
    BY DEF UnhealthyWhenStuck
  <2> USE Limits
  <2>1. cut = Grace + 1
    BY DEF IInv, TypeOK, Old
  <2>2. NoNewer(file)
    BY DEF IInv, StuckInv
  <2>3. file.controller \in Int /\ file.connected \in Int /\ file.statePushed \in Int
    BY DEF IInv, TypeOK, HealthState, Ages, Never, Old
  <2>4. ASSUME NEW age \in Int, NEW limit \in 0 .. Grace, age = Never \/ age >= cut
        PROVE  ~Within(age, limit)
    BY <2>1, <2>4 DEF Within
  <2>5. {Fresh, 3 * Resync, Grace} \subseteq 0 .. Grace
    OBVIOUS
  <2>6. CASE AtLeast(file.controller, cut)
    <3>1. ~Within(file.controller, Fresh)
      BY <2>3, <2>4, <2>5, <2>6 DEF AtLeast
    <3> QED
      BY <3>1 DEF Healthy
  <2>7. CASE file.connected # Never /\ file.connected >= cut /\ AtLeast(file.statePushed, cut)
    <3>1. ~Within(file.statePushed, 3 * Resync) /\ ~Within(file.connected, Grace)
      BY <2>3, <2>4, <2>5, <2>7 DEF AtLeast
    <3> QED
      BY <2>7, <3>1 DEF Healthy, StateFresh
  <2> QED
    BY <2>2, <2>6, <2>7 DEF NoNewer
<1> QED
  BY <1>1, InvariantHolds, PTL

-----------------------------------------------------------------------------
(* What turns the check: the record in memory is never behind the file by  *)
(* more than what the controller has said since.                           *)

\* Both moments are known, and the first is not before the second.
NoLater(a, b) == a # Never /\ b # Never /\ a <= b

\* A state pushed to a host that is not connected is newer than the answer.
Pending(s) == s.connected = Never /\ s.statePushed # Never => NoLater(s.statePushed, s.controller)

\* Every moment in memory is one of the file or newer than the file, also when
\* writes of the file have failed since; a push that was forgotten was so after
\* the file was written, and so was the connection that followed.
Ahead ==
  mem.controller # Never /\ file.controller # Never =>
    /\ mem.controller <= file.controller
    /\ mem.statePushed # Never =>
         \/ mem.statePushed <= file.controller
         \/ file.connected # Never /\ NoLater(mem.statePushed, file.statePushed)
    /\ mem.connected # Never =>
         mem.connected <= file.controller \/ NoLater(mem.connected, file.connected)
    /\ file.statePushed # Never /\ file.connected # Never /\ mem.statePushed = Never
         /\ mem.connected # Never => mem.connected <= file.controller

AheadInv ==
  /\ Pending(mem) /\ Pending(file) /\ Ahead
  /\ mem.controller = Never => mem.connected = Never /\ mem.statePushed = Never
  /\ tunnel # "none" \/ pc \in {"command", "deploy"} => mem.controller # Never

\* What is known of the moments of a record.
LEMMA Moments ==
  ASSUME NEW s \in HealthState
  PROVE  /\ s.controller \in Ages /\ s.connected \in Ages /\ s.statePushed \in Ages
         /\ s.controller \in Int /\ s.connected \in Int /\ s.statePushed \in Int
         /\ s.controller # Never => s.controller >= 0
<1>1. s.controller \in Ages /\ s.connected \in Ages /\ s.statePushed \in Ages
  BY DEF HealthState
<1>2. \A age \in Ages : age \in Int /\ (age # Never => age >= 0)
  BY Limits DEF Ages, Never, Old
<1> QED
  BY <1>1, <1>2

\* Time does not change which of two moments is the newer.
LEMMA StillNoLater ==
  ASSUME NEW a \in Ages, NEW b \in Ages
  PROVE  /\ a # Never /\ b # Never /\ a <= b => Older(a) <= Older(b)
         /\ Older(a) # Never <=> a # Never
  BY Limits, OlderStep DEF Ages, Older, Never, Old

\* A mark leaves memory ahead of the file, written or not.
LEMMA MarkAhead ==
  ASSUME mem \in HealthState, file \in HealthState, AheadInv,
         \/ \E b \in BOOLEAN : mem' = ControllerSeen(mem, b)
         \/ mem' = StatePushed(mem) /\ mem.controller # Never,
         file' \in {file, mem'}
  PROVE  /\ Pending(mem') /\ Pending(file') /\ Ahead'
         /\ mem'.controller # Never
<1> USE Moments DEF AheadInv, Ahead, Pending, NoLater
<1>1. Never = -1
  BY DEF Never
<1>2. CASE \E b \in BOOLEAN : mem' = ControllerSeen(mem, b)
  <2>1. PICK b \in BOOLEAN :
          /\ mem'.controller = 0
          /\ ~b => mem'.connected = Never /\ mem'.statePushed = Never
          /\ b => mem'.connected = (IF mem.connected = Never THEN 0 ELSE mem.connected)
                  /\ mem'.statePushed = mem.statePushed
    BY <1>2 DEF ControllerSeen
  <2>2. CASE file' = mem'
    BY <1>1, <2>1, <2>2
  <2>3. CASE file' = file
    BY <1>1, <2>1, <2>3
  <2> QED
    BY <2>2, <2>3
<1>3. CASE mem' = StatePushed(mem) /\ mem.controller # Never
  <2>1. mem'.controller = mem.controller /\ mem'.connected = mem.connected /\ mem'.statePushed = 0
    BY <1>3, MarkStep
  <2>2. CASE file' = mem'
    BY <1>1, <1>3, <2>1, <2>2
  <2>3. CASE file' = file
    BY <1>1, <1>3, <2>1, <2>3
  <2> QED
    BY <2>2, <2>3
<1> QED
  BY <1>2, <1>3

\* A mark that is written leaves a healthy check healthy.
LEMMA MarkStaysHealthy ==
  ASSUME mem \in HealthState, file \in HealthState, AheadInv, Healthy(file),
         NEW s, \/ \E b \in BOOLEAN : s = ControllerSeen(mem, b)
                \/ s = StatePushed(mem) /\ mem.controller # Never
  PROVE  Healthy(s)
<1> USE Moments, Limits DEF AheadInv, Ahead, Pending, NoLater
<1>1. Never = -1
  BY DEF Never
<1>2. file.controller # Never /\ file.controller <= Fresh
  BY DEF Healthy, Within
<1>3. CASE s = StatePushed(mem) /\ mem.controller # Never
  <2>1. s.controller = mem.controller /\ s.statePushed = 0
    BY <1>3, MarkStep
  <2>2. Within(s.controller, Fresh) /\ Within(s.statePushed, StateFresh)
    BY <1>1, <1>2, <1>3, <2>1 DEF Within, StateFresh
  <2> QED
    BY <2>2 DEF Healthy
<1>4. ASSUME NEW b \in BOOLEAN, s = ControllerSeen(mem, b) PROVE Healthy(s)
  <2>1. /\ s.controller = 0
        /\ ~b => s.connected = Never
        /\ b => s.connected = (IF mem.connected = Never THEN 0 ELSE mem.connected)
                /\ s.statePushed = mem.statePushed
    BY <1>4 DEF ControllerSeen
  <2>2. Within(s.controller, Fresh)
    BY <1>1, <2>1 DEF Within
  <2>3. CASE ~b
    BY <2>1, <2>2, <2>3 DEF Healthy
  <2>4. CASE b /\ mem.controller = Never
    <3>1. s.statePushed = Never /\ Within(s.connected, Grace)
      BY <1>1, <2>1, <2>4 DEF Within
    <3> QED
      BY <2>2, <3>1 DEF Healthy
  <2>5. CASE b /\ mem.controller # Never /\ mem.statePushed # Never
    <3>1. mem.statePushed <= StateFresh
      <4>1. CASE mem.statePushed <= file.controller
        BY <1>2, <4>1 DEF StateFresh
      <4>2. CASE file.connected # Never /\ NoLater(mem.statePushed, file.statePushed)
        BY <1>1, <4>2 DEF Healthy, Within, StateFresh
      <4> QED
        BY <1>2, <2>5, <4>1, <4>2
    <3>2. Within(s.statePushed, StateFresh)
      BY <2>1, <2>5, <3>1 DEF Within
    <3> QED
      BY <2>2, <3>2 DEF Healthy
  <2>6. CASE b /\ mem.controller # Never /\ mem.statePushed = Never
    <3>1. mem.connected # Never => mem.connected <= Grace
      <4>1. CASE mem.connected # Never /\ mem.connected <= file.controller
        BY <1>2, <4>1
      <4>2. CASE NoLater(mem.connected, file.connected) /\ file.statePushed = Never
        BY <1>1, <4>2 DEF Healthy, Within
      <4>3. CASE NoLater(mem.connected, file.connected) /\ file.statePushed # Never
        BY <1>2, <2>6, <4>3
      <4> QED
        BY <1>2, <2>6, <4>1, <4>2, <4>3
    <3>2. s.statePushed = Never /\ Within(s.connected, Grace)
      BY <1>1, <2>1, <2>6, <3>1 DEF Within
    <3> QED
      BY <2>2, <3>2 DEF Healthy
  <2> QED
    BY <2>3, <2>4, <2>5, <2>6
<1> QED
  BY <1>3, <1>4

\* What an answer and a push do to the marks.
Marking == /\ file' \in {file, mem'}
           /\ \/ \E b \in BOOLEAN : mem' = ControllerSeen(mem, b)
              \/ mem' = StatePushed(mem) /\ mem.controller # Never

\* A push comes after an answer.
LEMMA MarksWritten == ASSUME AheadInv, PollAnswered \/ PollError \/ Push PROVE Marking
<1>1. CASE PollAnswered \/ PollError
  <2>1. PICK b \in BOOLEAN : Mark(ControllerSeen(mem, b))
    BY <1>1 DEF PollAnswered, PollError
  <2> QED
    BY <2>1 DEF Mark, Marking
<1>2. CASE Push
  BY <1>2 DEF Push, Mark, AheadInv, Marking
<1> QED
  BY <1>1, <1>2

\* All other steps leave the marks, but for a crash and the passing of time.
LEMMA MarksChange ==
  ASSUME [Next]_vars
  PROVE  \/ UNCHANGED marks /\ ~Crash /\ ~PollAnswered
         \/ Crash \/ Tick \/ PollAnswered \/ PollError \/ Push
<1>1. CASE Places
  BY <1>1 DEF Places, Start, LoadId, Enroll, EnrollFails, Retry, CreateIdFile, FillIdFile,
         CacheFails, PollFails, PollGone, RemoveFails, Gone, NoCommand, BeginDeploy, EndDeploy
<1>2. CASE Dial \/ NoPush \/ TunnelBreaks \/ World \/ UNCHANGED vars
  BY <1>2 DEF Dial, NoPush, TunnelBreaks, World, Approve, Reject, Forget, Outage, DockerStops,
         vars
<1> QED
  BY <1>1, <1>2 DEF Next, Agent, Tunnel, Places

\* Deploys begin after an answer, and so do tunnels.
LEMMA AfterAnAnswer ==
  ASSUME TypeOK, AheadInv, [Next]_vars, ~Crash, ~PollAnswered, mem.controller = Never
  PROVE  tunnel' = "none" /\ pc' \notin {"command", "deploy"}
<1>1. tunnel = "none" /\ pc \notin {"command", "deploy"}
  BY DEF AheadInv
<1>2. CASE Places
  BY <1>1, <1>2 DEF Places, Start, LoadId, Enroll, EnrollFails, Retry, CreateIdFile, FillIdFile,
         CacheFails, PollFails, PollGone, RemoveFails, Gone, NoCommand, BeginDeploy, EndDeploy,
         GoTo, push
<1>3. CASE PollError \/ Tunnel \/ World \/ Tick \/ UNCHANGED vars
  BY <1>1, <1>3 DEF PollError, GoTo, Tunnel, Dial, Push, NoPush, TunnelBreaks,
         World, Approve, Reject, Forget, Outage, DockerStops, Tick, vars, push
<1> QED
  BY <1>2, <1>3 DEF Next, Agent, Places

\* Every step leaves memory ahead of the file.
LEMMA AheadPreserves == ASSUME TypeOK, TimeInv, AheadInv, [Next]_vars PROVE AheadInv'
<1>1. mem \in HealthState /\ file \in HealthState
  BY DEF TypeOK
<1>2. CASE PollAnswered \/ PollError \/ Push
  BY <1>1, <1>2, MarksWritten, MarkAhead DEF Marking, AheadInv
<1>3. CASE Crash
  <2>1. /\ mem' = Unknown /\ file' = file
        /\ tunnel' = "none" /\ pc' = "off"
    BY <1>3 DEF Crash, GoTo
  <2> QED
    BY <2>1 DEF AheadInv, Ahead, Pending, Unknown
<1>4. CASE Tick
  <2>1. mem' = Aged(mem) /\ file' = Aged(file) /\ tunnel' = tunnel /\ pc' = pc
    BY <1>4 DEF Tick
  <2>2. \A a, b \in Ages : /\ a # Never /\ b # Never /\ a <= b => Older(a) <= Older(b)
                           /\ Older(a) # Never <=> a # Never
    BY StillNoLater
  <2>3. ASSUME NEW s \in {mem, file}
        PROVE  /\ s.controller \in Ages /\ s.connected \in Ages /\ s.statePushed \in Ages
               /\ Aged(s).controller = Older(s.controller)
               /\ Aged(s).connected = Older(s.connected)
               /\ Aged(s).statePushed = Older(s.statePushed)
    BY <1>1, AgedStep DEF HealthState
  <2>4. Pending(mem') /\ Pending(file')
    BY <2>1, <2>2, <2>3 DEF AheadInv, Pending, NoLater
  <2>5. Ahead'
    BY <2>1, <2>2, <2>3 DEF AheadInv, Ahead, NoLater
  <2> QED
    BY <2>1, <2>2, <2>3, <2>4, <2>5 DEF AheadInv
<1>5. CASE UNCHANGED marks /\ ~Crash /\ ~PollAnswered
  <2>1. mem' = mem /\ file' = file
    BY <1>5 DEF marks
  <2>2. tunnel' # "none" \/ pc' \in {"command", "deploy"} => mem.controller # Never
    BY <1>5, AfterAnAnswer
  <2> QED
    BY <2>1, <2>2 DEF AheadInv, Ahead, Pending
<1> QED
  BY <1>2, <1>3, <1>4, <1>5, MarksChange

\* Nothing turns the check but time, answers and pushes.
LEMMA StepTurns ==
  ASSUME TypeOK, AheadInv, [Next]_vars
  PROVE  /\ Healthy(file) /\ ~Healthy(file') => Tick
         /\ ~Healthy(file) /\ Healthy(file') => PollAnswered \/ PollError \/ Push
<1>1. mem \in HealthState /\ file \in HealthState
  BY DEF TypeOK
<1>2. CASE UNCHANGED marks \/ Crash
  BY <1>2 DEF Crash, marks
<1>3. CASE Tick
  <2> USE Limits
  <2>1. file' = Aged(file)
    BY <1>3 DEF Tick
  <2>2. ASSUME NEW age \in Ages, NEW limit \in 0 .. Grace, Within(Older(age), limit)
        PROVE  Within(age, limit)
    BY <2>2, OlderStep DEF Within, Ages, Never, Old
  <2>3. ASSUME Healthy(Aged(file)) PROVE Healthy(file)
    <3>1. /\ file.controller \in Ages /\ file.connected \in Ages /\ file.statePushed \in Ages
      BY <1>1 DEF HealthState
    <3>2. Fresh \in 0 .. Grace /\ StateFresh \in 0 .. Grace /\ Grace \in 0 .. Grace
      BY DEF StateFresh
    <3>3. /\ Within(Older(file.controller), Fresh)
          /\ \/ Older(file.connected) = Never
             \/ Within(Older(file.statePushed), StateFresh)
             \/ Older(file.statePushed) = Never /\ Within(Older(file.connected), Grace)
      BY <1>1, <2>3, AgedStep DEF Healthy
    <3> QED
      BY <2>2, <3>1, <3>2, <3>3, OlderStep DEF Healthy
  <2> QED
    BY <1>3, <2>1, <2>3
<1>4. CASE PollAnswered \/ PollError \/ Push
  <2>1. Healthy(file) => Healthy(mem')
    BY <1>1, <1>4, MarksWritten, MarkStaysHealthy DEF Marking
  <2> QED
    BY <1>4, <2>1, MarksWritten DEF Marking
<1> QED
  BY <1>2, <1>3, <1>4, MarksChange

\* AheadInv holds throughout.
LEMMA AheadHolds == Spec => []AheadInv
<1>1. Init => AheadInv
  BY DEF Init, AheadInv, Ahead, Pending, Unknown
<1>2. IInv /\ AheadInv /\ [Next]_vars => AheadInv'
  BY AheadPreserves DEF IInv
<1> QED
  BY <1>1, <1>2, InvariantHolds, PTL DEF Spec

\* Whatever the limits and the faults, failed writes of the file included, the
\* check turns to unhealthy by the passing of time only, and to healthy by an
\* answer or a push only.
THEOREM TurnsForAReasonHolds == Spec => TurnsForAReason
<1>1. IInv /\ AheadInv /\ [Next]_vars =>
        [/\ Healthy(file) /\ ~Healthy(file') => Tick
         /\ ~Healthy(file) /\ Healthy(file') => PollAnswered \/ PollError \/ Push]_vars
  BY StepTurns DEF IInv
<1> QED
  BY <1>1, InvariantHolds, AheadHolds, PTL DEF Spec, TurnsForAReason
=============================================================================

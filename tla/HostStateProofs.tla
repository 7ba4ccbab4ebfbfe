--------------------------- MODULE HostStateProofs ---------------------------
(***************************************************************************)
(* The host-state tunnel for any things on the host and any commands: the  *)
(* controller sees no container without its volumes, and a tunnel with     *)
(* nothing left to do has told it everything.                              *)
(***************************************************************************)
EXTENDS HostState, SequenceTheorems, TLAPS

\* What the docker commands before the n-th have listed.
Listed(n) == {x \in Things : \E k \in 1 .. n - 1 : x \in Listing[k]}

\* A state that shows no container without the volumes it mounts.
Whole(s) == \A c \in s.things \cap Containers : c \in s.gone \/ Mounts[c] \subseteq s.things

\* The state the controller has, or will have once the wire is empty.
Latest == IF wire = <<>> THEN copy ELSE wire[Len(wire)]

\* Something will start another send.
Pending == unread \/ changed \/ debounce

\* Docker keeps what a container mounts; the tunnel's loop runs with its
\* connection.
HostInv == \A c \in host \cap Containers : Mounts[c] \subseteq host
LoopInv == conn = "none" <=> loop \in {"sleep", "dial"}

\* What is being gathered, is about to be written, or is on its way is whole,
\* as far as it has been listed.
WholeInv ==
  /\ loop = "read" => \A c \in taken.things \cap Containers :
       c \in taken.gone \/ (c \in host /\ Mounts[c] \cap Listed(next) \subseteq taken.things)
  /\ loop \in {"lock", "write"} => Whole(taken)
  /\ \A i \in 1 .. Len(wire) : Whole(wire[i])
  /\ Whole(copy)

\* It is also what is on the host, or another send will follow.
CurrentInv ==
  conn = "open" /\ ~missed /\ ~Pending =>
    /\ loop = "read" => taken.things = host \cap Listed(next)
    /\ loop \in {"lock", "write"} => taken.things = host
    /\ loop = "select" => Latest.things = host

IInv == TypeOK /\ HostInv /\ LoopInv /\ WholeInv /\ CurrentInv

-----------------------------------------------------------------------------
(* The operators.                                                          *)

\* Each docker command adds its kind of things, and the four list all.
LEMMA ListedSteps ==
  /\ Len(Listing) = 4
  /\ Listed(1) = {} /\ Listed(5) = Things
  /\ \A n \in 1 .. 4 : Listing[n] \subseteq Things /\ Listed(n + 1) = Listed(n) \cup Listing[n]
  /\ Listing[1] = Containers
  /\ \A n \in 2 .. 4 : Listing[n] \cap Containers = {}
<1>1. /\ Len(Listing) = 4 /\ Listing[1] = Containers /\ Listing[2] = Images
      /\ Listing[3] = Volumes /\ Listing[4] = Networks
  BY DEF Listing
<1>2. \A n \in 1 .. 4 : n = 1 \/ n = 2 \/ n = 3 \/ n = 4
  OBVIOUS
<1>3. \A n \in 1 .. 4 : Listing[n] \subseteq Things
  BY <1>1, <1>2 DEF Things
<1>4. Listed(1) = {}
  BY DEF Listed
<1>5. Listed(5) = Things
  <2>1. ASSUME NEW x \in Things PROVE \E k \in 1 .. 4 : x \in Listing[k]
    <3>1. 1 \in 1 .. 4 /\ 2 \in 1 .. 4 /\ 3 \in 1 .. 4 /\ 4 \in 1 .. 4
      OBVIOUS
    <3> QED
      BY <1>1, <3>1 DEF Things
  <2>2. 5 - 1 = 4
    OBVIOUS
  <2> QED
    BY <2>1, <2>2 DEF Listed
<1>6. ASSUME NEW n \in 1 .. 4 PROVE Listed(n + 1) = Listed(n) \cup Listing[n]
  <2>1. \A k : k \in 1 .. (n + 1) - 1 <=> (k \in 1 .. n - 1 \/ k = n)
    OBVIOUS
  <2> QED
    BY <1>3, <2>1 DEF Listed
<1>7. \A n \in 2 .. 4 : Listing[n] \cap Containers = {}
  BY <1>1, <1>2, HostStateAssumption
<1> QED
  BY <1>1, <1>3, <1>4, <1>5, <1>6, <1>7

\* A container mounts volumes.
LEMMA MountsType == \A c \in Containers : Mounts[c] \subseteq Things /\ Mounts[c] \cap Containers = {}
  BY HostStateAssumption DEF Things

\* Nothing at all is whole.
LEMMA NothingWhole == Nothing \in States /\ Nothing.things = {} /\ Nothing.gone = {} /\ Whole(Nothing)
  BY DEF Nothing, States, Whole

\* One more state on the wire.
LEMMA WireAppend ==
  ASSUME NEW w \in Seq(States), NEW s \in States
  PROVE  /\ Append(w, s) \in Seq(States) /\ Len(Append(w, s)) = Len(w) + 1
         /\ Append(w, s) # <<>> /\ Append(w, s)[Len(w) + 1] = s
         /\ \A i \in 1 .. Len(w) : Append(w, s)[i] = w[i]
<1>1. Append(w, s) \in Seq(States) /\ Len(Append(w, s)) = Len(w) + 1 /\ Len(w) \in Nat
  BY AppendProperties, LenProperties
<1>2. Append(w, s) # <<>>
  BY <1>1
<1> QED
  BY <1>1, <1>2, AppendProperties

\* The first state off the wire.
LEMMA WireTail ==
  ASSUME NEW w \in Seq(States), w # <<>>
  PROVE  /\ Len(w) \in Nat \ {0} /\ Head(w) = w[1] /\ w[1] \in States
         /\ Tail(w) \in Seq(States) /\ Len(Tail(w)) = Len(w) - 1
         /\ \A i \in 1 .. Len(w) - 1 : Tail(w)[i] = w[i + 1]
         /\ Tail(w) = <<>> <=> Len(w) = 1
<1>1. Len(w) \in Nat \ {0}
  BY EmptySeq, LenProperties
<1>2. Head(w) = w[1] /\ Tail(w) \in Seq(States) /\ Len(Tail(w)) = Len(w) - 1
      /\ \A i \in 1 .. Len(w) - 1 : Tail(w)[i] = w[i + 1]
  BY <1>1, HeadTailProperties
<1>3. w[1] \in States
  BY <1>1, ElementOfSeq
<1>4. Tail(w) = <<>> <=> Len(w) = 1
  <2>1. Tail(w) # <<>> => Len(Tail(w)) \in Nat \ {0}
    BY <1>2, EmptySeq
  <2>2. Tail(w) = <<>> => Len(Tail(w)) = 0
    BY EmptySeq
  <2> QED
    BY <1>1, <1>2, <2>1, <2>2
<1> QED
  BY <1>1, <1>2, <1>3, <1>4

-----------------------------------------------------------------------------
(* The initial state, and one lemma per part of the program.               *)

\* An empty host of which nothing was sent.
LEMMA InitInv == Init => IInv
<1> SUFFICES ASSUME Init PROVE IInv
  OBVIOUS
<1> USE DEF Init
<1>1. TypeOK
  <2>1. wire \in Seq(States) /\ Len(wire) = 0
    BY EmptySeq
  <2>2. copy \in States /\ taken \in States /\ host \subseteq Things
    BY NothingWhole
  <2>3. next \in 1 .. Len(Listing)
    BY ListedSteps
  <2>4. {closed, events, unread, changed, debounce, missed} \subseteq BOOLEAN
    OBVIOUS
  <2> QED
    BY <2>1, <2>2, <2>3, <2>4, HostStateAssumption DEF TypeOK
<1>2. HostInv /\ LoopInv /\ CurrentInv
  BY DEF HostInv, LoopInv, CurrentInv
<1>3. WholeInv
  BY NothingWhole, EmptySeq DEF WholeInv
<1> QED
  BY <1>1, <1>2, <1>3 DEF IInv

\* A change on the host: docker keeps it whole, and an event follows unless
\* nobody listens.
LEMMA ChangeStep ==
  ASSUME IInv, Change, UNCHANGED <<copy, loop, next, net, events, timers>>
  PROVE  /\ host' \subseteq Things /\ taken' \in States
         /\ unread' \in BOOLEAN /\ missed' \in BOOLEAN
         /\ HostInv' /\ LoopInv' /\ WholeInv' /\ CurrentInv'
<1> USE DEF net, timers
<1>1. host \subseteq Things /\ taken \in States /\ {events, unread, missed} \subseteq BOOLEAN
  BY DEF IInv, TypeOK
<1>2. host' \subseteq Things
  BY <1>1 DEF Change, Appears
<1>3. HostInv'
  <2>1. PICK x \in Things : \/ Appears(x) /\ host' = host \cup {x}
                            \/ Goes(x) /\ host' = host \ {x}
    BY DEF Change
  <2>2. CASE Appears(x) /\ host' = host \cup {x}
    BY <2>2 DEF Appears, HostInv, IInv
  <2>3. CASE Goes(x) /\ host' = host \ {x}
    BY <2>3 DEF Goes, HostInv, IInv
  <2> QED
    BY <2>1, <2>2, <2>3
<1>4. /\ loop # "read" => taken' = taken
      /\ loop = "read" => taken'.things = taken.things
                          /\ taken'.gone = taken.gone \cup ((host \ host') \cap taken.things \cap Containers)
      /\ taken' \in States
  BY <1>1 DEF Change, States
<1>5. WholeInv'
  BY <1>4 DEF IInv, WholeInv, Whole, Listed
<1>6. unread' \in BOOLEAN /\ missed' \in BOOLEAN
  BY <1>1 DEF Change
<1>7. conn = "none" \/ unread' \/ missed'
  BY <1>1 DEF Change
<1>8. CurrentInv'
  BY <1>7 DEF CurrentInv, Pending
<1> QED
  BY <1>2, <1>3, <1>4, <1>5, <1>6, <1>8 DEF IInv, LoopInv

\* Users, deploys and backups change the host.
LEMMA WorldPreserves == ASSUME IInv, World PROVE IInv'
<1>1. /\ host' \subseteq Things /\ taken' \in States
      /\ unread' \in BOOLEAN /\ missed' \in BOOLEAN
      /\ HostInv' /\ LoopInv' /\ WholeInv' /\ CurrentInv'
  BY ChangeStep DEF World
<1>2. TypeOK'
  BY <1>1 DEF World, net, timers, IInv, TypeOK
<1> QED
  BY <1>1, <1>2 DEF IInv

\* A send starts with nothing listed: all of it is up to date.
LEMMA BeginSendPreserves == ASSUME IInv, Dial \/ SelectDebounce \/ SelectTicker PROVE IInv'
<1>1. /\ UNCHANGED <<faults, host, copy, wire, closed, lock, events, unread, cmd>>
      /\ conn' \in {"open", conn} /\ conn' # "none"
      /\ changed' \in BOOLEAN /\ debounce' \in BOOLEAN
      /\ BeginSend
  BY DEF Dial, SelectDebounce, SelectTicker, net, stream, timers, IInv, TypeOK, LoopInv
<1>2. TypeOK'
  <2>1. next' \in 1 .. Len(Listing)
    BY <1>1, ListedSteps DEF BeginSend
  <2>2. taken' \in States /\ loop' = "read" /\ missed' = FALSE
    BY <1>1, NothingWhole DEF BeginSend
  <2>3. conn' \in {"none", "open", "broken"}
    BY <1>1 DEF IInv, TypeOK
  <2>4. {closed', events', unread', changed', debounce', missed'} \subseteq BOOLEAN
    BY <1>1, <2>2 DEF IInv, TypeOK
  <2> QED
    BY <1>1, <2>1, <2>2, <2>3, <2>4 DEF IInv, TypeOK
<1>3. HostInv' /\ LoopInv'
  BY <1>1 DEF BeginSend, IInv, HostInv, LoopInv
<1>4. WholeInv'
  BY <1>1, NothingWhole DEF BeginSend, IInv, WholeInv, Whole
<1>5. CurrentInv'
  BY <1>1, NothingWhole, ListedSteps DEF BeginSend, CurrentInv
<1> QED
  BY <1>2, <1>3, <1>4, <1>5 DEF IInv

\* The connection and all that goes with it end.
LEMMA HangupPreserves == ASSUME IInv, Hangup PROVE IInv'
<1> USE DEF Hangup
<1>1. TypeOK'
  <2>1. cmd' \in [Commands -> {"none", "sent", "running", "orphan", "replying", "answered", "lost"}]
    BY DEF IInv, TypeOK
  <2>2. {closed', events', unread', changed', debounce', missed'} \subseteq BOOLEAN
    OBVIOUS
  <2>3. wire' \in Seq(States) /\ Len(wire') = 0 /\ Buffer \in Nat
    BY EmptySeq, HostStateAssumption
  <2> QED
    BY <2>1, <2>2, <2>3, NothingWhole, ListedSteps DEF IInv, TypeOK
<1>2. HostInv' /\ LoopInv' /\ CurrentInv'
  BY DEF IInv, HostInv, LoopInv, CurrentInv
<1>3. WholeInv'
  BY EmptySeq DEF IInv, WholeInv, Whole
<1> QED
  BY <1>1, <1>2, <1>3 DEF IInv

\* The signals between the goroutines: none of them is lost without another
\* one, or a note that it was missed.
LEMMA SignalsPreserve ==
  ASSUME IInv, AttachEvents \/ ScanEvent \/ EventsEnd \/ SelectChanged
  PROVE  IInv'
<1>1. /\ UNCHANGED <<faults, host, copy, loop, sending, net, lock, cmd>>
      /\ events' \in BOOLEAN /\ unread' \in BOOLEAN
      /\ changed' \in BOOLEAN /\ debounce' \in BOOLEAN /\ missed' \in BOOLEAN
      /\ Pending \/ missed => (unread' \/ changed' \/ debounce') \/ missed'
  <2>1. {events, unread, changed, debounce, missed} \subseteq BOOLEAN
    BY DEF IInv, TypeOK
  <2>2. CASE AttachEvents
    BY <2>1, <2>2 DEF AttachEvents, timers, Pending
  <2>3. CASE ScanEvent
    BY <2>1, <2>3 DEF ScanEvent, Pending
  <2>4. CASE EventsEnd
    BY <2>1, <2>4 DEF EventsEnd, timers, Pending
  <2>5. CASE SelectChanged
    BY <2>1, <2>5 DEF SelectChanged, stream, Pending
  <2> QED
    BY <2>2, <2>3, <2>4, <2>5
<1> USE <1>1 DEF sending, net
<1>2. TypeOK'
  BY DEF IInv, TypeOK
<1>3. HostInv' /\ LoopInv' /\ WholeInv'
  BY DEF IInv, HostInv, LoopInv, WholeInv, Whole, Listed
<1>4. CurrentInv'
  BY DEF IInv, CurrentInv, Pending, Latest, Listed
<1> QED
  BY <1>2, <1>3, <1>4 DEF IInv

\* The next of the docker commands; the last one completes the state.
LEMMA ReadPartPreserves == ASSUME IInv, ReadPart PROVE IInv'
<1> USE DEF ReadPart, net, stream, timers
<1>1. next \in 1 .. 4 /\ taken \in States /\ host \subseteq Things
  BY ListedSteps DEF IInv, TypeOK
<1>2. /\ taken'.things = taken.things \cup (host \cap Listing[next]) /\ taken'.gone = taken.gone
      /\ taken' \in States
  BY <1>1, ListedSteps DEF States
<1>3. TypeOK'
  BY <1>1, <1>2, ListedSteps DEF IInv, TypeOK
<1>4. HostInv' /\ LoopInv'
  BY DEF IInv, HostInv, LoopInv
<1>5. ASSUME NEW c \in taken'.things \cap Containers
      PROVE  c \in taken'.gone \/ (c \in host /\ Mounts[c] \cap Listed(next + 1) \subseteq taken'.things)
  <2>1. Listed(next + 1) = Listed(next) \cup Listing[next]
    BY <1>1, ListedSteps
  <2>2. CASE c \in taken.things
    <3>1. c \in taken.gone \/ (c \in host /\ Mounts[c] \cap Listed(next) \subseteq taken.things)
      BY <1>5, <2>2 DEF IInv, WholeInv
    <3>2. c \in host => Mounts[c] \subseteq host
      BY <1>5 DEF IInv, HostInv
    <3> QED
      BY <1>2, <2>1, <3>1, <3>2
  <2>3. CASE c \notin taken.things
    <3>1. c \in host /\ c \in Listing[next]
      BY <1>2, <1>5, <2>3
    <3>2. next = 1
      BY <1>1, <1>5, <3>1, ListedSteps
    <3> QED
      BY <1>5, <2>1, <3>1, <3>2, ListedSteps, MountsType
  <2> QED
    BY <2>2, <2>3
<1>6. CASE next < Len(Listing)
  <2>1. next' = next + 1 /\ loop' = loop
    BY <1>6
  <2>2. WholeInv'
    BY <1>5, <2>1 DEF IInv, WholeInv, Whole, Listed
  <2>3. CurrentInv'
    BY <1>1, <1>2, <2>1, ListedSteps DEF IInv, CurrentInv, Pending, Listed
  <2> QED
    BY <1>3, <1>4, <2>2, <2>3 DEF IInv
<1>7. CASE ~(next < Len(Listing))
  <2>1. loop' = "lock" /\ next = 4
    BY <1>1, <1>7, ListedSteps
  <2>2. Listed(next + 1) = Things
    BY <2>1, ListedSteps
  <2>3. WholeInv'
    BY <1>5, <2>1, <2>2, MountsType DEF IInv, WholeInv, Whole
  <2>4. CurrentInv'
    <3>1. Listed(next + 1) = Listed(next) \cup Listing[next]
      BY <1>1, ListedSteps
    <3> QED
      BY <1>1, <1>2, <2>1, <2>2, <3>1 DEF IInv, CurrentInv, Pending
  <2> QED
    BY <1>3, <1>4, <2>3, <2>4 DEF IInv
<1> QED
  BY <1>6, <1>7

\* A send that docker makes fail is noted.
LEMMA ReadPartFailsPreserves == ASSUME IInv, ReadPartFails PROVE IInv'
<1> USE DEF ReadPartFails, net, stream, timers
<1>1. next' \in 1 .. Len(Listing) /\ taken' \in States
  BY NothingWhole, ListedSteps
<1>2. TypeOK'
  BY <1>1 DEF IInv, TypeOK
<1>3. HostInv' /\ LoopInv' /\ WholeInv' /\ CurrentInv'
  BY DEF IInv, HostInv, LoopInv, WholeInv, Whole, CurrentInv
<1> QED
  BY <1>2, <1>3 DEF IInv

\* What is written is whole and up to date, or another send follows.
LEMMA WritePreserves == ASSUME IInv, Write PROVE IInv'
<1> USE DEF Write, stream, timers
<1>1. /\ wire \in Seq(States) /\ Len(wire) \in Nat /\ taken \in States /\ Whole(taken)
      /\ Len(wire) < Buffer /\ Buffer \in Nat
  BY LenProperties, HostStateAssumption DEF IInv, TypeOK, WholeInv
<1>2. wire' \in Seq(States) /\ Len(wire') <= Buffer
  BY <1>1, WireAppend
<1>3. TypeOK'
  BY <1>2, NothingWhole DEF IInv, TypeOK
<1>4. HostInv' /\ LoopInv'
  BY DEF IInv, HostInv, LoopInv
<1>5. WholeInv'
  <2>1. \A i \in 1 .. Len(wire') : Whole(wire'[i])
    BY <1>1, WireAppend DEF IInv, WholeInv
  <2> QED
    BY <2>1 DEF IInv, WholeInv, Whole
<1>6. CurrentInv'
  <2>1. conn = "open" => wire' # <<>> /\ wire'[Len(wire')] = taken
    BY <1>1, WireAppend
  <2> QED
    BY <2>1 DEF IInv, CurrentInv, Pending, Latest
<1> QED
  BY <1>3, <1>4, <1>5, <1>6 DEF IInv

\* The controller receives states in the order they were written.
LEMMA ReceivePreserves == ASSUME IInv, Receive PROVE IInv'
<1> USE DEF Receive, sending, stream, timers
<1>1. /\ Len(wire) \in Nat \ {0} /\ copy' = wire[1] /\ wire[1] \in States
      /\ wire' \in Seq(States) /\ Len(wire') = Len(wire) - 1
      /\ \A i \in 1 .. Len(wire) - 1 : wire'[i] = wire[i + 1]
      /\ wire' = <<>> <=> Len(wire) = 1
  BY WireTail DEF IInv, TypeOK
<1>2. TypeOK'
  BY <1>1, HostStateAssumption DEF IInv, TypeOK
<1>3. HostInv' /\ LoopInv'
  BY DEF IInv, HostInv, LoopInv
<1>4. WholeInv'
  <2>1. Whole(wire[1]) /\ \A i \in 1 .. Len(wire') : Whole(wire'[i])
    BY <1>1 DEF IInv, WholeInv
  <2> QED
    BY <1>1, <2>1 DEF IInv, WholeInv, Whole, Listed
<1>5. Latest' = Latest
  BY <1>1 DEF Latest
<1>6. CurrentInv'
  BY <1>5 DEF IInv, CurrentInv, Pending, Listed
<1> QED
  BY <1>2, <1>3, <1>4, <1>6 DEF IInv

\* A broken connection loses what is on its way.
LEMMA BreakPreserves == ASSUME IInv, Break PROVE IInv'
<1> USE DEF Break, sending, stream, timers
<1>1. wire' \in Seq(States) /\ Len(wire') = 0 /\ Buffer \in Nat
  BY EmptySeq, HostStateAssumption
<1>2. TypeOK'
  BY <1>1 DEF IInv, TypeOK
<1>3. HostInv' /\ LoopInv' /\ CurrentInv'
  BY DEF IInv, HostInv, LoopInv, CurrentInv
<1>4. WholeInv'
  BY <1>1 DEF IInv, WholeInv, Whole, Listed
<1> QED
  BY <1>2, <1>3, <1>4 DEF IInv

\* Dialling, commands, replies and the mutex leave the states alone.
LEMMA OthersPreserve ==
  ASSUME IInv,
         \/ DialFails \/ Reconnect \/ Lock \/ ReaderFails
         \/ \E m \in Commands : SendCommand(m) \/ ReadCommand(m) \/ LockReply(m) \/ Reply(m)
         \/ UNCHANGED vars
  PROVE  IInv'
<1>1. /\ UNCHANGED <<faults, host, copy, sending, conn, wire, stream, timers, missed>>
      /\ \/ loop' = loop
         \/ {loop, loop'} \subseteq {"sleep", "dial"}
         \/ loop = "lock" /\ loop' = "write"
      /\ lock' \in {None, "state"} \cup Commands
      /\ closed' \in BOOLEAN
      /\ cmd' \in [Commands -> {"none", "sent", "running", "orphan", "replying", "answered", "lost"}]
  BY DEF DialFails, Reconnect, Lock, ReaderFails, SendCommand, ReadCommand, LockReply, Reply, Moves,
         vars, net, sending, stream, timers, IInv, TypeOK
<1> USE <1>1 DEF sending, stream, timers
<1>2. TypeOK'
  BY DEF IInv, TypeOK
<1>3. HostInv' /\ LoopInv' /\ WholeInv'
  BY DEF IInv, HostInv, LoopInv, WholeInv, Whole, Listed
<1>4. CurrentInv'
  BY DEF IInv, CurrentInv, Pending, Latest, Listed
<1> QED
  BY <1>2, <1>3, <1>4 DEF IInv

\* A command of the controller changes the host as anybody else does.
LEMMA ExecutePreserves == ASSUME IInv, NEW m \in Commands, Execute(m) PROVE IInv'
<1> USE DEF Execute, net, timers
<1>1. cmd' \in [Commands -> {"none", "sent", "running", "orphan", "replying", "answered", "lost"}]
  BY DEF Moves, IInv, TypeOK
<1>2. CASE Change
  <2>1. /\ host' \subseteq Things /\ taken' \in States
        /\ unread' \in BOOLEAN /\ missed' \in BOOLEAN
        /\ HostInv' /\ LoopInv' /\ WholeInv' /\ CurrentInv'
    BY <1>2, ChangeStep
  <2>2. TypeOK'
    BY <1>1, <2>1 DEF IInv, TypeOK
  <2> QED
    BY <2>1, <2>2 DEF IInv
<1>3. CASE UNCHANGED <<host, unread, missed, taken>>
  <2> USE <1>3
  <2>1. TypeOK'
    BY <1>1 DEF IInv, TypeOK
  <2>2. HostInv' /\ LoopInv' /\ WholeInv'
    BY DEF IInv, HostInv, LoopInv, WholeInv, Whole, Listed
  <2>3. CurrentInv'
    BY DEF IInv, CurrentInv, Pending, Latest, Listed
  <2> QED
    BY <2>1, <2>2, <2>3 DEF IInv
<1> QED
  BY <1>2, <1>3

-----------------------------------------------------------------------------
(* The theorems.                                                           *)

\* The invariant is inductive.
LEMMA StepPreserves == ASSUME IInv, [Next]_vars PROVE IInv'
<1>1. CASE World \/ ReadPart \/ Write
  BY <1>1, WorldPreserves, ReadPartPreserves, WritePreserves
<1>2. CASE Dial \/ SelectDebounce \/ SelectTicker
  BY <1>2, BeginSendPreserves
<1>3. CASE SelectClosed \/ WriteFails
  BY <1>3, HangupPreserves DEF SelectClosed, WriteFails
<1>4. CASE AttachEvents \/ ScanEvent \/ EventsEnd \/ SelectChanged
  BY <1>4, SignalsPreserve
<1>5. CASE ReadPartFails \/ Break \/ Receive
  BY <1>5, ReadPartFailsPreserves, BreakPreserves, ReceivePreserves
<1>6. CASE DialFails \/ Reconnect \/ Lock \/ ReaderFails \/ UNCHANGED vars
  BY <1>6, OthersPreserve
<1>7. ASSUME NEW m \in Commands, Serve(m) PROVE IInv'
  BY <1>7, OthersPreserve, ExecutePreserves DEF Serve
<1> QED
  BY <1>1, <1>2, <1>3, <1>4, <1>5, <1>6, <1>7 DEF Next, Connect, Send, Select, Fault

\* It holds of every tunnel, whatever faults are possible.
LEMMA InvariantHolds == Spec => []IInv
<1>1. IInv /\ [Next]_vars => IInv'
  BY StepPreserves
<1> QED
  BY InitInv, <1>1, PTL DEF Spec

\* The state of the tunnel has its types; no more is ever written than the
\* connection holds.
THEOREM TypeCorrect == Spec => []TypeOK
<1>1. IInv => TypeOK
  BY DEF IInv
<1> QED
  BY InvariantHolds, <1>1, PTL

\* send: since containers are listed first, no state shows a container without a
\* volume it mounts, for any containers and volumes, any changes between the
\* commands, and any connection that comes and goes.  Nothing is said of images
\* and networks, which docker does not keep for a stopped container.
THEOREM NoDanglingHolds == Spec => []NoDangling
<1>1. IInv => NoDangling
  BY DEF IInv, WholeInv, Whole, NoDangling
<1> QED
  BY InvariantHolds, <1>1, PTL

\* tunnelOnce: a change during a send, a debounce or a write is not forgotten.
THEOREM CurrentWhenQuietHolds == Spec => []CurrentWhenQuiet
<1>1. IInv => CurrentWhenQuiet
  BY DEF IInv, CurrentInv, CurrentWhenQuiet, Quiet, Pending, Latest
<1> QED
  BY InvariantHolds, <1>1, PTL
=============================================================================

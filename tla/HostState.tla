------------------------------ MODULE HostState ------------------------------
(***************************************************************************)
(* The host-state tunnel (tunnel.go): how the controller's copy of what is *)
(* on the host follows docker, over a connection that also carries the     *)
(* controller's commands and their replies.                                *)
(*                                                                         *)
(* On the host are containers, images, volumes and networks.  Docker keeps *)
(* a volume while a container mounts it, running or stopped.  It keeps no  *)
(* network that only stopped containers name, and an image goes by force:  *)
(* since any container can have been stopped, these come and go freely.    *)
(* A state is what one send gathered: the things it listed, and (history)  *)
(* the containers that went after it had listed them.  A timer that can    *)
(* have run out is an action that can be taken.                            *)
(***************************************************************************)
EXTENDS Integers, Sequences, FiniteSets

CONSTANTS
  Containers, Images, Volumes, Networks,
  Mounts,      \* Mounts[c]: the volumes container c mounts
  Commands,    \* requests of the controller, each sent once
  Buffer,      \* states a connection holds before a write blocks
  None,
  FaultModels  \* sets of faults, of which one is fixed from the start: "drop"
               \* (the connection breaks), "docker" (a docker command fails),
               \* "events" (docker events ends); and "command": the controller
               \* sends commands

Things == Containers \cup Images \cup Volumes \cup Networks

ASSUME HostStateAssumption ==
  /\ Containers \cap (Images \cup Volumes \cup Networks) = {}
  /\ Mounts \in [Containers -> SUBSET Volumes]
  /\ Buffer \in Nat \ {0}
  /\ None \notin Commands /\ "state" \notin Commands
  /\ FaultModels \subseteq SUBSET {"drop", "docker", "events", "command"}

VARIABLES
  faults,    \* the faults that can happen
  host,      \* what is on the host
  copy,      \* the state the controller received last
  loop,      \* where runHostStateTunnel and tunnelOnce are
  next,      \* the docker command send runs next
  taken,     \* the state send is gathering, or is about to write
  conn,      \* the connection: "none", "open" or "broken" (not noticed yet)
  wire,      \* states written and not received yet
  lock,      \* writeMu: who writes
  closed,    \* the channel the reader goroutine reports an error on
  events,    \* docker events is connected
  unread,    \* it has printed a line that was not read yet
  changed,   \* the channel from the events goroutine to the loop
  debounce,  \* the debounce timer runs
  missed,    \* history: a change, or a failed send, that no event will follow
  cmd        \* where each command is

sending == <<next, taken>>
net     == <<conn, wire, closed>>
stream  == <<events, unread>>
timers  == <<changed, debounce>>
vars == <<faults, host, copy, loop, sending, net, lock, stream, timers, missed, cmd>>

-----------------------------------------------------------------------------
Nothing == [things |-> {}, gone |-> {}]

\* Mutant: containers are listed last.
ListingContainersLast == <<Images, Volumes, Networks, Containers>>

\* What each docker command of send lists, in their order.
Listing == <<Containers, Images, Volumes, Networks>>

Init == /\ faults \in FaultModels
        /\ host = {} /\ copy = Nothing
        /\ loop = "dial"
        /\ next = 1 /\ taken = Nothing
        /\ conn = "none" /\ wire = <<>> /\ closed = FALSE
        /\ lock = None
        /\ events = FALSE /\ unread = FALSE
        /\ changed = FALSE /\ debounce = FALSE
        /\ missed = FALSE
        /\ cmd = [m \in Commands |-> "none"]

-----------------------------------------------------------------------------
(* Docker: one thing appears or goes, and the event is printed to the      *)
(* stream if it is connected.                                              *)

Appears(x) == x \notin host /\ (x \in Containers => Mounts[x] \subseteq host)
Goes(x)    == x \in host /\ \A c \in host \cap Containers : x \notin Mounts[c]

Change ==
  /\ \E x \in Things : \/ Appears(x) /\ host' = host \cup {x}
                       \/ Goes(x) /\ host' = host \ {x}
  /\ unread' = (unread \/ events)
  /\ missed' = (missed \/ (conn # "none" /\ ~events))
  /\ taken' = IF loop # "read" THEN taken
              ELSE [taken EXCEPT !.gone =
                      @ \cup ((host \ host') \cap taken.things \cap Containers)]

\* A user, a deploy or a backup changes something.
World == /\ Change
         /\ UNCHANGED <<faults, copy, loop, next, net, lock, events, timers, cmd>>

-----------------------------------------------------------------------------
(* runHostStateTunnel, and the head and the end of tunnelOnce.             *)

\* send from its beginning: what it will find is all up to date.
BeginSend == loop' = "read" /\ next' = 1 /\ taken' = Nothing /\ missed' = FALSE

\* websocket.Dial; the reader and the events goroutine start, and a first send.
Dial == /\ loop = "dial"
        /\ conn' = "open"
        /\ BeginSend
        /\ UNCHANGED <<faults, host, copy, wire, closed, lock, stream, timers, cmd>>

DialFails == /\ "drop" \in faults
             /\ loop = "dial"
             /\ loop' = "sleep"
             /\ UNCHANGED <<faults, host, copy, sending, net, lock, stream, timers, missed, cmd>>

Reconnect == /\ loop = "sleep"
             /\ loop' = "dial"
             /\ UNCHANGED <<faults, host, copy, sending, net, lock, stream, timers, missed, cmd>>

\* tunnelOnce returns: its context ends the events goroutine and the writes
\* of the commands, which run on.
Hangup ==
  /\ loop' = "sleep"
  /\ next' = 1 /\ taken' = Nothing
  /\ conn' = "none" /\ wire' = <<>> /\ closed' = FALSE /\ lock' = None
  /\ events' = FALSE /\ unread' = FALSE /\ changed' = FALSE /\ debounce' = FALSE
  /\ missed' = FALSE
  /\ cmd' = [m \in Commands |-> CASE cmd[m] \in {"sent", "replying"} -> "lost"
                                  [] cmd[m] = "running" -> "orphan"
                                  [] OTHER -> cmd[m]]
  /\ UNCHANGED <<faults, host, copy>>

-----------------------------------------------------------------------------
(* watchDockerEvents.                                                      *)

AttachEvents ==
  /\ conn # "none" /\ ~events
  /\ events' = TRUE
  /\ UNCHANGED <<faults, host, copy, loop, sending, net, lock, unread, timers, missed, cmd>>

\* Mutant: a channel without a buffer, so that a busy loop misses the signal.
ScanEventUnbuffered ==
  /\ unread /\ unread' = FALSE
  /\ changed' = (loop = "select")
  /\ UNCHANGED <<faults, host, copy, loop, sending, net, lock, events, debounce, missed, cmd>>

\* One signal is kept, however many events there are.
ScanEvent ==
  /\ unread /\ unread' = FALSE
  /\ changed' = TRUE
  /\ UNCHANGED <<faults, host, copy, loop, sending, net, lock, events, debounce, missed, cmd>>

\* The subprocess exits, with what was not read from it; it is started again
\* three seconds later.
EventsEnd ==
  /\ "events" \in faults /\ events
  /\ events' = FALSE /\ unread' = FALSE
  /\ missed' = (missed \/ unread)
  /\ UNCHANGED <<faults, host, copy, loop, sending, net, lock, timers, cmd>>

-----------------------------------------------------------------------------
(* send.                                                                   *)

\* Mutant: one command too many.
ReadPartPastEnd ==
  /\ loop = "read"
  /\ taken' = [taken EXCEPT !.things = @ \cup (host \cap Listing[next])]
  /\ next' = next + 1
  /\ loop' = IF next < Len(Listing) THEN "read" ELSE "lock"
  /\ UNCHANGED <<faults, host, copy, net, lock, stream, timers, missed, cmd>>

\* The next docker command of the four.
ReadPart ==
  /\ loop = "read"
  /\ taken' = [taken EXCEPT !.things = @ \cup (host \cap Listing[next])]
  /\ IF next < Len(Listing) THEN next' = next + 1 /\ UNCHANGED loop
                            ELSE next' = 1 /\ loop' = "lock"
  /\ UNCHANGED <<faults, host, copy, net, lock, stream, timers, missed, cmd>>

\* It fails: no state is sent, this time, and nothing asks for another.
ReadPartFails ==
  /\ "docker" \in faults /\ loop = "read"
  /\ next' = 1 /\ taken' = Nothing
  /\ loop' = "select"
  /\ missed' = TRUE
  /\ UNCHANGED <<faults, host, copy, net, lock, stream, timers, cmd>>

Lock == /\ loop = "lock" /\ lock = None
        /\ lock' = "state"
        /\ loop' = "write"
        /\ UNCHANGED <<faults, host, copy, sending, net, stream, timers, missed, cmd>>

\* Mutant: no Unlock on the way out.
WriteKeepsLock ==
  /\ loop = "write" /\ Len(wire) < Buffer
  /\ wire' = IF conn = "open" THEN Append(wire, taken) ELSE wire
  /\ loop' = "select" /\ taken' = Nothing
  /\ UNCHANGED <<faults, host, copy, next, conn, closed, lock, stream, timers, missed, cmd>>

\* The write succeeds, into a broken connection too.
Write ==
  /\ loop = "write" /\ Len(wire) < Buffer
  /\ wire' = IF conn = "open" THEN Append(wire, taken) ELSE wire
  /\ loop' = "select" /\ taken' = Nothing
  /\ lock' = None
  /\ UNCHANGED <<faults, host, copy, next, conn, closed, stream, timers, missed, cmd>>

WriteFails == loop = "write" /\ conn = "broken" /\ Hangup

-----------------------------------------------------------------------------
(* The loop of tunnelOnce: select takes any case that is ready.            *)

SelectClosed == loop = "select" /\ closed /\ Hangup

\* A signal starts the debounce timer, or starts it over.
SelectChanged ==
  /\ loop = "select" /\ changed
  /\ changed' = FALSE /\ debounce' = TRUE
  /\ UNCHANGED <<faults, host, copy, loop, sending, net, lock, stream, missed, cmd>>

SelectDebounce ==
  /\ loop = "select" /\ debounce
  /\ debounce' = FALSE
  /\ BeginSend
  /\ UNCHANGED <<faults, host, copy, net, lock, stream, changed, cmd>>

\* Mutant: the resync is left out when nothing was reported as changed.
SelectTickerIfChanged ==
  /\ loop = "select" /\ changed
  /\ BeginSend
  /\ UNCHANGED <<faults, host, copy, net, lock, stream, timers, cmd>>

\* The 45 s resync.
SelectTicker ==
  /\ loop = "select"
  /\ BeginSend
  /\ UNCHANGED <<faults, host, copy, net, lock, stream, timers, cmd>>

-----------------------------------------------------------------------------
(* The reader goroutine and handleCommand.                                 *)

Moves(m, where) == cmd' = [cmd EXCEPT ![m] = where]

SendCommand(m) ==
  /\ "command" \in faults
  /\ cmd[m] = "none" /\ conn = "open"
  /\ Moves(m, "sent")
  /\ UNCHANGED <<faults, host, copy, loop, sending, net, lock, stream, timers, missed>>

\* A goroutine per command: docker does not keep the next one waiting.
ReadCommand(m) ==
  /\ cmd[m] = "sent" /\ ~closed
  /\ Moves(m, "running")
  /\ UNCHANGED <<faults, host, copy, loop, sending, net, lock, stream, timers, missed>>

\* Docker does what was asked, or fails, or has nothing to change.
Execute(m) ==
  /\ \/ cmd[m] = "running" /\ Moves(m, "replying")
     \/ cmd[m] = "orphan" /\ Moves(m, "lost")
  /\ Change \/ UNCHANGED <<host, unread, missed, taken>>
  /\ UNCHANGED <<faults, copy, loop, next, net, lock, events, timers>>

LockReply(m) == /\ cmd[m] = "replying" /\ lock = None
                /\ lock' = m
                /\ UNCHANGED <<faults, host, copy, loop, sending, net, stream, timers, missed, cmd>>

\* The reply goes to the connection the command came on; it waits for room as
\* a state does.
Reply(m) ==
  /\ cmd[m] = "replying" /\ lock = m /\ Len(wire) < Buffer
  /\ lock' = None
  /\ Moves(m, IF conn = "open" THEN "answered" ELSE "lost")
  /\ UNCHANGED <<faults, host, copy, loop, sending, net, stream, timers, missed>>

ReaderFails ==
  /\ conn = "broken" /\ ~closed
  /\ closed' = TRUE
  /\ UNCHANGED <<faults, host, copy, loop, sending, conn, wire, lock, stream, timers, missed, cmd>>

-----------------------------------------------------------------------------
(* The network and the controller.                                         *)

\* What was on its way is lost.
Break ==
  /\ "drop" \in faults /\ conn = "open"
  /\ conn' = "broken" /\ wire' = <<>>
  /\ UNCHANGED <<faults, host, copy, loop, sending, closed, lock, stream, timers, missed, cmd>>

Receive ==
  /\ wire # <<>>
  /\ copy' = Head(wire) /\ wire' = Tail(wire)
  /\ UNCHANGED <<faults, host, loop, sending, conn, closed, lock, stream, timers, missed, cmd>>

-----------------------------------------------------------------------------
Connect == Dial \/ Reconnect \/ SelectClosed \/ WriteFails
Send    == ReadPart \/ Lock \/ Write
Select  == SelectChanged \/ SelectDebounce \/ SelectTicker
Serve(m) == SendCommand(m) \/ ReadCommand(m) \/ Execute(m) \/ LockReply(m) \/ Reply(m)
Fault   == DialFails \/ EventsEnd \/ ReadPartFails \/ Break

Next == \/ World \/ Connect \/ AttachEvents \/ ScanEvent \/ Send \/ Select
        \/ ReaderFails \/ Receive \/ Fault
        \/ \E m \in Commands : Serve(m)

Spec == Init /\ [][Next]_vars

\* Docker and the network answer, the goroutines run, the ticker's channel
\* stays ready until select takes it, and a Go mutex starves nobody.  Nothing
\* is assumed of the debounce timer, which events can start over for ever.
LiveSpec ==
  /\ Spec
  /\ WF_vars(Dial) /\ WF_vars(Reconnect) /\ WF_vars(ReaderFails) /\ WF_vars(Receive)
  /\ WF_vars(ReadPart) /\ WF_vars(Write)
  /\ SF_vars(SelectClosed) /\ SF_vars(SelectTicker) /\ SF_vars(Lock)
  /\ \A m \in Commands :
       /\ WF_vars(ReadCommand(m)) /\ WF_vars(Execute(m)) /\ WF_vars(Reply(m))
       /\ SF_vars(LockReply(m))

-----------------------------------------------------------------------------
(* Properties.                                                             *)

States == [things : SUBSET Things, gone : SUBSET Containers]

TypeOK == /\ faults \in FaultModels
          /\ host \subseteq Things
          /\ copy \in States
          /\ loop \in {"sleep", "dial", "read", "lock", "write", "select"}
          /\ next \in 1 .. Len(Listing)
          /\ taken \in States
          /\ conn \in {"none", "open", "broken"}
          /\ wire \in Seq(States) /\ Len(wire) <= Buffer
          /\ lock \in {None, "state"} \cup Commands
          /\ {closed, events, unread, changed, debounce, missed} \subseteq BOOLEAN
          /\ cmd \in [Commands -> {"none", "sent", "running", "orphan", "replying",
                                   "answered", "lost"}]

\* A state is four docker commands and not one moment of the host, but it does
\* not show a container without the volumes it mounts, unless that container
\* went while the state was being gathered ("Mounts (used for the Volumes
\* page's "used by")", tunnel.go).  Of images and networks this is not true:
\* docker ps -a goes on naming those that a stopped container has lost.
NoDangling == \A c \in copy.things \cap Containers :
                c \in copy.gone \/ Mounts[c] \subseteq copy.things

\* Nothing is under way in the tunnel.
Quiet == /\ loop = "select" /\ conn = "open"
         /\ events /\ ~unread /\ ~changed /\ ~debounce
         /\ wire = <<>>

\* "Reports state the moment something changes" (tunnel.go): a tunnel with
\* nothing left to do has told the controller everything, changes during a
\* send included; the exceptions are the changes made while docker events was
\* not connected and the sends that docker made fail, which wait for the
\* resync.
CurrentWhenQuiet == Quiet /\ ~missed => copy.things = host

\* "A periodic full resync as a safety net for a missed event": when the host
\* and the network are left in peace, the controller ends up with what is on
\* the host, whatever was missed, dropped or failed before.
Converges == <>[][~Change /\ ~Fault]_vars => <>[](copy.things = host)

\* A command gets its reply, however slow docker is and whatever else is being
\* written, as long as the connection holds.
CommandAnswered ==
  "drop" \notin faults => \A m \in Commands : (cmd[m] = "sent") ~> (cmd[m] = "answered")
=============================================================================

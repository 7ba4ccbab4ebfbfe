------------------------------ MODULE RunQueue -------------------------------
(***************************************************************************)
(* What the gate and the report promise the controller (the comments at    *)
(* backupGate and reportRun): runs wait for their turn, one works at a     *)
(* time, nobody hears of a run but while it has its turn, and what a crash *)
(* interrupts is over and does not come back.                              *)
(***************************************************************************)
CONSTANTS Runs, None

VARIABLES
  queue,    \* runs that were accepted and wait
  working,  \* the run that has its turn, or None
  told,     \* runs the controller has a report of
  over      \* runs that had their turn, or died

vars == <<queue, working, told, over>>

Init == queue = {} /\ working = None /\ told = {} /\ over = {}

Submit(r) == /\ r \notin queue \cup {working} \cup over
             /\ queue' = queue \cup {r}
             /\ UNCHANGED <<working, told, over>>

Begin(r) == /\ working = None /\ r \in queue
            /\ working' = r /\ queue' = queue \ {r}
            /\ UNCHANGED <<told, over>>

\* The report may arrive although the run does not know, and be sent again.
Tell == /\ working # None
        /\ told' = told \cup {working}
        /\ UNCHANGED <<queue, working, over>>

\* The last attempt arrives, or the report is given up.
End == /\ working # None
       /\ told' \in {told, told \cup {working}}
       /\ working' = None /\ over' = over \cup {working}
       /\ UNCHANGED queue

Die == /\ over' = over \cup queue \cup ({working} \ {None})
       /\ queue' = {} /\ working' = None
       /\ UNCHANGED told

Next == \/ Tell \/ End \/ Die
        \/ \E r \in Runs : Submit(r) \/ Begin(r)

Spec == Init /\ [][Next]_vars
=============================================================================

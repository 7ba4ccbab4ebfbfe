------------------------------- MODULE Health -------------------------------
(***************************************************************************)
(* The health file (health.go): three moments, and what they say of the    *)
(* agent.  A moment is kept as its age in ticks (15 s, the largest unit    *)
(* that all the limits are multiples of), or Never; an age stops at Old,   *)
(* past every limit.                                                       *)
(***************************************************************************)
EXTENDS Integers

CONSTANTS
  Fresh,       \* controllerFreshness
  Resync,      \* stateResyncInterval
  Grace        \* connectGrace

ASSUME HealthAssumption ==
  /\ {Fresh, Resync, Grace} \subseteq Nat \ {0}
  /\ Fresh <= 3 * Resync /\ 3 * Resync <= Grace

StateFresh == 3 * Resync

Never == -1
Old   == Grace + 1
Ages  == {Never} \cup 0 .. Old

HealthState == [controller : Ages, connected : Ages, statePushed : Ages]

Unknown == [controller |-> Never, connected |-> Never, statePushed |-> Never]

\* A moment one tick later.
Older(age)  == IF age = Never \/ age = Old THEN age ELSE age + 1
Aged(s)     == [mark \in DOMAIN s |-> Older(s[mark])]

\* Mutant: the grace period starts over at every status check.
ControllerSeenRestarts(s, connected) ==
  [controller  |-> 0,
   connected   |-> IF connected THEN 0 ELSE Never,
   statePushed |-> IF connected THEN s.statePushed ELSE Never]

\* Mutant: what was pushed before a rejection is remembered.
ControllerSeenRemembers(s, connected) ==
  [controller  |-> 0,
   connected   |-> IF ~connected THEN Never
                   ELSE IF s.connected = Never THEN 0 ELSE s.connected,
   statePushed |-> s.statePushed]

\* markControllerSeen
ControllerSeen(s, connected) ==
  [controller  |-> 0,
   connected   |-> IF ~connected THEN Never
                   ELSE IF s.connected = Never THEN 0 ELSE s.connected,
   statePushed |-> IF connected THEN s.statePushed ELSE Never]

\* markStatePushed
StatePushed(s) == [s EXCEPT !.statePushed = 0]

Within(age, limit) == age # Never /\ age <= limit

\* Mutant: no grace for the first state.
HealthyWithoutGrace(s) ==
  /\ Within(s.controller, Fresh)
  /\ s.connected = Never \/ Within(s.statePushed, StateFresh)

\* checkHealth
Healthy(s) ==
  /\ Within(s.controller, Fresh)
  /\ \/ s.connected = Never
     \/ Within(s.statePushed, StateFresh)
     \/ s.statePushed = Never /\ Within(s.connected, Grace)
=============================================================================

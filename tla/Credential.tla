----------------------------- MODULE Credential -----------------------------
(***************************************************************************)
(* What certificate rotation promises (the comment at the head of          *)
(* rotate.go): the agent always has one identity it can authenticate with, *)
(* the controller learns of a new identity before the agent switches to    *)
(* it, and forgets the old one only after the switch.                      *)
(*                                                                         *)
(* held is the identity a (re)started agent would use, accepted the set    *)
(* the controller lets in; accepted = {} while the agent is not enrolled.  *)
(***************************************************************************)
CONSTANTS Pairs, None

VARIABLES held, accepted

vars == <<held, accepted>>

Init == held = None /\ accepted = {}

\* The first identity, generated before any contact with the controller.
Adopt(p) == held = None /\ held' = p /\ UNCHANGED accepted

\* Enrolment registers the identity in use.
Register == /\ held # None
            /\ accepted = {}
            /\ accepted' = {held}
            /\ UNCHANGED held

\* The controller acknowledges an announced identity; a later announcement
\* replaces an earlier one that was never used.
Offer(p) == /\ held \in accepted
            /\ accepted' = {held, p}
            /\ UNCHANGED held

\* The agent switches, and only to an identity its controller knows.
Switch(p) == /\ held # None
             /\ accepted = {} \/ p \in accepted
             /\ held' = p
             /\ UNCHANGED accepted

\* First use of the held identity: the controller drops every other one.
Drop == /\ held \in accepted
        /\ accepted' = {held}
        /\ UNCHANGED held

\* The controller lost its record of this host (its database was reset).
Forget == accepted' = {} /\ UNCHANGED held

Next == \/ Register \/ Drop \/ Forget
        \/ \E p \in Pairs : Adopt(p) \/ Offer(p) \/ Switch(p)

Spec == Init /\ [][Next]_vars
=============================================================================

------------------------------- MODULE Stack -------------------------------
(***************************************************************************)
(* What the connections of a host share: the producers and tables of the   *)
(* layers below them, and the timer that drives them; and the estimation   *)
(* of their timeouts.  The parts touch no variable of each other, so that  *)
(* a behaviour is one of a single part.                                    *)
(***************************************************************************)
EXTENDS Network, TCPv4Timers

CONSTANTS
    Parts           \* a subset of {"network", "timers", "estimation"}

ASSUME StackAssumption == Parts \subseteq {"network", "timers", "estimation"}

VARIABLES
    part

vars == <<part, networkVars, slots, rtt>>

Init == part \in Parts /\ NetworkInit /\ TimersInit /\ RttInit

Next ==
    /\ \/ part = "network" /\ NetworkNext /\ UNCHANGED <<slots, rtt>>
       \/ part = "timers" /\ TimersNext /\ UNCHANGED <<networkVars, rtt>>
       \/ part = "estimation" /\ RttNext /\ UNCHANGED <<networkVars, slots>>
    /\ UNCHANGED part

Spec == Init /\ [][Next]_vars

\* The loops of the programs call run() again and again.
FairSpec ==
    Spec /\ WF_vars(part = "timers" /\ Scan /\ UNCHANGED <<part, networkVars, rtt>>)
=============================================================================

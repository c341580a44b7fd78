-------------------------------- MODULE Link --------------------------------
(***************************************************************************)
(* What a transport device promises to the stacks at its two ends: every   *)
(* frame that commit() accepted is taken once, as it was committed, and in *)
(* the order of the commits.                                               *)
(***************************************************************************)
EXTENDS Naturals, Sequences

CONSTANT Frames     \* what can be committed

VARIABLES
    sent,           \* the frames accepted by commit()
    taken           \* the frames handed to the processor of the other end

vars == <<sent, taken>>

Init == sent = <<>> /\ taken = <<>>

Send ==
    /\ \E f \in Frames : sent' = Append(sent, f)
    /\ UNCHANGED taken

Take ==
    /\ Len(taken) < Len(sent)
    /\ taken' = Append(taken, sent[Len(taken) + 1])
    /\ UNCHANGED sent

Next == Send \/ Take

Spec == Init /\ [][Next]_vars
=============================================================================

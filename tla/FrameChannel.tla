---------------------------- MODULE FrameChannel ----------------------------
(***************************************************************************)
(* What a camera's stream promises its consumer: an ordered channel that   *)
(* may lose frames but never repeats or reorders them, and that loses only *)
(* at its ends (the oldest frame pending, as a bounded deque does, or the  *)
(* newest, as the conditional put does).                                   *)
(***************************************************************************)
EXTENDS Naturals, Sequences

VARIABLES
    next,      \* the id of the next frame
    pending,   \* ids produced, neither received nor lost yet
    received   \* ids the consumer got, in order

vars == <<next, pending, received>>

Init ==
    /\ next = 0
    /\ pending = {}
    /\ received = <<>>

Oldest(f) == f \in pending /\ \A g \in pending : f <= g
Newest(f) == f \in pending /\ \A g \in pending : g <= f

Produce ==
    /\ pending' = pending \cup {next}
    /\ next' = next + 1
    /\ UNCHANGED received

Lose ==
    \E f \in pending :
        /\ Oldest(f) \/ Newest(f)
        /\ pending' = pending \ {f}
        /\ UNCHANGED <<next, received>>

Receive ==
    \E f \in pending :
        /\ Oldest(f)
        /\ received' = Append(received, f)
        /\ pending' = pending \ {f}
        /\ UNCHANGED next

Next == Produce \/ Lose \/ Receive

Spec == Init /\ [][Next]_vars
=============================================================================

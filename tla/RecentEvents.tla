---------------------------- MODULE RecentEvents ----------------------------
(***************************************************************************)
(* What the event buffer promises: the Size events added last, in the      *)
(* order in which they were added.                                         *)
(***************************************************************************)
EXTENDS Naturals, Sequences

CONSTANTS Size, Events

VARIABLE recent

Init == recent = << >>

Remember(e) ==
    \/ Len(recent) < Size /\ recent' = Append(recent, e)
    \/ Len(recent) = Size /\ recent' = Append(Tail(recent), e)

Next == \E e \in Events : Remember(e)

Spec == Init /\ [][Next]_recent
=============================================================================

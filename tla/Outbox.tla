------------------------------- MODULE Outbox -------------------------------
(***************************************************************************)
(* What the bridge's send queue is for: messages are tried one by one, in  *)
(* the order they were asked for, each of them once.                       *)
(***************************************************************************)
EXTENDS Sequences

CONSTANT Tasks

VARIABLES
    waiting,   \* asked for and not tried yet
    tried      \* in the order they were tried

Init == waiting = <<>> /\ tried = <<>>

New(t) == \A i \in DOMAIN waiting : waiting[i] # t

Ask(t) ==
    /\ New(t)
    /\ \A i \in DOMAIN tried : tried[i] # t
    /\ waiting' = Append(waiting, t)
    /\ UNCHANGED tried

Try ==
    /\ waiting # <<>>
    /\ tried' = Append(tried, Head(waiting))
    /\ waiting' = Tail(waiting)

Next == (\E t \in Tasks : Ask(t)) \/ Try

Spec == Init /\ [][Next]_<<waiting, tried>>
=============================================================================

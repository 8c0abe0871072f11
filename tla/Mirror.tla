------------------------------- MODULE Mirror -------------------------------
(***************************************************************************)
(* What a phone may assume of its copy of the index, whatever the feed     *)
(* does in between: a number's entry is one the index has published, and   *)
(* it is never replaced by an older one.                                   *)
(***************************************************************************)
EXTENDS Naturals

CONSTANT Numbers

VARIABLES
    published,   \* the version of each number's row, 0 before there is one
    copy         \* the version a phone has, 0 if none

Init ==
    /\ published = [n \in Numbers |-> 0]
    /\ copy = [n \in Numbers |-> 0]

Publish(n) ==
    /\ published' = [published EXCEPT ![n] = @ + 1]
    /\ UNCHANGED copy

Refresh ==
    /\ copy' \in [Numbers -> Nat]
    /\ \A n \in Numbers : copy[n] <= copy'[n] /\ copy'[n] <= published[n]
    /\ UNCHANGED published

Next == (\E n \in Numbers : Publish(n)) \/ Refresh

Spec == Init /\ [][Next]_<<published, copy>>
=============================================================================

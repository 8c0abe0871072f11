-------------------------- MODULE MCNumberRegistry --------------------------
(* Small instances of NumberRegistry. *)
EXTENDS NumberRegistry, TLC

CONSTANTS Ana, Anna, Zoe, Rude  \* names: two spellings of one, another, a profane one

MCNormal  == [x \in Names |-> x]
MCSimilar == {<<Ana, Ana>>, <<Anna, Anna>>, <<Ana, Anna>>, <<Anna, Ana>>, <<Zoe, Zoe>>}

(* Requests are interchangeable, numbers are, and so are the two spellings. *)
CallSymmetry == Permutations(Requests) \cup Permutations(Numbers)
FullSymmetry == CallSymmetry \cup Permutations({Ana, Anna})
=============================================================================

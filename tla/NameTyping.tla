----------------------------- MODULE NameTyping -----------------------------
(***************************************************************************)
(* Two names as people type them for one number, and then disguise them:   *)
(* every pair of short names is a state, and CallerNames is asked of it.    *)
(***************************************************************************)
EXTENDS CallerNames

CONSTANT MaxLen   \* bounds a name, in characters

ASSUME LenAssumption == MaxLen \in Nat

VARIABLES
    stored,   \* the name of an existing suggestion
    typed     \* the name contributed next

vars == <<stored, typed>>

Init == stored = <<>> /\ typed = <<>>

Suggest(c) ==
    /\ Len(stored) < MaxLen
    /\ stored' = Append(stored, c)
    /\ UNCHANGED typed

(* The comparison is checked both ways: the longer name is the stored one. *)
Type(c) ==
    /\ Len(typed) < Len(stored)
    /\ typed' = Append(typed, c)
    /\ UNCHANGED stored

(* A character that reads the same, or a separator somewhere. *)
LookAlike(i, c) ==
    /\ Reads[c] = Reads[typed[i]]
    /\ typed' = ReplaceAt(typed, i, c)
    /\ UNCHANGED stored

Separate(i, c) ==
    /\ Len(typed) < Len(stored)
    /\ Reads[c] = Gap
    /\ typed' = InsertAt(typed, i, c)
    /\ UNCHANGED stored

Next ==
    \E c \in Chars :
        \/ Suggest(c) \/ Type(c)
        \/ \E i \in DOMAIN typed : LookAlike(i, c) \/ Separate(i, c)

Spec == Init /\ [][Next]_vars

-----------------------------------------------------------------------------
(* Whether two names are one caller does not depend on which of them came
   first, although the matching is greedy from the left of one name and the
   windows and transpositions are counted along it: the clusters, and so the
   votes, do not depend on who contributed first in this respect.           *)
SimilarBothWays == AreNamesSimilar(stored, typed) = AreNamesSimilar(typed, stored)

(* levenshtein_distance is the fewest edits: it is 0 for equal tokens only, no
   edit changes it by more than one, and when it is not 0 some edit lowers it.
   Asked, as in the code, of tokens only.                                    *)
Edited(w) ==
    {RemoveAt(w, i) : i \in DOMAIN w}
    \cup {ReplaceAt(w, i, c) : i \in DOMAIN w, c \in Alphanumeric}
    \cup {InsertAt(w, i, c) : i \in 1..(Len(w) + 1), c \in Alphanumeric}

FewestEdits ==
    Range(stored) \cup Range(typed) \subseteq Alphanumeric =>
        LET d == LevenshteinDistance(stored, typed)
            near == {LevenshteinDistance(stored, w) : w \in Edited(typed)}
        IN  /\ d = 0 <=> stored = typed
            /\ near \subseteq (d - 1)..(d + 1)
            /\ d > 0 => d - 1 \in near

(* No disguise helps: a name that is rejected stays rejected when it goes on,
   when characters are replaced by others that read the same, and when
   separators are put in between.                                            *)
NeverPardoned == [][IsProfane(typed) => IsProfane(typed')]_vars
=============================================================================

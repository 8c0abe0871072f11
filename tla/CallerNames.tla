---------------------------- MODULE CallerNames -----------------------------
(***************************************************************************)
(* How contributed names are compared and filtered: fuzzy.rs, which says   *)
(* whether two names are one caller, and profanity.rs, which drops a name. *)
(*                                                                         *)
(* A name is a sequence of lower-case characters.  Scores are rationals    *)
(* <<numerator, denominator>>, where the code has f64; the score that      *)
(* are_names_similar returns is only logged, and left out.                 *)
(***************************************************************************)
EXTENDS Integers, SequencesExt

CONSTANTS
    Chars,
    Alphanumeric,   \* the others separate words
    Width,          \* UTF-8 bytes of a character
    Reads,          \* the letter the filter takes a character for, or Gap
    Gap,            \* a character the filter takes for none
    StopWords,      \* BUSINESS_STOP_WORDS
    ProfaneWords    \* PROFANITY_WORDS

ASSUME CharsAssumption ==
    /\ Alphanumeric \subseteq Chars /\ Gap \notin Chars
    /\ Width \in [Chars -> 1..4]
    /\ Reads \in [Chars -> Alphanumeric \cup {Gap}]
    /\ ProfaneWords \subseteq Seq(Chars)

Bytes(word) == FoldLeft(LAMBDA n, c : n + Width[c], 0, word)

(* The elements that are not to be dropped, in order. *)
Without(seq, drop) ==
    FoldLeft(LAMBDA kept, e : IF e \in drop THEN kept ELSE Append(kept, e), <<>>, seq)

Occurs(word, text) ==
    \E i \in 0..(Len(text) - Len(word)) : SubSeq(text, i + 1, i + Len(word)) = word

(* split_whitespace: all that is not alphanumeric has been made a space. *)
Words(text) ==
    LET Grow(words, i) ==
          IF text[i] \notin Alphanumeric THEN words
          ELSE IF i > 1 /\ text[i - 1] \in Alphanumeric
               THEN [words EXCEPT ![Len(words)] = Append(@, text[i])]
               ELSE Append(words, <<text[i]>>)
    IN  FoldLeftDomain(Grow, <<>>, text)

-----------------------------------------------------------------------------
(* fuzzy.rs *)

(* The words that are no stop words and have two bytes, or all of them. *)
ExtractCoreTokens(name) ==
    LET words == Words(name)
        core  == Without(words, {w \in Range(words) : w \in StopWords \/ Bytes(w) < 2})
    IN  IF core = <<>> THEN words ELSE core

Least(i, j, k) == IF i <= j /\ i <= k THEN i ELSE IF j <= k THEN j ELSE k

(* Mutated: the substitution is taken from above instead of the diagonal. *)
RowFromAbove(a, b, prev, i) ==
    LET Cell(curr, j) ==
          Append(curr, Least(prev[j + 1] + 1, curr[j] + 1,
                             prev[j + 1] + (IF a[i] = b[j] THEN 0 ELSE 1)))
    IN  FoldLeftDomain(Cell, <<i>>, b)

(* curr_row of character i of a, from prev_row; both start with column 0. *)
Row(a, b, prev, i) ==
    LET Cell(curr, j) ==
          Append(curr, Least(prev[j + 1] + 1, curr[j] + 1,
                             prev[j] + (IF a[i] = b[j] THEN 0 ELSE 1)))
    IN  FoldLeftDomain(Cell, <<i>>, b)

LevenshteinDistance(a, b) ==
    Last(FoldLeftDomain(LAMBDA prev, i : Row(a, b, prev, i),
                        [j \in 1..(Len(b) + 1) |-> j - 1], a))

(* Mutated: the window reaches match_distance back only. *)
WindowBack(a, b, i) ==
    LET far == (IF Len(a) > Len(b) THEN Len(a) ELSE Len(b)) \div 2
    IN  {j \in DOMAIN b : j > i - far /\ j <= i}

(* Where character i of a may have its match: match_distance around i. *)
Window(a, b, i) ==
    LET far == (IF Len(a) > Len(b) THEN Len(a) ELSE Len(b)) \div 2
    IN  {j \in DOMAIN b : j = i \/ (j > i - far /\ j < i + far)}

(* The position in b each character of a is matched with, 0 for none: the
   first in its window that is equal and not taken.                         *)
Matches(a, b) ==
    LET Match(taken, i) ==
          LET free == {j \in Window(a, b, i) : b[j] = a[i] /\ j \notin Range(taken)}
          IN  Append(taken, IF free = {} THEN 0 ELSE Min(free))
    IN  FoldLeftDomain(Match, <<>>, a)

InOrder(positions) == SetToSortSeq(positions, <)

(* The matched characters of a, and those of b, in order, where they differ. *)
Transpositions(a, b, matched) ==
    LET inA == {i \in DOMAIN a : matched[i] # 0}
        inB == Range(matched) \ {0}
    IN  Cardinality({k \in 1..Cardinality(inA) : a[InOrder(inA)[k]] # b[InOrder(inB)[k]]})
          \div 2

JaroSimilarity(a, b) ==
    LET matched == Matches(a, b)
        m == Cardinality(Range(matched) \ {0})
        t == Transpositions(a, b, matched)
    IN  IF a = <<>> /\ b = <<>> THEN <<1, 1>>
        ELSE IF m = 0 THEN <<0, 1>>
        ELSE <<m * m * (Len(a) + Len(b)) + (m - t) * Len(a) * Len(b),
               3 * m * Len(a) * Len(b)>>

AtLeast(score, percent) == 100 * score[1] >= percent * score[2]

(* The bonus for a common prefix of up to four characters. *)
JaroWinklerSimilarity(a, b) ==
    LET jaro   == JaroSimilarity(a, b)
        common == Len(LongestCommonPrefix({a, b}))
        bonus  == IF common < 4 THEN common ELSE 4
    IN  IF ~AtLeast(jaro, 70) THEN jaro
        ELSE <<10 * jaro[1] + bonus * (jaro[2] - jaro[1]), 10 * jaro[2]>>

Joined(tokens) ==
    FoldLeft(LAMBDA text, w : IF text = <<>> THEN w ELSE text \o <<Gap>> \o w, <<>>, tokens)

(* A core of four bytes or more, within the other; a space is one byte. *)
Contained(a, b) ==
    LET Size(n, c) == n + (IF c = Gap THEN 1 ELSE Width[c])
    IN  FoldLeft(Size, 0, a) >= 4 /\ Occurs(a, b)

TokensClose(v, w) ==
    \/ AtLeast(JaroWinklerSimilarity(v, w), 80)
    \/ /\ Bytes(v) >= 4 /\ Bytes(w) >= 4
       /\ LevenshteinDistance(v, w) <= 2

(* Equal cores, close cores, one core within the other, or two close tokens. *)
AreNamesSimilar(a, b) ==
    LET ta == ExtractCoreTokens(a)
        tb == ExtractCoreTokens(b)
        coreA == Joined(ta)
        coreB == Joined(tb)
    IN  /\ ta # <<>> /\ tb # <<>>
        /\ \/ coreA = coreB
           \/ AtLeast(JaroWinklerSimilarity(coreA, coreB), 75)
           \/ Contained(coreA, coreB) \/ Contained(coreB, coreA)
           \/ \E v \in Range(ta), w \in Range(tb) : TokensClose(v, w)

-----------------------------------------------------------------------------
(* profanity.rs *)

(* clean_and_normalize with spaces, and compacted. *)
Cleaned(raw) == [i \in DOMAIN raw |-> Reads[raw[i]]]

(* Mutated: the spaces are kept. *)
CompactedWithSpaces(raw) == Cleaned(raw)

Compacted(raw) == Without(Cleaned(raw), {Gap})

IsProfane(raw) ==
    \/ \E bad \in ProfaneWords : Occurs(bad, Compacted(raw))
    \/ \E word \in Range(Words(Cleaned(raw))) :
          \/ word \in ProfaneWords
          \/ \E bad \in ProfaneWords : Bytes(bad) >= 4 /\ Occurs(bad, word)
=============================================================================

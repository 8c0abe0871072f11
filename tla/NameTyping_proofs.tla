------------------------- MODULE NameTyping_proofs --------------------------
(* What CallerNames computes for names of every length and characters of every
   alphabet.  Its operators are folds, and a fold is a choice of a function: a
   least counterexample shows that the function exists and is the only one, so
   that a fold can be followed from one position to the next (sections 1, 2
   and 9).  Then
     levenshtein_distance is the last cell of a table, and that is the fewest
       edits (3 to 8),
     the greedy matching of jaro_similarity is the only stable one, and so the
       comparison of two names is symmetric (10 and 11),
     every word of a name occurs in the name without its gaps, and so no
       separator and no look-alike hides a word from is_profane (12 and 13). *)
EXTENDS NameTyping, SequenceTheorems, FiniteSetTheorems, WellFoundedInduction, TLAPS

-----------------------------------------------------------------------------
(* 1. Smallest counterexamples, and what a fold of CallerNames computes.      *)

(* Of the subsets of a finite set that are in B, one has no smaller one in B. *)
LEMMA SmallestSet ==
    ASSUME NEW S, IsFiniteSet(S), NEW B, B \subseteq SUBSET S, B # {}
    PROVE  \E T \in B : \A U \in SUBSET T : U # T => U \notin B
<1>1. IsWellFoundedOn(StrictSubsetOrdering(S), SUBSET S)
  BY FS_StrictSubsetOrderingWellFounded, FS_FiniteSubsetsOfFinite
<1>2. \E T \in B : \A U \in B : ~ (<<U, T>> \in StrictSubsetOrdering(S))
  BY <1>1, WFMin, Zenon
<1> QED BY <1>2 DEF StrictSubsetOrdering

(* Every set of natural numbers has a least one. *)
LEMMA SmallestNat ==
    ASSUME NEW N, N \subseteq Nat, N # {}
    PROVE  \E n \in N : \A m \in N : n <= m
<1>1. PICK k \in N : TRUE
  OBVIOUS
<1> DEFINE B == {T \in SUBSET (0..k) : \E n \in N : n <= k /\ T = 0..n}
<1>2. PICK T \in B : \A U \in SUBSET T : U # T => U \notin B
  <2>1. 0..k \in B
    BY <1>1
  <2>2. IsFiniteSet(0..k)
    BY <1>1, FS_Interval
  <2>3. B \subseteq SUBSET (0..k) /\ B # {}
    BY <2>1
  <2> HIDE DEF B
  <2> QED BY <2>2, <2>3, SmallestSet, Zenon
<1>3. PICK n \in N : n <= k /\ T = 0..n
  BY <1>2
<1>4. ASSUME NEW m \in N, m < n PROVE FALSE
  <2>1. /\ 0..m \in SUBSET (0..k)
        /\ 0..m \in SUBSET (0..n)
        /\ n \in 0..n /\ n \notin 0..m /\ m <= k
    BY <1>1, <1>3, <1>4
  <2>2. 0..m \in B
    BY <2>1
  <2> QED BY <1>2, <1>3, <2>1, <2>2
<1>5. \A m \in N : n <= m
  BY <1>3, <1>4
<1> QED BY <1>5

Indices(S) == \E n \in Nat : S \subseteq 1..n

(* A set of positions is finite, and so is what it has of them. *)
LEMMA SomeIndices ==
    ASSUME NEW S, Indices(S)
    PROVE  IsFiniteSet(S) /\ \A T \in SUBSET S : Indices(T)
<1>1. PICK n \in Nat : S \subseteq 1..n
  BY DEF Indices
<1>2. IsFiniteSet(1..n)
  BY FS_Interval
<1>3. IsFiniteSet(S)
  BY <1>1, <1>2, FS_Subset
<1> QED BY <1>1, <1>3 DEF Indices

(* Max of a set of positions is its largest element. *)
LEMMA MaxOf ==
    ASSUME NEW T, Indices(T), T # {}
    PROVE  Max(T) \in T /\ \A y \in T : Max(T) >= y
<1>0. PICK n \in Nat : T \subseteq 1..n
  BY DEF Indices
<1> DEFINE N == {k \in Nat : \A y \in T : y <= k}
<1>1. n \in N
  BY <1>0
<1>2. PICK k \in N : \A m \in N : k <= m
  BY <1>1, SmallestNat
<1>3. k \in T /\ \A y \in T : k >= y
  <2>1. SUFFICES ASSUME k \notin T PROVE FALSE
    BY <1>0
  <2>2. PICK y \in T : TRUE
    OBVIOUS
  <2>3. k >= 1 /\ k - 1 \in Nat
    BY <1>0, <2>2
  <2>4. k - 1 \in N
    BY <1>0, <2>1, <2>3
  <2> QED BY <1>2, <2>3, <2>4
<1>4. \E x \in T : \A y \in T : x >= y
  BY <1>3
<1> QED BY <1>4 DEF Max

(* What a fold takes off 1..n is n. *)
LEMMA MaxOfSegment ==
    ASSUME NEW n \in Nat \ {0}
    PROVE  /\ Max(1..n) = n /\ (1..n) \ {n} = 1..(n - 1)
           /\ 1..n # {} /\ 1..(n-1) \in SUBSET (1..n)
<1>1. Indices(1..n) /\ 1..n # {}
  BY DEF Indices
<1>2. Max(1..n) \in 1..n /\ \A y \in 1..n : Max(1..n) >= y
  BY <1>1, MaxOf, Zenon
<1> QED BY <1>1, <1>2

(* What each fold of CallerNames makes of its value v at the next element x. *)
Cell(a, b, prev, i, v, x) ==
    Append(v, Least(prev[x + 1] + 1, v[x] + 1, prev[x] + (IF a[i] = b[x] THEN 0 ELSE 1)))

Match(a, b, v, x) ==
    LET free == {j \in Window(a, b, x) : b[j] = a[x] /\ j \notin Range(v)}
    IN  Append(v, IF free = {} THEN 0 ELSE Min(free))

Grow(a, v, x) ==
    IF a[x] \notin Alphanumeric THEN v
    ELSE IF x > 1 /\ a[x - 1] \in Alphanumeric
         THEN [v EXCEPT ![Len(v)] = Append(@, a[x])]
         ELSE Append(v, <<a[x]>>)

Keep(b, v, x) == IF x \in b THEN v ELSE Append(v, x)

Join(v, x) == IF v = <<>> THEN x ELSE v \o <<Gap>> \o x

Step(p, v, x) ==
    IF p.kind = "row" THEN Row(p.a, p.b, v, x)
    ELSE IF p.kind = "cell" THEN Cell(p.a, p.b, p.prev, p.i, v, x)
    ELSE IF p.kind = "match" THEN Match(p.a, p.b, v, x)
    ELSE IF p.kind = "words" THEN Grow(p.a, v, x)
    ELSE IF p.kind = "keep" THEN Keep(p.b, v, x)
    ELSE Join(v, x)

(* A fold: its kind, what it is of, its first value and the sequence folded. *)
Walk(kind, a, b, prev, i, base, s) ==
    [kind |-> kind, a |-> a, b |-> b, prev |-> prev, i |-> i, base |-> base, s |-> s]

Solves(f, p, S) ==
    f = [T \in SUBSET S |-> IF T = {} THEN p.base
                            ELSE Step(p, f[T \ {Max(T)}], p.s[Max(T)])]

Fold(p, S) == (CHOOSE f : Solves(f, p, S))[S]

(* Two functions that solve one fold agree on the smaller domain. *)
LEMMA SolutionsAgree ==
    ASSUME NEW p, NEW S, Indices(S), NEW f, Solves(f, p, S),
           NEW T \in SUBSET S, NEW g, Solves(g, p, T)
    PROVE  f[T] = g[T]
<1> DEFINE B == {U \in SUBSET T : f[U] # g[U]}
<1>1. SUFFICES ASSUME B # {} PROVE FALSE
  OBVIOUS
<1>2. PICK U \in B : \A V \in SUBSET U : V # U => V \notin B
  <2>1. IsFiniteSet(T) /\ B \subseteq SUBSET T
    BY SomeIndices, FS_Subset
  <2> HIDE DEF B
  <2> QED BY <1>1, <2>1, SmallestSet, Zenon
<1>3. /\ f[U] = IF U = {} THEN p.base ELSE Step(p, f[U \ {Max(U)}], p.s[Max(U)])
      /\ g[U] = IF U = {} THEN p.base ELSE Step(p, g[U \ {Max(U)}], p.s[Max(U)])
  <2>1. U \in SUBSET S /\ U \in SUBSET T
    OBVIOUS
  <2> HIDE DEF B
  <2>2. f[U] = IF U = {} THEN p.base ELSE Step(p, f[U \ {Max(U)}], p.s[Max(U)])
    BY <2>1 DEF Solves
  <2>3. g[U] = IF U = {} THEN p.base ELSE Step(p, g[U \ {Max(U)}], p.s[Max(U)])
    BY <2>1 DEF Solves
  <2> QED BY <2>2, <2>3
<1>4. U # {}
  BY <1>3
<1>5. U \ {Max(U)} \in SUBSET U /\ U \ {Max(U)} # U
  <2>1. Indices(U)
    BY SomeIndices
  <2> QED BY <1>4, <2>1, MaxOf
<1>6. f[U \ {Max(U)}] = g[U \ {Max(U)}]
  BY <1>2, <1>5
<1> QED BY <1>2, <1>3, <1>6

(* Every fold over a set of positions has a solution, so that CHOOSE finds one. *)
LEMMA SolutionsExist ==
    ASSUME NEW p, NEW S, Indices(S)
    PROVE  \E f : Solves(f, p, S)
<1> DEFINE B == {T \in SUBSET S : ~ \E f : Solves(f, p, T)}
<1>1. SUFFICES ASSUME B # {} PROVE FALSE
  OBVIOUS
<1>2. PICK T \in B : \A U \in SUBSET T : U # T => U \notin B
  <2>1. B \subseteq SUBSET S /\ IsFiniteSet(S)
    BY SomeIndices
  <2> HIDE DEF B
  <2> QED BY <1>1, <2>1, SmallestSet, Zenon
<1>3. \A U \in SUBSET T : U # T => \E f : Solves(f, p, U)
  BY <1>2
<1> DEFINE g == [U \in SUBSET T |-> IF U = {} THEN p.base
                                    ELSE Step(p, Fold(p, U \ {Max(U)}), p.s[Max(U)])]
<1>4. ASSUME NEW U \in SUBSET T, U # T PROVE g[U] = Fold(p, U)
  <2>1. PICK f : f = (CHOOSE h : Solves(h, p, U)) /\ Solves(f, p, U)
    BY <1>3, <1>4
  <2>2. Fold(p, U) = f[U]
    BY <2>1 DEF Fold
  <2>3. f[U] = IF U = {} THEN p.base ELSE Step(p, f[U \ {Max(U)}], p.s[Max(U)])
    BY <2>1 DEF Solves
  <2>4. ASSUME U # {} PROVE f[U \ {Max(U)}] = Fold(p, U \ {Max(U)})
    <3> DEFINE V == U \ {Max(U)}
    <3>1. V \in SUBSET U /\ V \in SUBSET T /\ V # T
      BY <1>4
    <3>2. PICK k : k = (CHOOSE h : Solves(h, p, V)) /\ Solves(k, p, V)
      BY <1>3, <3>1
    <3>3. Fold(p, V) = k[V]
      BY <3>2 DEF Fold
    <3>4. Indices(U)
      BY SomeIndices
    <3> HIDE DEF V
    <3>5. f[V] = k[V]
      BY <2>1, <3>1, <3>2, <3>4, SolutionsAgree
    <3> QED BY <3>3, <3>5 DEF V
  <2> QED BY <2>2, <2>3, <2>4
<1>5. Solves(g, p, T)
  <2> SUFFICES ASSUME NEW U \in SUBSET T, U # {}
               PROVE  g[U \ {Max(U)}] = Fold(p, U \ {Max(U)})
    BY DEF Solves
  <2>1. U \ {Max(U)} \in SUBSET T /\ U \ {Max(U)} # T
    <3>1. Indices(U)
      BY SomeIndices
    <3> QED BY <3>1, MaxOf
  <2> HIDE DEF g
  <2> QED BY <1>4, <2>1
<1> QED BY <1>2, <1>5

(* A fold to n is one step from the fold to n - 1. *)
LEMMA FoldStep ==
    ASSUME NEW p, NEW n \in Nat
    PROVE  Fold(p, 1..n) = IF n = 0 THEN p.base ELSE Step(p, Fold(p, 1..(n - 1)), p.s[n])
<1> DEFINE S == 1..n
           R == 1..(n - 1)
<1>1. Indices(S) /\ Indices(R) /\ R \in SUBSET S
  <2>1. S \subseteq 1..n /\ R \subseteq 1..n
    OBVIOUS
  <2> HIDE DEF S, R
  <2> QED BY <2>1 DEF Indices, S, R
<1>2. n # 0 => S # {} /\ Max(S) = n /\ S \ {n} = R
  BY MaxOfSegment
<1>3. n = 0 => S = {}
  OBVIOUS
<1> HIDE DEF S, R
<1>4. PICK f : f = (CHOOSE h : Solves(h, p, S)) /\ Solves(f, p, S)
  BY <1>1, SolutionsExist
<1>5. PICK k : k = (CHOOSE h : Solves(h, p, R)) /\ Solves(k, p, R)
  BY <1>1, SolutionsExist
<1>6. Fold(p, S) = f[S] /\ Fold(p, R) = k[R]
  BY <1>4, <1>5 DEF Fold
<1>7. f[R] = k[R]
  BY <1>1, <1>4, <1>5, SolutionsAgree
<1>8. f[S] = IF S = {} THEN p.base ELSE Step(p, f[S \ {Max(S)}], p.s[Max(S)])
  BY <1>4 DEF Solves
<1>9. Fold(p, S) = IF n = 0 THEN p.base ELSE Step(p, Fold(p, R), p.s[n])
  BY <1>2, <1>3, <1>6, <1>7, <1>8
<1> QED BY <1>9 DEF S, R

(* Any solution gives the value of the fold. *)
LEMMA FoldOf ==
    ASSUME NEW p, NEW S, Indices(S), NEW h, Solves(h, p, S)
    PROVE  h[S] = Fold(p, S)
<1>1. PICK k : k = (CHOOSE f : Solves(f, p, S)) /\ Solves(k, p, S)
  OBVIOUS
<1>2. Fold(p, S) = k[S]
  BY <1>1 DEF Fold
<1> QED BY <1>1, <1>2, SolutionsAgree

-----------------------------------------------------------------------------
(* 2. The folds of CallerNames as Fold: each is the choice of a function on
   the sets of positions, named X_Solves here.                               *)

CellSolves(f, a, b, prev, i) ==
    f = [T \in SUBSET DOMAIN [j \in DOMAIN b |-> j] |->
            IF T = {} THEN <<i>>
            ELSE Cell(a, b, prev, i, f[T \ {Max(T)}], [j \in DOMAIN b |-> j][Max(T)])]

(* The cells of a row. *)
LEMMA CellIsFold ==
    ASSUME NEW a, NEW b, NEW prev, NEW i, Indices(DOMAIN b)
    PROVE  Row(a, b, prev, i) =
             Fold(Walk("cell", a, b, prev, i, <<i>>, [j \in DOMAIN b |-> j]), DOMAIN b)
<1> DEFINE p == Walk("cell", a, b, prev, i, <<i>>, [j \in DOMAIN b |-> j])
           h == CHOOSE f : CellSolves(f, a, b, prev, i)
<1>1. Row(a, b, prev, i) = h[DOMAIN [j \in DOMAIN b |-> j]]
  BY Zenon DEF Row, Cell, FoldLeftDomain, FoldLeft, MapThenFoldSet, CellSolves
<1>2. DOMAIN [j \in DOMAIN b |-> j] = DOMAIN b
  OBVIOUS
<1>3. ASSUME NEW f PROVE Solves(f, p, DOMAIN b) <=> CellSolves(f, a, b, prev, i)
  BY DEF Solves, Step, CellSolves, Walk
<1>4. CellSolves(h, a, b, prev, i)
  BY <1>3, SolutionsExist
<1>5. Solves(h, p, DOMAIN b)
  BY <1>3, <1>4
<1> HIDE DEF p, h
<1> QED BY <1>1, <1>2, <1>5, FoldOf DEF p

RowSolves(f, a, b) ==
    f = [T \in SUBSET DOMAIN [i \in DOMAIN a |-> i] |->
            IF T = {} THEN [j \in 1..(Len(b) + 1) |-> j - 1]
            ELSE Row(a, b, f[T \ {Max(T)}], [i \in DOMAIN a |-> i][Max(T)])]

(* The rows of the table. *)
LEMMA RowIsFold ==
    ASSUME NEW a, NEW b, Indices(DOMAIN a)
    PROVE  LevenshteinDistance(a, b) =
             Last(Fold(Walk("row", a, b, 0, 0, [j \in 1..(Len(b) + 1) |-> j - 1],
                            [i \in DOMAIN a |-> i]), DOMAIN a))
<1> DEFINE p == Walk("row", a, b, 0, 0, [j \in 1..(Len(b) + 1) |-> j - 1],
                         [i \in DOMAIN a |-> i])
           h == CHOOSE f : RowSolves(f, a, b)
<1>1. LevenshteinDistance(a, b) = Last(h[DOMAIN [i \in DOMAIN a |-> i]])
  BY Zenon DEF LevenshteinDistance, FoldLeftDomain, FoldLeft, MapThenFoldSet, RowSolves
<1>2. DOMAIN [i \in DOMAIN a |-> i] = DOMAIN a
  OBVIOUS
<1>3. ASSUME NEW f PROVE Solves(f, p, DOMAIN a) <=> RowSolves(f, a, b)
  BY DEF Solves, Step, RowSolves, Walk
<1>4. RowSolves(h, a, b)
  BY <1>3, SolutionsExist
<1>5. Solves(h, p, DOMAIN a)
  BY <1>3, <1>4
<1> HIDE DEF p, h
<1> QED BY <1>1, <1>2, <1>5, FoldOf DEF p

MatchSolves(f, a, b) ==
    f = [T \in SUBSET DOMAIN [i \in DOMAIN a |-> i] |->
            IF T = {} THEN <<>>
            ELSE Match(a, b, f[T \ {Max(T)}], [i \in DOMAIN a |-> i][Max(T)])]

(* The matched positions. *)
LEMMA MatchIsFold ==
    ASSUME NEW a, NEW b, Indices(DOMAIN a)
    PROVE  Matches(a, b) =
             Fold(Walk("match", a, b, 0, 0, <<>>, [i \in DOMAIN a |-> i]), DOMAIN a)
<1> DEFINE p == Walk("match", a, b, 0, 0, <<>>, [i \in DOMAIN a |-> i])
           h == CHOOSE f : MatchSolves(f, a, b)
<1>1. Matches(a, b) = h[DOMAIN [i \in DOMAIN a |-> i]]
  BY Zenon DEF Matches, Match, FoldLeftDomain, FoldLeft, MapThenFoldSet, MatchSolves
<1>2. DOMAIN [i \in DOMAIN a |-> i] = DOMAIN a
  OBVIOUS
<1>3. ASSUME NEW f PROVE Solves(f, p, DOMAIN a) <=> MatchSolves(f, a, b)
  BY DEF Solves, Step, MatchSolves, Walk
<1>4. MatchSolves(h, a, b)
  BY <1>3, SolutionsExist
<1>5. Solves(h, p, DOMAIN a)
  BY <1>3, <1>4
<1> HIDE DEF p, h
<1> QED BY <1>1, <1>2, <1>5, FoldOf DEF p

WordsSolves(f, a) ==
    f = [T \in SUBSET DOMAIN [i \in DOMAIN a |-> i] |->
            IF T = {} THEN <<>>
            ELSE Grow(a, f[T \ {Max(T)}], [i \in DOMAIN a |-> i][Max(T)])]

(* The words of a text. *)
LEMMA WordsIsFold ==
    ASSUME NEW a, Indices(DOMAIN a)
    PROVE  Words(a) =
             Fold(Walk("words", a, 0, 0, 0, <<>>, [i \in DOMAIN a |-> i]), DOMAIN a)
<1> DEFINE p == Walk("words", a, 0, 0, 0, <<>>, [i \in DOMAIN a |-> i])
           h == CHOOSE f : WordsSolves(f, a)
<1>1. Words(a) = h[DOMAIN [i \in DOMAIN a |-> i]]
  BY Zenon DEF Words, Grow, FoldLeftDomain, FoldLeft, MapThenFoldSet, WordsSolves
<1>2. DOMAIN [i \in DOMAIN a |-> i] = DOMAIN a
  OBVIOUS
<1>3. ASSUME NEW f PROVE Solves(f, p, DOMAIN a) <=> WordsSolves(f, a)
  BY DEF Solves, Step, WordsSolves, Walk
<1>4. WordsSolves(h, a)
  BY <1>3, SolutionsExist
<1>5. Solves(h, p, DOMAIN a)
  BY <1>3, <1>4
<1> HIDE DEF p, h
<1> QED BY <1>1, <1>2, <1>5, FoldOf DEF p

KeepSolves(f, a, b) ==
    f = [T \in SUBSET DOMAIN a |->
            IF T = {} THEN <<>>
            ELSE Keep(b, f[T \ {Max(T)}], a[Max(T)])]

(* The elements that are kept. *)
LEMMA KeepIsFold ==
    ASSUME NEW a, NEW b, Indices(DOMAIN a)
    PROVE  Without(a, b) = Fold(Walk("keep", a, b, 0, 0, <<>>, a), DOMAIN a)
<1> DEFINE p == Walk("keep", a, b, 0, 0, <<>>, a)
           h == CHOOSE f : KeepSolves(f, a, b)
<1>1. Without(a, b) = h[DOMAIN a]
  BY Zenon DEF Without, Keep, FoldLeft, MapThenFoldSet, KeepSolves
<1>2. DOMAIN a = DOMAIN a
  OBVIOUS
<1>3. ASSUME NEW f PROVE Solves(f, p, DOMAIN a) <=> KeepSolves(f, a, b)
  BY DEF Solves, Step, KeepSolves, Walk
<1>4. KeepSolves(h, a, b)
  BY <1>3, SolutionsExist
<1>5. Solves(h, p, DOMAIN a)
  BY <1>3, <1>4
<1> HIDE DEF p, h
<1> QED BY <1>1, <1>2, <1>5, FoldOf DEF p

JoinSolves(f, a) ==
    f = [T \in SUBSET DOMAIN a |->
            IF T = {} THEN <<>>
            ELSE Join(f[T \ {Max(T)}], a[Max(T)])]

(* The tokens joined. *)
LEMMA JoinIsFold ==
    ASSUME NEW a, Indices(DOMAIN a)
    PROVE  Joined(a) = Fold(Walk("join", a, 0, 0, 0, <<>>, a), DOMAIN a)
<1> DEFINE p == Walk("join", a, 0, 0, 0, <<>>, a)
           h == CHOOSE f : JoinSolves(f, a)
<1>1. Joined(a) = h[DOMAIN a]
  BY Zenon DEF Joined, Join, FoldLeft, MapThenFoldSet, JoinSolves
<1>2. DOMAIN a = DOMAIN a
  OBVIOUS
<1>3. ASSUME NEW f PROVE Solves(f, p, DOMAIN a) <=> JoinSolves(f, a)
  BY DEF Solves, Step, JoinSolves, Walk
<1>4. JoinSolves(h, a)
  BY <1>3, SolutionsExist
<1>5. Solves(h, p, DOMAIN a)
  BY <1>3, <1>4
<1> HIDE DEF p, h
<1> QED BY <1>1, <1>2, <1>5, FoldOf DEF p

-----------------------------------------------------------------------------
(* 3. levenshtein_distance is the last cell of a table.                       *)

(* Induction over the naturals, of sets instead of predicates. *)
LEMMA CountUp ==
    ASSUME NEW N, 0 \in N, \A n \in Nat : n \in N => n + 1 \in N
    PROVE  \A n \in Nat : n \in N
<1>1. SUFFICES ASSUME NEW k \in Nat, k \notin N PROVE FALSE
  OBVIOUS
<1>2. PICK n \in Nat \ N : \A m \in Nat \ N : n <= m
  BY <1>1, SmallestNat
<1>3. n - 1 \in Nat /\ n - 1 \in N
  BY <1>2
<1> QED BY <1>2, <1>3

Cost(x, y) == IF x = y THEN 0 ELSE 1

(* Least is one of the three, and none is below it. *)
LEMMA LeastIsNat ==
    ASSUME NEW x \in Nat, NEW y \in Nat, NEW z \in Nat
    PROVE  /\ Least(x, y, z) \in Nat
           /\ Least(x, y, z) <= x /\ Least(x, y, z) <= y /\ Least(x, y, z) <= z
           /\ Least(x, y, z) \in {x, y, z}
BY DEF Least

(* A row r that follows the row q, at character i of a. *)
Follows(r, q, a, b, i) ==
    /\ r \in Seq(Nat) /\ Len(r) = Len(b) + 1
    /\ r[1] = i
    /\ \A j \in 1..Len(b) :
         r[j + 1] = Least(q[j + 1] + 1, r[j] + 1, q[j] + Cost(a[i], b[j]))

(* Row computes the row that follows. *)
LEMMA RowFollows ==
    ASSUME NEW S, NEW b \in Seq(S), NEW a, NEW i \in Nat,
           NEW q \in Seq(Nat), Len(q) = Len(b) + 1
    PROVE  Follows(Row(a, b, q, i), q, a, b, i)
<1> DEFINE p == Walk("cell", a, b, q, i, <<i>>, [j \in DOMAIN b |-> j])
           n == Len(b)
           Done(r, m) == /\ r \in Seq(Nat) /\ Len(r) = m + 1 /\ r[1] = i
                         /\ \A j \in 1..m : r[j + 1] = Least(q[j + 1] + 1, r[j] + 1,
                                                             q[j] + Cost(a[i], b[j]))
           N == {m \in Nat : m <= n => Done(Fold(p, 1..m), m)}
<1>1. /\ p.base = <<i>>
      /\ \A r, j : j \in 1..n =>
             Step(p, r, p.s[j]) = Append(r, Least(q[j + 1] + 1, r[j] + 1, q[j] + Cost(a[i], b[j])))
  BY SMTT(30) DEF Walk, Step, Cell, Cost
<1> HIDE DEF p
<1>2. 0 \in N
  <2>1. Fold(p, 1..0) = <<i>>
    BY <1>1, FoldStep
  <2>2. Done(<<i>>, 0)
    OBVIOUS
  <2> HIDE DEF Done
  <2> QED BY <2>1, <2>2
<1>3. ASSUME NEW m \in Nat, m \in N PROVE m + 1 \in N
  <2>1. SUFFICES ASSUME m + 1 <= n PROVE Done(Fold(p, 1..(m + 1)), m + 1)
    OBVIOUS
  <2> DEFINE r == Fold(p, 1..m)
             x == Least(q[m + 2] + 1, r[m + 1] + 1, q[m + 1] + Cost(a[i], b[m + 1]))
  <2>2. Done(r, m)
    BY <1>3, <2>1
  <2>3. Fold(p, 1..(m + 1)) = Append(r, x)
    <3>1. Fold(p, 1..(m + 1)) = Step(p, Fold(p, 1..((m + 1) - 1)), p.s[m + 1])
      BY FoldStep
    <3>2. (m + 1) - 1 = m /\ m + 1 \in 1..n /\ (m + 1) + 1 = m + 2
      BY <2>1
    <3> QED BY <1>1, <3>1, <3>2
  <2>4. x \in Nat
    <3>1. q[m + 2] \in Nat /\ q[m + 1] \in Nat /\ r[m + 1] \in Nat
      BY <2>1, <2>2, SMTT(30)
    <3>2. Cost(a[i], b[m + 1]) \in Nat
      BY DEF Cost
    <3>3. /\ q[m + 2] + 1 \in Nat /\ r[m + 1] + 1 \in Nat
          /\ q[m + 1] + Cost(a[i], b[m + 1]) \in Nat
      <4>1. \A y, z \in Nat : y + z \in Nat
        OBVIOUS
      <4> HIDE DEF r, N, Done, x
      <4> QED BY <3>1, <3>2, <4>1
    <3> QED BY <3>3, LeastIsNat, Zenon
  <2> HIDE DEF r, x
  <2>5. /\ Append(r, x) \in Seq(Nat) /\ Len(Append(r, x)) = m + 2
        /\ Append(r, x)[m + 2] = x
        /\ \A j \in 1..(m + 1) : Append(r, x)[j] = r[j]
    BY <2>2, <2>4
  <2>6. ASSUME NEW j \in 1..(m + 1)
        PROVE  Append(r, x)[j + 1] = Least(q[j + 1] + 1, Append(r, x)[j] + 1,
                                           q[j] + Cost(a[i], b[j]))
    <3>1. CASE j = m + 1
      BY <2>5, <3>1 DEF x
    <3>2. CASE j # m + 1
      <4>1. j \in 1..m /\ j + 1 \in 1..(m + 1)
        BY <3>2
      <4> QED BY <2>2, <2>5, <4>1
    <3> QED BY <3>1, <3>2
  <2>7. Append(r, x)[1] = i /\ m + 2 = (m + 1) + 1
    BY <2>2, <2>5
  <2>8. Done(Append(r, x), m + 1)
    BY <2>5, <2>6, <2>7
  <2> HIDE DEF Done
  <2> QED BY <2>3, <2>8
<1>4. n \in N
  <2>1. n \in Nat
    OBVIOUS
  <2> HIDE DEF N, n
  <2> QED BY <1>2, <1>3, <2>1, CountUp
<1>5. DOMAIN b = 1..n /\ Indices(1..n)
  BY DEF Indices
<1>6. Row(a, b, q, i) = Fold(p, 1..n)
  BY <1>5, CellIsFold DEF p
<1> QED BY <1>4, <1>6 DEF Follows

(* The rows of levenshtein_distance, one below the other. *)
IsTable(t, a, b) ==
    /\ t \in [0..Len(a) -> [0..Len(b) -> Nat]]
    /\ \A j \in 0..Len(b) : t[0][j] = j
    /\ \A i \in 0..Len(a) : t[i][0] = i
    /\ \A i \in 1..Len(a) : \A j \in 1..Len(b) :
         t[i][j] = Least(t[i - 1][j] + 1, t[i][j - 1] + 1, t[i - 1][j - 1] + Cost(a[i], b[j]))

(* The fold over the rows is a table, and the distance its last cell. *)
LEMMA TableExists ==
    ASSUME NEW S, NEW a \in Seq(S), NEW b \in Seq(S)
    PROVE  \E t : IsTable(t, a, b) /\ LevenshteinDistance(a, b) = t[Len(a)][Len(b)]
<1> DEFINE p == Walk("row", a, b, 0, 0, [j \in 1..(Len(b) + 1) |-> j - 1],
                         [i \in DOMAIN a |-> i])
           m == Len(a)
           n == Len(b)
           Q(i) == Fold(p, 1..i)
           N == {i \in Nat : i <= m => /\ Q(i) \in Seq(Nat) /\ Len(Q(i)) = n + 1
                                       /\ i > 0 => Follows(Q(i), Q(i - 1), a, b, i)}
<1>1. /\ p.base = [j \in 1..(n + 1) |-> j - 1]
      /\ \A q, i : i \in 1..m => Step(p, q, p.s[i]) = Row(a, b, q, i)
  BY DEF Walk, Step
<1>2. m \in Nat /\ n \in Nat
  OBVIOUS
<1> HIDE DEF p, m, n
<1>3. Q(0) = [j \in 1..(n + 1) |-> j - 1]
  BY <1>1, FoldStep
<1>4. 0 \in N
  <2>1. Q(0) \in Seq(Nat) /\ Len(Q(0)) = n + 1
    BY <1>2, <1>3
  <2> QED BY <2>1
<1>5. ASSUME NEW i \in Nat, i \in N PROVE i + 1 \in N
  <2>1. SUFFICES ASSUME i + 1 <= m
                 PROVE  /\ Q(i + 1) \in Seq(Nat) /\ Len(Q(i + 1)) = n + 1
                        /\ Follows(Q(i + 1), Q(i), a, b, i + 1)
    <3>1. (i + 1) - 1 = i
      OBVIOUS
    <3> QED BY <3>1
  <2>2. Q(i + 1) = Row(a, b, Q(i), i + 1)
    <3>1. Fold(p, 1..(i + 1)) = Step(p, Fold(p, 1..((i + 1) - 1)), p.s[i + 1])
      BY FoldStep
    <3>2. (i + 1) - 1 = i /\ i + 1 \in 1..m
      BY <1>2, <2>1
    <3> QED BY <1>1, <3>1, <3>2
  <2>3. Q(i) \in Seq(Nat) /\ Len(Q(i)) = n + 1 /\ i + 1 \in Nat
    BY <1>2, <1>5, <2>1
  <2> HIDE DEF Q
  <2>4. Follows(Q(i + 1), Q(i), a, b, i + 1)
    BY <2>2, <2>3, RowFollows DEF n
  <2> QED BY <2>4 DEF Follows, n
<1>6. \A i \in 0..m : i \in N
  <2> HIDE DEF N
  <2> QED BY <1>2, <1>4, <1>5, CountUp
<1> DEFINE t == [i \in 0..m |-> [j \in 0..n |-> Q(i)[j + 1]]]
<1>7. \A i \in 0..m : Q(i) \in Seq(Nat) /\ Len(Q(i)) = n + 1
  BY <1>2, <1>6
<1>8. \A i \in 1..m : Follows(Q(i), Q(i - 1), a, b, i)
  BY <1>2, <1>6
<1> HIDE DEF Q
<1>9. t \in [0..m -> [0..n -> Nat]]
  BY <1>2, <1>7
<1>10. \A j \in 0..n : t[0][j] = j
  BY <1>2, <1>3
<1>11. \A i \in 0..m : t[i][0] = i
  <2>1. \A i \in 1..m : Q(i)[1] = i
    BY <1>8 DEF Follows
  <2> QED BY <1>2, <1>10, <2>1
<1>12. ASSUME NEW i \in 1..m, NEW j \in 1..n
       PROVE  t[i][j] = Least(t[i - 1][j] + 1, t[i][j - 1] + 1,
                              t[i - 1][j - 1] + Cost(a[i], b[j]))
  <2>1. Q(i)[j + 1] = Least(Q(i - 1)[j + 1] + 1, Q(i)[j] + 1, Q(i - 1)[j] + Cost(a[i], b[j]))
    BY <1>8 DEF Follows, n
  <2>2. /\ i \in 0..m /\ i - 1 \in 0..m /\ j \in 0..n /\ j - 1 \in 0..n
        /\ (j - 1) + 1 = j
    BY <1>2
  <2>3. /\ t[i][j] = Q(i)[j + 1] /\ t[i - 1][j] = Q(i - 1)[j + 1]
        /\ t[i][j - 1] = Q(i)[j] /\ t[i - 1][j - 1] = Q(i - 1)[j]
    BY <2>2
  <2> QED BY <2>1, <2>3
<1>13. IsTable(t, a, b)
  BY <1>9, <1>10, <1>11, <1>12 DEF IsTable, m, n
<1>14. LevenshteinDistance(a, b) = t[m][n]
  <2>1. DOMAIN a = 1..m /\ Indices(1..m)
    BY DEF Indices, m
  <2>2. LevenshteinDistance(a, b) = Last(Q(m))
    BY <2>1, RowIsFold DEF Q, p
  <2>3. Last(Q(m)) = Q(m)[n + 1]
    BY <1>2, <1>7 DEF Last
  <2>4. t[m][n] = Q(m)[n + 1]
    BY <1>2
  <2> QED BY <2>2, <2>3, <2>4
<1> QED BY <1>13, <1>14 DEF m, n

-----------------------------------------------------------------------------
(* 4. Neighbouring cells of a table, and tables of names that agree.          *)

(* Induction over the cells of a table, row by row. *)
LEMMA CellByCell ==
    ASSUME NEW m \in Nat, NEW n \in Nat, NEW N,
           \A j \in 0..n : <<0, j>> \in N,
           \A i \in 0..m : <<i, 0>> \in N,
           \A i \in 1..m : \A j \in 1..n :
             <<i - 1, j>> \in N /\ <<i, j - 1>> \in N /\ <<i - 1, j - 1>> \in N
                => <<i, j>> \in N
    PROVE  \A i \in 0..m : \A j \in 0..n : <<i, j>> \in N
<1> DEFINE Rows == {i \in Nat : i <= m => \A j \in 0..n : <<i, j>> \in N}
<1>1. 0 \in Rows
  OBVIOUS
<1>2. ASSUME NEW i \in Nat, i \in Rows PROVE i + 1 \in Rows
  <2>1. SUFFICES ASSUME i + 1 <= m PROVE \A j \in 0..n : <<i + 1, j>> \in N
    OBVIOUS
  <2> DEFINE Columns == {j \in Nat : j <= n => <<i + 1, j>> \in N}
  <2>2. 0 \in Columns
    BY <2>1
  <2>3. ASSUME NEW j \in Nat, j \in Columns PROVE j + 1 \in Columns
    <3>1. SUFFICES ASSUME j + 1 <= n PROVE <<i + 1, j + 1>> \in N
      OBVIOUS
    <3>2. /\ i + 1 \in 1..m /\ (i + 1) - 1 = i
          /\ j + 1 \in 1..n /\ (j + 1) - 1 = j
      BY <2>1, <3>1
    <3>3. <<i, j + 1>> \in N /\ <<i + 1, j>> \in N /\ <<i, j>> \in N
      BY <1>2, <2>1, <2>3, <3>1
    <3> QED BY <3>2, <3>3
  <2>4. \A j \in Nat : j \in Columns
    <3> HIDE DEF Columns
    <3> QED BY <2>2, <2>3, CountUp
  <2> QED BY <2>4
<1>3. \A i \in Nat : i \in Rows
  <2> HIDE DEF Rows
  <2> QED BY <1>1, <1>2, CountUp
<1>4. \A i \in Nat : i <= m => \A j \in 0..n : <<i, j>> \in N
  BY <1>3
<1>5. \A i \in 0..m : i \in Nat /\ i <= m
  OBVIOUS
<1> HIDE DEF Rows
<1> QED BY <1>4, <1>5

Near(x, y) == x <= y + 1 /\ y <= x + 1

(* What a table says of its cells. *)
Cells(t, a, b) ==
    /\ Len(a) \in Nat /\ Len(b) \in Nat
    /\ \A i \in 0..Len(a) : \A j \in 0..Len(b) : t[i][j] \in Nat
    /\ \A j \in 0..Len(b) : t[0][j] = j
    /\ \A i \in 0..Len(a) : t[i][0] = i
    /\ \A i \in 1..Len(a) : \A j \in 1..Len(b) :
         /\ i \in 0..Len(a) /\ i - 1 \in 0..Len(a) /\ j \in 0..Len(b) /\ j - 1 \in 0..Len(b)
         /\ t[i][j] \in Nat /\ t[i - 1][j] \in Nat
         /\ t[i][j - 1] \in Nat /\ t[i - 1][j - 1] \in Nat
         /\ Cost(a[i], b[j]) \in {0, 1}
         /\ t[i][j] = Least(t[i - 1][j] + 1, t[i][j - 1] + 1,
                            t[i - 1][j - 1] + Cost(a[i], b[j]))
         /\ t[i][j] <= t[i - 1][j] + 1 /\ t[i][j] <= t[i][j - 1] + 1
         /\ t[i][j] <= t[i - 1][j - 1] + Cost(a[i], b[j])
         /\ t[i][j] \in {t[i - 1][j] + 1, t[i][j - 1] + 1,
                         t[i - 1][j - 1] + Cost(a[i], b[j])}

(* Every cell of a table is a number. *)
LEMMA TableCell ==
    ASSUME NEW t, NEW S, NEW a \in Seq(S), NEW b \in Seq(S), IsTable(t, a, b)
    PROVE  Cells(t, a, b)
<1>1. /\ Len(a) \in Nat /\ Len(b) \in Nat
      /\ \A i \in 0..Len(a) : \A j \in 0..Len(b) : t[i][j] \in Nat
      /\ \A j \in 0..Len(b) : t[0][j] = j
      /\ \A i \in 0..Len(a) : t[i][0] = i
  <2>1. /\ t \in [0..Len(a) -> [0..Len(b) -> Nat]]
        /\ \A j \in 0..Len(b) : t[0][j] = j
        /\ \A i \in 0..Len(a) : t[i][0] = i
    BY DEF IsTable
  <2>2. \A i \in 0..Len(a) : t[i] \in [0..Len(b) -> Nat]
    BY <2>1
  <2>3. \A i \in 0..Len(a) : \A j \in 0..Len(b) : t[i][j] \in Nat
    BY <2>2
  <2> QED BY <2>1, <2>3
<1>2. ASSUME NEW i \in 1..Len(a), NEW j \in 1..Len(b)
      PROVE  /\ i \in 0..Len(a) /\ i - 1 \in 0..Len(a)
             /\ j \in 0..Len(b) /\ j - 1 \in 0..Len(b)
             /\ t[i][j] \in Nat /\ t[i - 1][j] \in Nat
             /\ t[i][j - 1] \in Nat /\ t[i - 1][j - 1] \in Nat
             /\ Cost(a[i], b[j]) \in {0, 1}
             /\ t[i][j] = Least(t[i - 1][j] + 1, t[i][j - 1] + 1,
                                t[i - 1][j - 1] + Cost(a[i], b[j]))
  <2>1. /\ i \in 0..Len(a) /\ i - 1 \in 0..Len(a)
        /\ j \in 0..Len(b) /\ j - 1 \in 0..Len(b)
    BY <1>1
  <2>2. Cost(a[i], b[j]) \in {0, 1}
    BY DEF Cost
  <2> QED BY <1>1, <2>1, <2>2 DEF IsTable
<1>3. ASSUME NEW i \in 1..Len(a), NEW j \in 1..Len(b)
      PROVE  /\ t[i][j] <= t[i - 1][j] + 1 /\ t[i][j] <= t[i][j - 1] + 1
             /\ t[i][j] <= t[i - 1][j - 1] + Cost(a[i], b[j])
             /\ t[i][j] \in {t[i - 1][j] + 1, t[i][j - 1] + 1,
                             t[i - 1][j - 1] + Cost(a[i], b[j])}
  <2> DEFINE x == t[i - 1][j] + 1
             y == t[i][j - 1] + 1
             z == t[i - 1][j - 1] + Cost(a[i], b[j])
  <2>1. x \in Nat /\ y \in Nat /\ z \in Nat
    <3>1. \A g, h \in Nat : g + h \in Nat
      OBVIOUS
    <3>2. /\ t[i - 1][j] \in Nat /\ t[i][j - 1] \in Nat /\ t[i - 1][j - 1] \in Nat
          /\ Cost(a[i], b[j]) \in Nat
      BY <1>2, SMTT(30)
    <3> QED BY <3>1, <3>2
  <2>2. t[i][j] = Least(x, y, z)
    BY <1>2
  <2> HIDE DEF x, y, z
  <2>3. t[i][j] <= x /\ t[i][j] <= y /\ t[i][j] <= z /\ t[i][j] \in {x, y, z}
    BY <2>1, <2>2, LeastIsNat
  <2> QED BY <2>3 DEF x, y, z
<1> QED BY <1>1, <1>2, <1>3 DEF Cells

(* What adding the same does to two near numbers. *)
LEMMA NearStep ==
    ASSUME NEW v \in Nat, NEW x \in Nat, NEW y \in Nat, NEW z \in Nat, NEW c \in {0, 1},
           v <= x + 1, v <= y + 1, v \in {x + 1, y + 1, z + c}, Near(x, z), Near(y, z)
    PROVE  Near(v, x) /\ Near(v, y)
BY DEF Near

(* A cell and the ones above and to the left of it differ by one at most. *)
LEMMA Neighbours ==
    ASSUME NEW t, NEW S, NEW a \in Seq(S), NEW b \in Seq(S), IsTable(t, a, b)
    PROVE  /\ \A i \in 1..Len(a) : \A j \in 0..Len(b) : Near(t[i][j], t[i - 1][j])
           /\ \A i \in 0..Len(a) : \A j \in 1..Len(b) : Near(t[i][j], t[i][j - 1])
<1> DEFINE m == Len(a)
           n == Len(b)
           N == {c \in (0..m) \X (0..n) :
                   /\ c[1] > 0 => Near(t[c[1]][c[2]], t[c[1] - 1][c[2]])
                   /\ c[2] > 0 => Near(t[c[1]][c[2]], t[c[1]][c[2] - 1])}
<1>0. Cells(t, a, b)
  BY TableCell
<1>1. m \in Nat /\ n \in Nat
  OBVIOUS
<1>2. ASSUME NEW j \in 0..n PROVE <<0, j>> \in N
  <2>1. j > 0 => t[0][j] = j /\ t[0][j - 1] = j - 1
    BY <1>0, <1>1 DEF Cells
  <2> QED BY <1>1, <2>1 DEF Near
<1>3. ASSUME NEW i \in 0..m PROVE <<i, 0>> \in N
  <2>1. i > 0 => t[i][0] = i /\ t[i - 1][0] = i - 1
    BY <1>0, <1>1 DEF Cells
  <2> QED BY <1>1, <2>1 DEF Near
<1>4. ASSUME NEW i \in 1..m, NEW j \in 1..n,
             <<i - 1, j>> \in N, <<i, j - 1>> \in N, <<i - 1, j - 1>> \in N
      PROVE  <<i, j>> \in N
  <2>1. /\ t[i][j] \in Nat /\ t[i - 1][j] \in Nat
        /\ t[i][j - 1] \in Nat /\ t[i - 1][j - 1] \in Nat
        /\ Cost(a[i], b[j]) \in {0, 1}
        /\ t[i][j] <= t[i - 1][j] + 1 /\ t[i][j] <= t[i][j - 1] + 1
        /\ t[i][j] \in {t[i - 1][j] + 1, t[i][j - 1] + 1,
                        t[i - 1][j - 1] + Cost(a[i], b[j])}
    BY <1>0 DEF Cells
  <2>2. Near(t[i - 1][j], t[i - 1][j - 1]) /\ Near(t[i][j - 1], t[i - 1][j - 1])
    BY <1>4
  <2>3. Near(t[i][j], t[i - 1][j]) /\ Near(t[i][j], t[i][j - 1])
    <3> DEFINE v == t[i][j]
               x == t[i - 1][j]
               y == t[i][j - 1]
               z == t[i - 1][j - 1]
               c == Cost(a[i], b[j])
    <3>1. /\ v \in Nat /\ x \in Nat /\ y \in Nat /\ z \in Nat /\ c \in {0, 1}
          /\ v <= x + 1 /\ v <= y + 1 /\ v \in {x + 1, y + 1, z + c}
          /\ Near(x, z) /\ Near(y, z)
      BY <2>1, <2>2
    <3> HIDE DEF v, x, y, z, c
    <3>2. Near(v, x) /\ Near(v, y)
      BY <3>1, NearStep
    <3> QED BY <3>2 DEF v, x, y
  <2> QED BY <1>1, <2>3
<1>5. \A i \in 0..m : \A j \in 0..n : <<i, j>> \in N
  <2> HIDE DEF N, m, n
  <2> QED BY <1>1, <1>2, <1>3, <1>4, CellByCell
<1>6. ASSUME NEW i \in 0..m, NEW j \in 0..n
      PROVE  /\ i > 0 => Near(t[i][j], t[i - 1][j])
             /\ j > 0 => Near(t[i][j], t[i][j - 1])
  BY <1>5
<1> HIDE DEF N
<1>7. ASSUME NEW i \in 1..m, NEW j \in 0..n PROVE Near(t[i][j], t[i - 1][j])
  <2>1. i \in 0..m /\ i > 0
    BY <1>1
  <2> QED BY <1>6, <2>1
<1>8. ASSUME NEW i \in 0..m, NEW j \in 1..n PROVE Near(t[i][j], t[i][j - 1])
  <2>1. j \in 0..n /\ j > 0
    BY <1>1
  <2> QED BY <1>6, <2>1
<1> QED BY <1>7, <1>8

(* b and w have the same first k characters. *)
Alike(b, w, k) ==
    k \in Nat /\ k <= Len(b) /\ k <= Len(w) /\ \A j \in 1..k : b[j] = w[j]

(* The first k columns only depend on the first k characters. *)
LEMMA TablesAgree ==
    ASSUME NEW S, NEW a \in Seq(S), NEW b \in Seq(S), NEW w \in Seq(S),
           NEW t, IsTable(t, a, b), NEW u, IsTable(u, a, w),
           NEW k, Alike(b, w, k)
    PROVE  \A i \in 0..Len(a) : \A j \in 0..k : t[i][j] = u[i][j]
<1> DEFINE m == Len(a)
           N == {c \in (0..m) \X (0..k) : t[c[1]][c[2]] = u[c[1]][c[2]]}
<1> USE DEF Alike
<1>0. Cells(t, a, b) /\ Cells(u, a, w)
  BY TableCell
<1>1. m \in Nat
  OBVIOUS
<1>2. ASSUME NEW j \in 0..k PROVE <<0, j>> \in N
  <2>1. t[0][j] = j /\ u[0][j] = j
    BY <1>0 DEF Cells
  <2> QED BY <1>1, <2>1
<1>3. ASSUME NEW i \in 0..m PROVE <<i, 0>> \in N
  <2>1. t[i][0] = i /\ u[i][0] = i
    BY <1>0 DEF Cells
  <2> QED BY <1>1, <2>1
<1>4. ASSUME NEW i \in 1..m, NEW j \in 1..k,
             <<i - 1, j>> \in N, <<i, j - 1>> \in N, <<i - 1, j - 1>> \in N
      PROVE  <<i, j>> \in N
  <2>1. j \in 1..Len(b) /\ j \in 1..Len(w)
    OBVIOUS
  <2>2. t[i][j] = Least(t[i - 1][j] + 1, t[i][j - 1] + 1,
                        t[i - 1][j - 1] + Cost(a[i], b[j]))
    BY <1>0, <2>1 DEF Cells
  <2>3. u[i][j] = Least(u[i - 1][j] + 1, u[i][j - 1] + 1,
                        u[i - 1][j - 1] + Cost(a[i], w[j]))
    BY <1>0, <2>1 DEF Cells
  <2>4. /\ t[i - 1][j] = u[i - 1][j] /\ t[i][j - 1] = u[i][j - 1]
        /\ t[i - 1][j - 1] = u[i - 1][j - 1] /\ b[j] = w[j]
    BY <1>4
  <2>5. t[i][j] = u[i][j]
    BY <2>2, <2>3, <2>4
  <2> QED BY <1>1, <2>5
<1>5. \A i \in 0..m : \A j \in 0..k : <<i, j>> \in N
  <2> HIDE DEF N, m
  <2> QED BY <1>1, <1>2, <1>3, <1>4, CellByCell
<1> QED BY <1>5

-----------------------------------------------------------------------------
(* 5. No edit moves the last cell by more than one.                           *)

(* So does the cell below, to the right and on the diagonal. *)
LEMMA NearCell ==
    ASSUME NEW x1 \in Nat, NEW y1 \in Nat, NEW z1 \in Nat, NEW c1 \in {0, 1},
           NEW x2 \in Nat, NEW y2 \in Nat, NEW z2 \in Nat, NEW c2 \in {0, 1},
           Near(x1, x2), Near(y1, y2), Near(z1 + c1, z2 + c2)
    PROVE  Near(Least(x1 + 1, y1 + 1, z1 + c1), Least(x2 + 1, y2 + 1, z2 + c2))
BY DEF Least, Near

(* From column k on, b and w have the same characters, w by d to the right. *)
LEMMA NearToTheRight ==
    ASSUME NEW S, NEW a \in Seq(S), NEW b \in Seq(S), NEW w \in Seq(S),
           NEW t, IsTable(t, a, b), NEW u, IsTable(u, a, w),
           NEW k \in Nat, NEW d \in {0, 1}, k <= Len(b), Len(w) = Len(b) + d,
           \A j \in (k + 1)..Len(b) : w[j + d] = b[j],
           \A i \in 0..Len(a) : Near(t[i][k], u[i][k + d])
    PROVE  \A i \in 0..Len(a) : \A j \in k..Len(b) : Near(t[i][j], u[i][j + d])
<1> DEFINE m == Len(a)
           n == Len(b) - k
           N == {c \in (0..m) \X (0..n) : Near(t[c[1]][k + c[2]], u[c[1]][k + c[2] + d])}
<1>0. Cells(t, a, b) /\ Cells(u, a, w)
  BY TableCell
<1>1. m \in Nat /\ n \in Nat
  OBVIOUS
<1>2. ASSUME NEW j \in 0..n PROVE <<0, j>> \in N
  <2>1. k + j \in 0..Len(b) /\ k + j + d \in 0..Len(w) /\ 0 \in 0..m
    BY <1>1
  <2>2. t[0][k + j] = k + j /\ u[0][k + j + d] = k + j + d
    BY <1>0, <2>1 DEF Cells
  <2>3. Near(t[0][k + j], u[0][k + j + d])
    BY <2>1, <2>2 DEF Near
  <2> QED BY <2>1, <2>3
<1>3. ASSUME NEW i \in 0..m PROVE <<i, 0>> \in N
  <2>1. k + 0 = k /\ 0 \in 0..n
    BY <1>1
  <2> QED BY <2>1
<1>4. ASSUME NEW i \in 1..m, NEW j \in 1..n,
             <<i - 1, j>> \in N, <<i, j - 1>> \in N, <<i - 1, j - 1>> \in N
      PROVE  <<i, j>> \in N
  <2> DEFINE l == k + j
             r == k + j + d
  <2>1. /\ l \in 1..Len(b) /\ r \in 1..Len(w) /\ l \in (k + 1)..Len(b)
        /\ k + (j - 1) = l - 1 /\ k + (j - 1) + d = r - 1 /\ r = l + d
    BY <1>1
  <2>2. /\ Near(t[i - 1][l], u[i - 1][r]) /\ Near(t[i][l - 1], u[i][r - 1])
        /\ Near(t[i - 1][l - 1], u[i - 1][r - 1])
    BY <1>4, <2>1
  <2>3. w[r] = b[l]
    BY <2>1
  <2> HIDE DEF l, r
  <2>4. Near(t[i][l], u[i][r])
    <3> DEFINE x1 == t[i - 1][l]
               y1 == t[i][l - 1]
               z1 == t[i - 1][l - 1]
               x2 == u[i - 1][r]
               y2 == u[i][r - 1]
               z2 == u[i - 1][r - 1]
               c  == Cost(a[i], b[l])
    <3>1. /\ x1 \in Nat /\ y1 \in Nat /\ z1 \in Nat /\ c \in {0, 1}
          /\ t[i][l] = Least(x1 + 1, y1 + 1, z1 + c)
      BY <1>0, <2>1 DEF Cells
    <3>2. /\ x2 \in Nat /\ y2 \in Nat /\ z2 \in Nat
          /\ u[i][r] = Least(x2 + 1, y2 + 1, z2 + c)
      <4>1. /\ x2 \in Nat /\ y2 \in Nat /\ z2 \in Nat
            /\ u[i][r] = Least(x2 + 1, y2 + 1, z2 + Cost(a[i], w[r]))
        BY <1>0, <2>1 DEF Cells
      <4> QED BY <2>3, <4>1
    <3>3. Near(x1, x2) /\ Near(y1, y2) /\ Near(z1, z2)
      BY <2>2
    <3> HIDE DEF x1, y1, z1, x2, y2, z2, c
    <3>4. Near(z1 + c, z2 + c)
      <4>1. \A g, h \in Nat : \A e \in {0, 1} : Near(g, h) => Near(g + e, h + e)
        BY DEF Near
      <4> QED BY <3>1, <3>2, <3>3, <4>1
    <3>5. Near(Least(x1 + 1, y1 + 1, z1 + c), Least(x2 + 1, y2 + 1, z2 + c))
      BY <3>1, <3>2, <3>3, <3>4, NearCell, ZenonT(30)
    <3> QED BY <3>1, <3>2, <3>5
  <2>5. <<i, j>> \in (0..m) \X (0..n)
    BY <1>1
  <2> QED BY <2>4, <2>5 DEF l, r
<1>5. \A i \in 0..m : \A j \in 0..n : <<i, j>> \in N
  <2> HIDE DEF N, m, n
  <2> QED BY <1>1, <1>2, <1>3, <1>4, CellByCell
<1>6. ASSUME NEW i \in 0..m, NEW j \in k..Len(b)
      PROVE  Near(t[i][j], u[i][j + d])
  <2>1. j - k \in 0..n /\ k + (j - k) = j /\ k + (j - k) + d = j + d
    BY <1>1
  <2>2. <<i, j - k>> \in N
    BY <1>5, <2>1
  <2> QED BY <2>1, <2>2
<1> QED BY <1>6

(* w is b with another character k, and with a character put before its k-th. *)
Replaced(b, w, k) ==
    /\ k \in 1..Len(b) /\ Len(w) = Len(b)
    /\ \A j \in 1..Len(b) : j # k => w[j] = b[j]

Inserted(b, w, k) ==
    /\ k \in 1..(Len(b) + 1) /\ Len(w) = Len(b) + 1
    /\ \A j \in 1..(k - 1) : w[j] = b[j]
    /\ \A j \in k..Len(b) : w[j + 1] = b[j]

(* Replacing a character moves the last cell by one at most. *)
LEMMA ReplacedNear ==
    ASSUME NEW S, NEW a \in Seq(S), NEW b \in Seq(S), NEW w \in Seq(S),
           NEW t, IsTable(t, a, b), NEW u, IsTable(u, a, w), NEW k, Replaced(b, w, k)
    PROVE  Near(t[Len(a)][Len(b)], u[Len(a)][Len(w)])
<1> DEFINE m == Len(a)
           N == {i \in Nat : i <= m => Near(t[i][k], u[i][k])}
<1>0. Cells(t, a, b) /\ Cells(u, a, w)
  BY TableCell
<1>1. m \in Nat /\ Len(b) \in Nat /\ k \in 1..Len(b) /\ k \in 1..Len(w) /\ k - 1 \in Nat
  BY DEF Replaced
<1>2. \A i \in 0..m : \A j \in 0..(k - 1) : t[i][j] = u[i][j]
  <2> DEFINE h == k - 1
  <2>1. Alike(b, w, h)
    BY <1>1 DEF Replaced, Alike
  <2> HIDE DEF h, m
  <2>2. \A i \in 0..Len(a) : \A j \in 0..h : t[i][j] = u[i][j]
    BY <2>1, TablesAgree
  <2> QED BY <2>2 DEF h, m
<1>3. 0 \in N
  <2>1. t[0][k] = k /\ u[0][k] = k
    BY <1>0, <1>1 DEF Cells
  <2> QED BY <1>1, <2>1 DEF Near
<1>4. ASSUME NEW h \in Nat, h \in N PROVE h + 1 \in N
  <2>1. SUFFICES ASSUME h + 1 <= m PROVE Near(t[h + 1][k], u[h + 1][k])
    OBVIOUS
  <2> DEFINE i == h + 1
             x1 == t[i - 1][k]
             x2 == u[i - 1][k]
             y == t[i][k - 1]
             z == t[i - 1][k - 1]
             c1 == Cost(a[i], b[k])
             c2 == Cost(a[i], w[k])
  <2>2. /\ i \in 1..m /\ i - 1 = h /\ i \in 0..m /\ i - 1 \in 0..m
        /\ k - 1 \in 0..(k - 1)
    BY <1>1, <2>1
  <2>3. Near(x1, x2)
    BY <1>4, <2>1, <2>2
  <2>4. u[i][k - 1] = y /\ u[i - 1][k - 1] = z
    BY <1>2, <2>2
  <2> HIDE DEF i
  <2>5. /\ x1 \in Nat /\ y \in Nat /\ z \in Nat /\ c1 \in {0, 1}
        /\ t[i][k] = Least(x1 + 1, y + 1, z + c1)
    <3>1. k \in 0..Len(b) /\ k - 1 \in 0..Len(b)
      BY <1>1
    <3>2. t[i - 1][k] \in Nat /\ t[i][k - 1] \in Nat /\ t[i - 1][k - 1] \in Nat
      BY <1>0, <2>2, <3>1 DEF Cells
    <3>3. t[i][k] = Least(x1 + 1, y + 1, z + c1)
      BY <1>1, <2>2, Zenon DEF IsTable
    <3> QED BY <3>2, <3>3 DEF Cost
  <2>6. /\ x2 \in Nat /\ c2 \in {0, 1} /\ u[i][k] = Least(x2 + 1, y + 1, z + c2)
    <3>1. /\ x2 \in Nat /\ c2 \in {0, 1}
          /\ u[i][k] = Least(x2 + 1, u[i][k - 1] + 1, u[i - 1][k - 1] + c2)
      BY <1>0, <1>1, <2>2 DEF Cells
    <3> QED BY <2>4, <3>1
  <2> HIDE DEF x1, x2, y, z, c1, c2
  <2>7. Near(y, y) /\ Near(z + c1, z + c2)
    BY <2>5, <2>6 DEF Near
  <2>8. Near(t[i][k], u[i][k])
    <3>1. Near(Least(x1 + 1, y + 1, z + c1), Least(x2 + 1, y + 1, z + c2))
      BY <2>3, <2>5, <2>6, <2>7, NearCell, ZenonT(30)
    <3> QED BY <2>5, <2>6, <3>1
  <2> QED BY <2>8 DEF i
<1>5. \A i \in 0..m : Near(t[i][k], u[i][k])
  <2>1. \A i \in Nat : i \in N
    <3> HIDE DEF N
    <3> QED BY <1>3, <1>4, CountUp
  <2> QED BY <1>1, <2>1
<1>6. /\ 0 \in {0, 1} /\ k \in Nat /\ k <= Len(b) /\ Len(w) = Len(b) + 0 /\ k + 0 = k
      /\ \A j \in (k + 1)..Len(b) : w[j + 0] = b[j]
  BY <1>1 DEF Replaced
<1>7. \A i \in 0..m : Near(t[i][k], u[i][k + 0])
  BY <1>5, <1>6
<1>8. \A i \in 0..m : \A j \in k..Len(b) : Near(t[i][j], u[i][j + 0])
  <2> HIDE DEF N
  <2> QED BY <1>6, <1>7, NearToTheRight, ZenonT(30)
<1>9. m \in 0..m /\ Len(b) \in k..Len(b) /\ Len(b) + 0 = Len(w)
  BY <1>1, <1>6
<1> QED BY <1>8, <1>9

(* So does inserting one. *)
LEMMA InsertedNear ==
    ASSUME NEW S, NEW a \in Seq(S), NEW b \in Seq(S), NEW w \in Seq(S),
           NEW t, IsTable(t, a, b), NEW u, IsTable(u, a, w), NEW k, Inserted(b, w, k)
    PROVE  Near(t[Len(a)][Len(b)], u[Len(a)][Len(w)])
<1> DEFINE m == Len(a)
           h == k - 1
<1>1. /\ m \in Nat /\ Len(b) \in Nat /\ h \in Nat /\ h <= Len(b) /\ h + 1 = k
      /\ k \in 1..Len(w) /\ Len(w) = Len(b) + 1 /\ h <= Len(w)
  BY DEF Inserted
<1>2. \A j \in 1..h : b[j] = w[j]
  BY DEF Inserted
<1>3. \A j \in (h + 1)..Len(b) : w[j + 1] = b[j]
  BY <1>1 DEF Inserted
<1> HIDE DEF h
<1>4. \A i \in 0..m : \A j \in 0..h : t[i][j] = u[i][j]
  <2>1. Alike(b, w, h)
    BY <1>1, <1>2 DEF Alike
  <2> QED BY <2>1, TablesAgree
<1>5. ASSUME NEW i \in 0..m PROVE Near(t[i][h], u[i][h + 1])
  <2>1. Cells(t, a, b) /\ Cells(u, a, w)
    BY TableCell
  <2>2. h \in 0..h /\ h \in 0..Len(w) /\ h + 1 \in 1..Len(w) /\ (h + 1) - 1 = h /\ h + 1 \in 0..Len(w)
    BY <1>1
  <2>3. Near(u[i][h + 1], u[i][h])
    BY <2>2, Neighbours
  <2>4. t[i][h] = u[i][h]
    BY <1>4, <2>2
  <2> QED BY <2>3, <2>4 DEF Near
<1>6. \A i \in 0..m : \A j \in h..Len(b) : Near(t[i][j], u[i][j + 1])
  <2>1. 1 \in {0, 1} /\ h \in Nat /\ h <= Len(b) /\ Len(w) = Len(b) + 1
    BY <1>1
  <2>2. \A i \in 0..m : Near(t[i][h], u[i][h + 1])
    BY <1>5
  <2> QED BY <1>3, <2>1, <2>2, NearToTheRight, SMTT(30)
<1>7. m \in 0..m /\ Len(b) \in h..Len(b)
  BY <1>1
<1> QED BY <1>1, <1>6, <1>7

(* The last cell is 0 for equal names only. *)
LEMMA ZeroWhenEqual ==
    ASSUME NEW S, NEW a \in Seq(S), NEW b \in Seq(S), NEW t, IsTable(t, a, b)
    PROVE  t[Len(a)][Len(b)] = 0 <=> a = b
<1> DEFINE m == Len(a)
           n == Len(b)
           N == {c \in (0..m) \X (0..n) :
                   t[c[1]][c[2]] = 0 <=> c[1] = c[2] /\ \A k \in 1..c[1] : a[k] = b[k]}
<1>0. Cells(t, a, b)
  BY TableCell
<1>1. m \in Nat /\ n \in Nat
  OBVIOUS
<1>2. ASSUME NEW j \in 0..n PROVE <<0, j>> \in N
  <2>1. t[0][j] = j
    BY <1>0 DEF Cells
  <2> QED BY <1>1, <2>1
<1>3. ASSUME NEW i \in 0..m PROVE <<i, 0>> \in N
  <2>1. t[i][0] = i
    BY <1>0 DEF Cells
  <2> QED BY <1>1, <2>1
<1>4. ASSUME NEW i \in 1..m, NEW j \in 1..n,
             <<i - 1, j>> \in N, <<i, j - 1>> \in N, <<i - 1, j - 1>> \in N
      PROVE  <<i, j>> \in N
  <2>1. /\ t[i][j] \in Nat /\ t[i - 1][j] \in Nat
        /\ t[i][j - 1] \in Nat /\ t[i - 1][j - 1] \in Nat
        /\ t[i][j] <= t[i - 1][j - 1] + Cost(a[i], b[j])
        /\ t[i][j] \in {t[i - 1][j] + 1, t[i][j - 1] + 1,
                        t[i - 1][j - 1] + Cost(a[i], b[j])}
    BY <1>0 DEF Cells
  <2>2. t[i][j] = 0 <=> t[i - 1][j - 1] = 0 /\ a[i] = b[j]
    <3>1. Cost(a[i], b[j]) = IF a[i] = b[j] THEN 0 ELSE 1
      BY DEF Cost
    <3> DEFINE v == t[i][j]
               x == t[i - 1][j]
               y == t[i][j - 1]
               z == t[i - 1][j - 1]
               c == Cost(a[i], b[j])
    <3>2. /\ v \in Nat /\ x \in Nat /\ y \in Nat /\ z \in Nat /\ c \in {0, 1}
          /\ v <= z + c /\ v \in {x + 1, y + 1, z + c} /\ (c = 0 <=> a[i] = b[j])
      BY <2>1, <3>1
    <3> HIDE DEF v, x, y, z, c
    <3>3. v = 0 <=> z = 0 /\ c = 0
      BY <3>2
    <3> QED BY <3>2, <3>3 DEF v, z
  <2>3. t[i - 1][j - 1] = 0 <=> i - 1 = j - 1 /\ \A k \in 1..(i - 1) : a[k] = b[k]
    BY <1>4
  <2>4. t[i][j] = 0 <=> i = j /\ \A k \in 1..i : a[k] = b[k]
    BY <2>2, <2>3
  <2>5. <<i, j>> \in (0..m) \X (0..n)
    BY <1>1
  <2> QED BY <2>4, <2>5
<1>5. \A i \in 0..m : \A j \in 0..n : <<i, j>> \in N
  <2> HIDE DEF N, m, n
  <2> QED BY <1>1, <1>2, <1>3, <1>4, CellByCell
<1>6. t[m][n] = 0 <=> m = n /\ \A k \in 1..m : a[k] = b[k]
  <2>1. m \in 0..m /\ n \in 0..n
    BY <1>1
  <2>2. <<m, n>> \in N
    BY <1>5, <2>1
  <2> QED BY <2>2
<1> QED BY <1>6

-----------------------------------------------------------------------------
(* 6. Some edit lowers the last cell, unless it is 0.                         *)

Edit(b, w) == \E k \in Nat : Replaced(b, w, k) \/ Inserted(b, w, k) \/ Inserted(w, b, k)

Prefix(b, j) == SubSeq(b, 1, j)

(* The prefix of length j has the first j characters. *)
LEMMA PrefixProperties ==
    ASSUME NEW S, NEW b \in Seq(S)
    PROVE  \A j \in 0..Len(b) : /\ Prefix(b, j) \in Seq(S) /\ Len(Prefix(b, j)) = j
                                /\ \A k \in 1..j : Prefix(b, j)[k] = b[k]
<1> SUFFICES ASSUME NEW j \in 0..Len(b)
             PROVE  /\ Prefix(b, j) \in Seq(S) /\ Len(Prefix(b, j)) = j
                    /\ \A k \in 1..j : Prefix(b, j)[k] = b[k]
  OBVIOUS
<1>1. \A i \in 1..j : b[i] \in S
  OBVIOUS
<1>2. SubSeq(b, 1, j) \in Seq(S)
  BY <1>1, SubSeqProperties
<1>3. Len(SubSeq(b, 1, j)) = j
  <2>1. Len(SubSeq(b, 1, j)) = IF 1 <= j THEN j - 1 + 1 ELSE 0
    BY SubSeqProperties
  <2> QED BY <2>1
<1>4. ASSUME NEW k \in 1..j PROVE SubSeq(b, 1, j)[k] = b[k]
  <2>1. SubSeq(b, 1, j)[k] = b[1 + k - 1]
    BY <1>3, SubSeqProperties
  <2> QED BY <2>1
<1> QED BY <1>2, <1>3, <1>4, Zenon DEF Prefix

(* What Append makes of a sequence. *)
LEMMA Appends ==
    ASSUME NEW S, NEW b \in Seq(S), NEW c \in S
    PROVE  /\ Append(b, c) \in Seq(S) /\ Len(Append(b, c)) = Len(b) + 1
           /\ \A k \in 1..Len(b) : Append(b, c)[k] = b[k]
           /\ Append(b, c)[Len(b) + 1] = c
OBVIOUS

(* The first columns of a table are the table of the prefix. *)
LEMMA PrefixTable ==
    ASSUME NEW S, NEW a \in Seq(S), NEW b \in Seq(S), NEW t, IsTable(t, a, b),
           NEW j \in 0..Len(b)
    PROVE  \E u : /\ IsTable(u, a, Prefix(b, j))
                  /\ \A i \in 0..Len(a) : \A l \in 0..j : u[i][l] = t[i][l]
<1> DEFINE w == Prefix(b, j)
<1>1. /\ w \in Seq(S) /\ Len(w) = j /\ \A l \in 1..j : b[l] = w[l]
      /\ j \in Nat /\ j <= Len(b) /\ j <= Len(w)
  <2>1. w \in Seq(S) /\ Len(w) = j /\ \A l \in 1..j : w[l] = b[l]
    BY PrefixProperties, Zenon
  <2> HIDE DEF w
  <2> QED BY <2>1
<1> HIDE DEF w
<1>2. PICK u : IsTable(u, a, w)
  BY <1>1, TableExists
<1>3. \A i \in 0..Len(a) : \A l \in 0..j : t[i][l] = u[i][l]
  <2>1. Alike(b, w, j)
    BY <1>1 DEF Alike
  <2> QED BY <1>1, <1>2, <2>1, TablesAgree
<1> QED BY <1>2, <1>3 DEF w

(* A character that a has next costs nothing. *)
LEMMA AppendTable ==
    ASSUME NEW S, NEW a \in Seq(S), NEW b \in Seq(S), NEW t, IsTable(t, a, b),
           NEW i \in 1..Len(a)
    PROVE  \E u : /\ IsTable(u, a, Append(b, a[i]))
                  /\ u[i][Len(Append(b, a[i]))] <= t[i - 1][Len(b)]
<1> DEFINE w == Append(b, a[i])
           n == Len(b)
<1>1. a[i] \in S /\ n \in Nat
  OBVIOUS
<1>2. /\ w \in Seq(S) /\ Len(w) = n + 1 /\ w[n + 1] = a[i]
      /\ \A l \in 1..n : b[l] = w[l]
  BY <1>1, Appends
<1> HIDE DEF w, n
<1>3. PICK u : IsTable(u, a, w)
  BY <1>2, TableExists
<1>4. n <= Len(b) /\ n <= Len(w)
  BY <1>1, <1>2 DEF n
<1>5. \A h \in 0..Len(a) : \A l \in 0..n : t[h][l] = u[h][l]
  <2>1. Alike(b, w, n)
    BY <1>1, <1>2, <1>4 DEF Alike
  <2> QED BY <1>2, <1>3, <2>1, TablesAgree
<1>6. Cells(u, a, w)
  BY <1>2, <1>3, TableCell
<1>7. n + 1 \in 1..Len(w) /\ (n + 1) - 1 = n /\ i - 1 \in 0..Len(a) /\ n \in 0..n
  BY <1>1, <1>2
<1>8. /\ u[i][n + 1] <= u[i - 1][n] + Cost(a[i], w[n + 1])
      /\ u[i - 1][n] \in Nat
  BY <1>6, <1>7 DEF Cells
<1>9. Cost(a[i], w[n + 1]) = 0
  BY <1>2 DEF Cost
<1>10. u[i][n + 1] <= u[i - 1][n]
  BY <1>8, <1>9
<1>11. u[i - 1][n] = t[i - 1][n]
  BY <1>5, <1>7
<1> QED BY <1>2, <1>3, <1>10, <1>11 DEF w, n

(* An edit is one too when both names go on alike. *)
LEMMA EditAppended ==
    ASSUME NEW S, NEW b \in Seq(S), NEW w \in Seq(S), NEW c \in S, Edit(b, w)
    PROVE  Edit(Append(b, c), Append(w, c))
<1> DEFINE p == Append(b, c)
           q == Append(w, c)
<1>1. /\ Len(p) = Len(b) + 1 /\ p[Len(b) + 1] = c /\ \A k \in 1..Len(b) : p[k] = b[k]
      /\ Len(q) = Len(w) + 1 /\ q[Len(w) + 1] = c /\ \A k \in 1..Len(w) : q[k] = w[k]
      /\ Len(b) \in Nat /\ Len(w) \in Nat
  BY Appends
<1> HIDE DEF p, q
<1>2. PICK k \in Nat : Replaced(b, w, k) \/ Inserted(b, w, k) \/ Inserted(w, b, k)
  BY DEF Edit
<1>3. CASE Replaced(b, w, k)
  <2>1. k \in 1..Len(p) /\ Len(q) = Len(p)
    BY <1>1, <1>3 DEF Replaced
  <2>2. ASSUME NEW j \in 1..Len(p), j # k PROVE q[j] = p[j]
    <3>1. CASE j = Len(b) + 1
      BY <1>1, <1>3, <3>1 DEF Replaced
    <3>2. CASE j \in 1..Len(b)
      BY <1>1, <1>3, <2>2, <3>2 DEF Replaced
    <3> QED BY <1>1, <3>1, <3>2
  <2>3. Replaced(p, q, k)
    BY <2>1, <2>2 DEF Replaced
  <2> QED BY <2>3 DEF Edit, p, q
<1>4. CASE Inserted(b, w, k)
  <2>1. k \in 1..(Len(p) + 1) /\ Len(q) = Len(p) + 1
    BY <1>1, <1>4 DEF Inserted
  <2>2. ASSUME NEW j \in 1..(k - 1) PROVE q[j] = p[j]
    BY <1>1, <1>4 DEF Inserted
  <2>3. ASSUME NEW j \in k..Len(p) PROVE q[j + 1] = p[j]
    <3>1. CASE j = Len(b) + 1
      BY <1>1, <1>4, <3>1 DEF Inserted
    <3>2. CASE j \in k..Len(b)
      BY <1>1, <1>4, <3>2 DEF Inserted
    <3> QED BY <1>1, <3>1, <3>2
  <2>4. Inserted(p, q, k)
    BY <2>1, <2>2, <2>3 DEF Inserted
  <2> QED BY <2>4 DEF Edit, p, q
<1>5. CASE Inserted(w, b, k)
  <2>1. k \in 1..(Len(q) + 1) /\ Len(p) = Len(q) + 1
    BY <1>1, <1>5 DEF Inserted
  <2>2. ASSUME NEW j \in 1..(k - 1) PROVE p[j] = q[j]
    BY <1>1, <1>5 DEF Inserted
  <2>3. ASSUME NEW j \in k..Len(q) PROVE p[j + 1] = q[j]
    <3>1. CASE j = Len(w) + 1
      BY <1>1, <1>5, <3>1 DEF Inserted
    <3>2. CASE j \in k..Len(w)
      BY <1>1, <1>5, <3>2 DEF Inserted
    <3> QED BY <1>1, <3>1, <3>2
  <2>4. Inserted(q, p, k)
    BY <2>1, <2>2, <2>3 DEF Inserted
  <2> QED BY <2>4 DEF Edit, p, q
<1> QED BY <1>2, <1>3, <1>4, <1>5

(* Unless the last cell is 0, some edit lowers it. *)
LEMMA EditNearer ==
    ASSUME NEW S, NEW a \in Seq(S), NEW b \in Seq(S), NEW t, IsTable(t, a, b),
           t[Len(a)][Len(b)] > 0
    PROVE  \E w \in Seq(S) :
             /\ Edit(b, w)
             /\ \E u : IsTable(u, a, w) /\ u[Len(a)][Len(w)] <= t[Len(a)][Len(b)] - 1
<1> DEFINE m == Len(a)
           n == Len(b)
           Better(i, j, w) == /\ Edit(Prefix(b, j), w)
                              /\ \E u : IsTable(u, a, w) /\ u[i][Len(w)] <= t[i][j] - 1
           N == {c \in (0..m) \X (0..n) :
                   t[c[1]][c[2]] > 0 => \E w \in Seq(S) : Better(c[1], c[2], w)}
<1>0. Cells(t, a, b)
  BY TableCell
<1>1. m \in Nat /\ n \in Nat
  OBVIOUS
<1>p. \A j \in 0..n : /\ Prefix(b, j) \in Seq(S) /\ Len(Prefix(b, j)) = j
                      /\ \A k \in 1..j : Prefix(b, j)[k] = b[k]
  BY PrefixProperties, Zenon
(* One character less. *)
<1>2. ASSUME NEW i \in 0..m, NEW j \in 1..n, t[i][j] = t[i][j - 1] + 1
      PROVE  \E w \in Seq(S) : Better(i, j, w)
  <2> DEFINE w == Prefix(b, j - 1)
             p == Prefix(b, j)
  <2>1. j \in 0..n /\ j - 1 \in 0..n /\ j - 1 \in 0..(j - 1) /\ t[i][j - 1] \in Nat
    BY <1>0, <1>1 DEF Cells
  <2>2. /\ w \in Seq(S) /\ Len(w) = j - 1 /\ \A k \in 1..(j - 1) : w[k] = b[k]
        /\ p \in Seq(S) /\ Len(p) = j /\ \A k \in 1..j : p[k] = b[k]
    BY <1>p, <2>1
  <2>3. PICK u : IsTable(u, a, w) /\ u[i][j - 1] = t[i][j - 1]
    <3>1. \E u : /\ IsTable(u, a, w)
                 /\ \A h \in 0..m : \A l \in 0..(j - 1) : u[h][l] = t[h][l]
      BY <2>1, PrefixTable
    <3> QED BY <2>1, <3>1
  <2> HIDE DEF w, p
  <2>4. Inserted(w, p, j)
    <3>1. j \in 1..(Len(w) + 1) /\ Len(p) = Len(w) + 1 /\ j..Len(w) = {}
      BY <1>1, <2>2
    <3>2. \A k \in 1..(j - 1) : p[k] = w[k]
      BY <2>2
    <3> QED BY <3>1, <3>2 DEF Inserted
  <2>5. Edit(p, w)
    BY <2>4 DEF Edit
  <2>6. u[i][Len(w)] <= t[i][j] - 1
    BY <1>2, <2>1, <2>2, <2>3
  <2> QED BY <2>2, <2>3, <2>5, <2>6 DEF p
(* One character more. *)
<1>3. ASSUME NEW i \in 1..m, NEW j \in 0..n, t[i][j] = t[i - 1][j] + 1
      PROVE  \E w \in Seq(S) : Better(i, j, w)
  <2> DEFINE p == Prefix(b, j)
             w == Append(p, a[i])
  <2>1. i - 1 \in 0..m /\ j \in 0..j /\ t[i - 1][j] \in Nat /\ a[i] \in S /\ j + 1 \in Nat
    BY <1>0, <1>1 DEF Cells
  <2>2. p \in Seq(S) /\ Len(p) = j
    BY <1>p
  <2>3. PICK v : IsTable(v, a, p) /\ v[i - 1][j] = t[i - 1][j]
    <3>1. \E v : /\ IsTable(v, a, p)
                 /\ \A h \in 0..m : \A l \in 0..j : v[h][l] = t[h][l]
      BY PrefixTable
    <3> QED BY <2>1, <3>1
  <2> HIDE DEF p
  <2>4. PICK u : IsTable(u, a, w) /\ u[i][Len(w)] <= v[i - 1][j]
    BY <2>2, <2>3, AppendTable
  <2>5. /\ w \in Seq(S) /\ Len(w) = j + 1 /\ \A k \in 1..j : w[k] = p[k]
    BY <2>1, <2>2, Appends
  <2> HIDE DEF w
  <2>6. Inserted(p, w, j + 1)
    BY <1>1, <2>2, <2>5 DEF Inserted
  <2>7. Edit(p, w)
    BY <2>1, <2>6 DEF Edit
  <2>8. u[i][Len(w)] <= t[i][j] - 1
    <3>1. t[i][j] - 1 = t[i - 1][j]
      BY <1>3, <2>1
    <3> QED BY <2>3, <2>4, <3>1
  <2> QED BY <2>4, <2>5, <2>7, <2>8 DEF p
(* Another last character. *)
<1>4. ASSUME NEW i \in 1..m, NEW j \in 1..n, t[i][j] = t[i - 1][j - 1] + 1
      PROVE  \E w \in Seq(S) : Better(i, j, w)
  <2> DEFINE p == Prefix(b, j)
             q == Prefix(b, j - 1)
             w == Append(q, a[i])
  <2>1. /\ i - 1 \in 0..m /\ j \in 0..n /\ j - 1 \in 0..n /\ j - 1 \in 0..(j - 1)
        /\ t[i - 1][j - 1] \in Nat /\ a[i] \in S /\ j \in Nat
    BY <1>0, <1>1 DEF Cells
  <2>2. /\ q \in Seq(S) /\ Len(q) = j - 1 /\ \A k \in 1..(j - 1) : q[k] = b[k]
        /\ p \in Seq(S) /\ Len(p) = j /\ \A k \in 1..j : p[k] = b[k]
    BY <1>p, <2>1
  <2>3. PICK v : IsTable(v, a, q) /\ v[i - 1][j - 1] = t[i - 1][j - 1]
    <3>1. \E v : /\ IsTable(v, a, q)
                 /\ \A h \in 0..m : \A l \in 0..(j - 1) : v[h][l] = t[h][l]
      BY <2>1, PrefixTable, SMTT(30)
    <3> QED BY <2>1, <3>1
  <2> HIDE DEF p, q
  <2>4. PICK u : IsTable(u, a, w) /\ u[i][Len(w)] <= v[i - 1][j - 1]
    BY <2>2, <2>3, AppendTable
  <2>5. /\ w \in Seq(S) /\ Len(w) = j /\ \A k \in 1..(j - 1) : w[k] = q[k]
    <3>1. w \in Seq(S) /\ Len(w) = (j - 1) + 1 /\ \A k \in 1..(j - 1) : w[k] = q[k]
      BY <2>1, <2>2, Appends
    <3> QED BY <3>1
  <2> HIDE DEF w
  <2>6. Replaced(p, w, j)
    <3>1. \A k \in 1..j : k # j => k \in 1..(j - 1)
      OBVIOUS
    <3> QED BY <1>1, <2>2, <2>5, <3>1 DEF Replaced
  <2>7. Edit(p, w)
    BY <2>1, <2>6 DEF Edit
  <2>8. u[i][Len(w)] <= t[i][j] - 1
    <3>1. t[i][j] - 1 = t[i - 1][j - 1]
      BY <1>4, <2>1
    <3> QED BY <2>3, <2>4, <3>1
  <2> QED BY <2>4, <2>5, <2>7, <2>8 DEF p
(* The same last character: the edit is further to the left. *)
<1>5. ASSUME NEW i \in 1..m, NEW j \in 1..n, a[i] = b[j], t[i][j] = t[i - 1][j - 1],
             \E w \in Seq(S) : Better(i - 1, j - 1, w)
      PROVE  \E w \in Seq(S) : Better(i, j, w)
  <2> DEFINE p == Prefix(b, j)
             q == Prefix(b, j - 1)
  <2>1. PICK x \in Seq(S) : Better(i - 1, j - 1, x)
    BY <1>5
  <2>11. PICK v : IsTable(v, a, x) /\ v[i - 1][Len(x)] <= t[i - 1][j - 1] - 1
    BY <2>1
  <2> DEFINE w == Append(x, a[i])
  <2>2. j \in 0..n /\ j - 1 \in 0..n /\ a[i] \in S
    BY <1>1
  <2>3. /\ q \in Seq(S) /\ Len(q) = j - 1 /\ \A k \in 1..(j - 1) : q[k] = b[k]
        /\ p \in Seq(S) /\ Len(p) = j /\ \A k \in 1..j : p[k] = b[k]
    BY <1>p, <2>2
  <2>4. p = Append(q, a[i])
    <3> HIDE DEF p, q
    <3>1. /\ Append(q, a[i]) \in Seq(S) /\ Len(Append(q, a[i])) = Len(q) + 1
          /\ \A k \in 1..Len(q) : Append(q, a[i])[k] = q[k]
          /\ Append(q, a[i])[Len(q) + 1] = a[i]
      BY <2>2, <2>3, Appends
    <3> DEFINE r == Append(q, a[i])
    <3>2. Len(r) = j /\ r[j] = b[j] /\ \A k \in 1..(j - 1) : r[k] = b[k]
      BY <1>1, <1>5, <2>3, <3>1
    <3>3. ASSUME NEW k \in 1..j PROVE p[k] = r[k]
      <4>1. k = j \/ k \in 1..(j - 1)
        OBVIOUS
      <4> HIDE DEF r
      <4> QED BY <2>3, <3>2, <4>1
    <3>4. r \in Seq(S)
      BY <3>1
    <3> HIDE DEF r
    <3>5. p = r
      BY <2>3, <3>2, <3>3, <3>4
    <3> QED BY <3>5 DEF r
  <2>5. Edit(q, x) /\ IsTable(v, a, x) /\ v[i - 1][Len(x)] <= t[i][j] - 1
    BY <1>5, <2>1, <2>11
  <2> HIDE DEF p, q
  <2>6. Edit(p, w)
    BY <2>2, <2>3, <2>4, <2>5, EditAppended
  <2>7. PICK u : IsTable(u, a, w) /\ u[i][Len(w)] <= v[i - 1][Len(x)]
    BY <2>5, AppendTable
  <2>8. w \in Seq(S)
    BY <2>2, Appends
  <2>9. u[i][Len(w)] <= t[i][j] - 1
    <3>1. /\ u[i][Len(w)] \in Nat /\ v[i - 1][Len(x)] \in Nat /\ t[i][j] \in Nat
      <4>1. Cells(u, a, w) /\ Cells(v, a, x)
        BY <2>5, <2>7, <2>8, TableCell
      <4>2. i \in 0..m /\ i - 1 \in 0..m /\ Len(w) \in 0..Len(w) /\ Len(x) \in 0..Len(x)
        BY <1>1, <2>8
      <4> HIDE DEF w
      <4> QED BY <1>0, <2>2, <4>1, <4>2 DEF Cells
    <3> HIDE DEF w
    <3> QED BY <2>5, <2>7, <3>1, SMTT(30)
  <2> QED BY <2>6, <2>7, <2>8, <2>9 DEF p
<1> HIDE DEF Better
<1>6. ASSUME NEW j \in 0..n PROVE <<0, j>> \in N
  <2>1. t[0][j] = j /\ (j > 0 => j \in 1..n /\ t[0][j - 1] = j - 1)
    BY <1>0, <1>1 DEF Cells
  <2>2. t[0][j] > 0 => \E w \in Seq(S) : Better(0, j, w)
    BY <1>1, <1>2, <2>1
  <2> QED BY <1>1, <2>2
<1>7. ASSUME NEW i \in 0..m PROVE <<i, 0>> \in N
  <2>1. t[i][0] = i /\ (i > 0 => i \in 1..m /\ t[i - 1][0] = i - 1)
    BY <1>0, <1>1 DEF Cells
  <2>2. t[i][0] > 0 => \E w \in Seq(S) : Better(i, 0, w)
    BY <1>1, <1>3, <2>1
  <2> QED BY <1>1, <2>2
<1>8. ASSUME NEW i \in 1..m, NEW j \in 1..n,
             <<i - 1, j>> \in N, <<i, j - 1>> \in N, <<i - 1, j - 1>> \in N
      PROVE  <<i, j>> \in N
  <2>1. /\ i \in 0..m /\ j \in 0..n
        /\ t[i - 1][j - 1] \in Nat
        /\ t[i][j] \in {t[i - 1][j] + 1, t[i][j - 1] + 1,
                        t[i - 1][j - 1] + Cost(a[i], b[j])}
    BY <1>0 DEF Cells
  <2>2. SUFFICES ASSUME t[i][j] > 0 PROVE \E w \in Seq(S) : Better(i, j, w)
    BY <2>1
  <2>3. CASE t[i][j] = t[i][j - 1] + 1
    BY <1>2, <2>1, <2>3
  <2>4. CASE t[i][j] = t[i - 1][j] + 1
    BY <1>3, <2>1, <2>4
  <2>5. CASE t[i][j] = t[i - 1][j - 1] + Cost(a[i], b[j])
    <3>1. CASE a[i] # b[j]
      <4>1. t[i][j] = t[i - 1][j - 1] + 1
        BY <2>5, <3>1 DEF Cost
      <4> QED BY <1>4, <4>1
    <3>2. CASE a[i] = b[j]
      <4>1. t[i][j] = t[i - 1][j - 1]
        BY <2>1, <2>5, <3>2 DEF Cost
      <4>2. \E w \in Seq(S) : Better(i - 1, j - 1, w)
        BY <1>8, <2>2, <4>1
      <4> QED BY <1>5, <3>2, <4>1, <4>2
    <3> QED BY <3>1, <3>2
  <2> QED BY <2>1, <2>3, <2>4, <2>5
<1>9. \A i \in 0..m : \A j \in 0..n : <<i, j>> \in N
  <2> HIDE DEF N, m, n
  <2> QED BY <1>1, <1>6, <1>7, <1>8, CellByCell
<1>10. \E w \in Seq(S) : Better(m, n, w)
  <2>1. m \in 0..m /\ n \in 0..n
    BY <1>1
  <2>2. <<m, n>> \in N
    BY <1>9, <2>1
  <2> QED BY <2>2
<1>11. Prefix(b, n) = b
  BY DEF Prefix
<1> QED BY <1>10, <1>11 DEF Better

-----------------------------------------------------------------------------
(* 7. RemoveAt, ReplaceAt and InsertAt are these edits, and all of them.      *)

(* r is s up to its g-th character, then x, then s from its h-th on. *)
Spliced(r, s, x, g, h) ==
    /\ Len(r) = (g + Len(x)) + (Len(s) - h) + 1
    /\ \A j \in 1..g : r[j] = s[j]
    /\ \A j \in 1..Len(x) : r[g + j] = x[j]
    /\ \A j \in 0..(Len(s) - h) : r[(g + Len(x)) + 1 + j] = s[h + j]

(* A sequence put together of a prefix, a piece and a suffix. *)
LEMMA SplicedPieces ==
    ASSUME NEW S, NEW s \in Seq(S), NEW x \in Seq(S),
           NEW g \in 0..Len(s), NEW h \in 1..(Len(s) + 1)
    PROVE  /\ SubSeq(s, 1, g) \o x \o SubSeq(s, h, Len(s)) \in Seq(S)
           /\ Spliced(SubSeq(s, 1, g) \o x \o SubSeq(s, h, Len(s)), s, x, g, h)
<1> DEFINE p == SubSeq(s, 1, g)
           q == SubSeq(s, h, Len(s))
           y == p \o x
           r == y \o q
<1>1. /\ Len(s) \in Nat /\ Len(x) \in Nat /\ g \in Nat /\ g <= Len(s)
      /\ h \in Nat /\ 1 <= h /\ h <= Len(s) + 1
      /\ \A i \in h..Len(s) : s[i] \in S
  OBVIOUS
<1>2. p \in Seq(S) /\ Len(p) = g /\ \A j \in 1..g : p[j] = s[j]
  BY PrefixProperties DEF Prefix
<1>3. /\ q \in Seq(S) /\ Len(q) = IF h <= Len(s) THEN Len(s) - h + 1 ELSE 0
      /\ \A j \in 1..(Len(s) - h + 1) : q[j] = s[h + j - 1]
  BY <1>1, SubSeqProperties
<1>4. Len(q) = Len(s) - h + 1
  BY <1>1, <1>3
<1>5. \A j \in 0..(Len(s) - h) : q[j + 1] = s[h + j]
  BY <1>1, <1>3
<1> HIDE DEF p, q
<1>6. /\ y \in Seq(S) /\ Len(y) = g + Len(x)
      /\ \A j \in 1..g : y[j] = s[j]
      /\ \A j \in 1..Len(x) : y[g + j] = x[j]
  BY <1>1, <1>2, SMTT(30)
<1> HIDE DEF y
<1>7. /\ r \in Seq(S) /\ Len(r) = Len(y) + Len(q)
      /\ \A j \in 1..Len(y) : r[j] = y[j]
      /\ \A j \in 1..Len(q) : r[Len(y) + j] = q[j]
  <2>1. /\ r \in Seq(S) /\ Len(r) = Len(y) + Len(q)
        /\ \A i \in 1..(Len(y) + Len(q)) :
             r[i] = IF i <= Len(y) THEN y[i] ELSE q[i - Len(y)]
    <3>0. y \in Seq(S) /\ q \in Seq(S)
      BY <1>3, <1>6
    <3>1. /\ y \o q \in Seq(S) /\ Len(y \o q) = Len(y) + Len(q)
          /\ \A i \in 1..(Len(y) + Len(q)) :
               (y \o q)[i] = IF i <= Len(y) THEN y[i] ELSE q[i - Len(y)]
      BY <3>0, ConcatProperties, Zenon
    <3> QED BY <3>1
  <2>2. Len(y) \in Nat /\ Len(q) \in Nat
    BY <1>3, <1>6
  <2> HIDE DEF r
  <2>3. \A j \in 1..Len(y) : r[j] = y[j]
    BY <2>1, <2>2
  <2>4. ASSUME NEW j \in 1..Len(q) PROVE r[Len(y) + j] = q[j]
    <3> DEFINE l == Len(y)
               n == Len(q)
               i == l + j
    <3>1. i \in 1..(l + n) /\ ~ (i <= l) /\ i - l = j
      BY <2>2
    <3>2. r[i] = IF i <= l THEN y[i] ELSE q[i - l]
      BY <2>1, <3>1
    <3> QED BY <3>1, <3>2
  <2> QED BY <2>1, <2>3, <2>4
<1> HIDE DEF r
<1>8. Len(r) = (g + Len(x)) + (Len(s) - h) + 1
  BY <1>1, <1>4, <1>6, <1>7
<1>9. \A j \in 1..g : r[j] = s[j]
  BY <1>1, <1>6, <1>7
<1>10. \A j \in 1..Len(x) : r[g + j] = x[j]
  BY <1>1, <1>6, <1>7
<1>11. ASSUME NEW j \in 0..(Len(s) - h)
       PROVE  r[(g + Len(x)) + 1 + j] = s[h + j]
  <2>1. j + 1 \in 1..Len(q) /\ Len(y) + (j + 1) = (g + Len(x)) + 1 + j
    BY <1>1, <1>4, <1>6
  <2> QED BY <1>5, <1>7, <2>1
<1>12. r \in Seq(S) /\ Spliced(r, s, x, g, h)
  BY <1>7, <1>8, <1>9, <1>10, <1>11 DEF Spliced
<1> QED BY <1>12 DEF r, y, p, q

(* InsertAt inserts. *)
LEMMA InsertedAt ==
    ASSUME NEW S, NEW b \in Seq(S), NEW k \in 1..(Len(b) + 1), NEW c \in S
    PROVE  /\ InsertAt(b, k, c) \in Seq(S) /\ InsertAt(b, k, c)[k] = c
           /\ Inserted(b, InsertAt(b, k, c), k)
<1> DEFINE x == <<c>>
           g == k - 1
           r == SubSeq(b, 1, g) \o x \o SubSeq(b, k, Len(b))
<1>1. x \in Seq(S) /\ Len(x) = 1 /\ x[1] = c /\ g \in 0..Len(b) /\ g + 1 = k /\ Len(b) \in Nat
  OBVIOUS
<1> HIDE DEF x, g
<1>2. r \in Seq(S) /\ Spliced(r, b, x, g, k)
  BY <1>1, SplicedPieces
<1> HIDE DEF r
<1>3. Len(r) = Len(b) + 1 /\ r[k] = c
  BY <1>1, <1>2, SMTT(30) DEF Spliced
<1>4. \A j \in 1..(k - 1) : r[j] = b[j]
  BY <1>1, <1>2 DEF Spliced
<1>5. ASSUME NEW j \in k..Len(b) PROVE r[j + 1] = b[j]
  <2>1. /\ j - k \in 0..(Len(b) - k) /\ (g + Len(x)) + 1 + (j - k) = j + 1
        /\ k + (j - k) = j
    BY <1>1
  <2> QED BY <1>2, <2>1 DEF Spliced
<1>6. InsertAt(b, k, c) = r
  BY DEF InsertAt, r, x, g
<1> QED BY <1>2, <1>3, <1>4, <1>5, <1>6 DEF Inserted

(* RemoveAt undoes an insertion. *)
LEMMA RemovedAt ==
    ASSUME NEW S, NEW b \in Seq(S), NEW k \in DOMAIN b
    PROVE  RemoveAt(b, k) \in Seq(S) /\ Inserted(RemoveAt(b, k), b, k)
<1> DEFINE x == <<>>
           g == k - 1
           h == k + 1
           r == SubSeq(b, 1, g) \o x \o SubSeq(b, h, Len(b))
<1>1. /\ x \in Seq(S) /\ Len(x) = 0 /\ g \in 0..Len(b) /\ h \in 1..(Len(b) + 1)
      /\ g + 1 = k /\ h = k + 1 /\ k \in 1..Len(b) /\ Len(b) \in Nat
  OBVIOUS
<1>0. RemoveAt(b, k) = r
  <2>1. SubSeq(b, 1, g) \in Seq(S)
    BY <1>1, PrefixProperties DEF Prefix
  <2>2. SubSeq(b, 1, g) \o x = SubSeq(b, 1, g)
    BY <2>1, ConcatEmptySeq
  <2> QED BY <2>2 DEF RemoveAt
<1> HIDE DEF x, g, h
<1>2. r \in Seq(S) /\ Spliced(r, b, x, g, h)
  BY <1>1, SplicedPieces
<1> HIDE DEF r
<1>3. Len(b) = Len(r) + 1 /\ k \in 1..(Len(r) + 1)
  <2>1. Len(r) = (g + Len(x)) + (Len(b) - h) + 1
    BY <1>2 DEF Spliced
  <2>2. g \in Nat /\ g + 1 = k /\ h = k + 1 /\ Len(x) = 0 /\ k \in 1..Len(b) /\ Len(b) \in Nat
    BY <1>1
  <2> QED BY <2>1, <2>2, SMTT(30)
<1>4. ASSUME NEW j \in 1..(k - 1) PROVE b[j] = r[j]
  <2>1. j \in 1..g
    BY <1>1
  <2> QED BY <1>2, <2>1 DEF Spliced
<1>5. ASSUME NEW j \in k..Len(r) PROVE b[j + 1] = r[j]
  <2>1. /\ j - k \in 0..(Len(b) - h) /\ (g + Len(x)) + 1 + (j - k) = j
        /\ h + (j - k) = j + 1
    BY <1>1, <1>3, SMTT(30)
  <2> QED BY <1>2, <2>1 DEF Spliced
<1> QED BY <1>0, <1>2, <1>3, <1>4, <1>5 DEF Inserted

(* ReplaceAt replaces. *)
LEMMA ReplacedAt ==
    ASSUME NEW S, NEW b \in Seq(S), NEW k \in DOMAIN b, NEW c \in S
    PROVE  /\ ReplaceAt(b, k, c) \in Seq(S) /\ ReplaceAt(b, k, c)[k] = c
           /\ Replaced(b, ReplaceAt(b, k, c), k)
BY DEF ReplaceAt, Replaced

(* There is one way to insert a given character at a given place. *)
LEMMA SameInserted ==
    ASSUME NEW S, NEW b \in Seq(S), NEW v \in Seq(S), NEW w \in Seq(S), NEW k \in Nat,
           Inserted(b, v, k), Inserted(b, w, k), v[k] = w[k]
    PROVE  v = w
<1>1. Len(v) = Len(w) /\ Len(v) = Len(b) + 1 /\ Len(b) \in Nat
  BY DEF Inserted
<1>2. ASSUME NEW j \in 1..Len(v) PROVE v[j] = w[j]
  <2>1. CASE j < k
    <3>1. j \in 1..(k - 1)
      BY <1>1, <2>1
    <3> QED BY <3>1 DEF Inserted
  <2>2. CASE j > k
    <3>1. j - 1 \in k..Len(b) /\ (j - 1) + 1 = j
      BY <1>1, <2>2
    <3>2. v[(j - 1) + 1] = b[j - 1] /\ w[(j - 1) + 1] = b[j - 1]
      BY <3>1 DEF Inserted
    <3> QED BY <3>1, <3>2
  <2> QED BY <1>1, <2>1, <2>2
<1> QED BY <1>1, <1>2, SeqEqual

(* There is one way to take away the character at a given place. *)
LEMMA SameRemoved ==
    ASSUME NEW S, NEW b \in Seq(S), NEW v \in Seq(S), NEW w \in Seq(S), NEW k \in Nat,
           Inserted(v, b, k), Inserted(w, b, k)
    PROVE  v = w
<1>1. Len(v) = Len(w) /\ Len(v) \in Nat
  BY DEF Inserted
<1>2. ASSUME NEW j \in 1..Len(v) PROVE v[j] = w[j]
  <2>1. CASE j \in 1..(k - 1)
    BY <2>1 DEF Inserted
  <2>2. CASE j \in k..Len(v)
    BY <1>1, <2>2 DEF Inserted
  <2> QED BY <1>1, <2>1, <2>2
<1> QED BY <1>1, <1>2, SeqEqual

(* The edits of Edited are the words that are one edit away. *)
LEMMA EditedIsEdit ==
    ASSUME NEW b \in Seq(Alphanumeric)
    PROVE  /\ Edited(b) \subseteq Seq(Alphanumeric)
           /\ \A w \in Edited(b) : Edit(b, w)
           /\ \A w \in Seq(Alphanumeric) : Edit(b, w) => w \in Edited(b)
<1>1. ASSUME NEW w \in Edited(b) PROVE w \in Seq(Alphanumeric) /\ Edit(b, w)
  <2>1. CASE \E i \in DOMAIN b : w = RemoveAt(b, i)
    BY <2>1, RemovedAt DEF Edit
  <2>2. CASE \E i \in DOMAIN b, c \in Alphanumeric : w = ReplaceAt(b, i, c)
    BY <2>2, ReplacedAt DEF Edit
  <2>3. CASE \E i \in 1..(Len(b) + 1), c \in Alphanumeric : w = InsertAt(b, i, c)
    BY <2>3, InsertedAt DEF Edit
  <2> QED BY <2>1, <2>2, <2>3 DEF Edited
<1>2. ASSUME NEW w \in Seq(Alphanumeric), Edit(b, w) PROVE w \in Edited(b)
  <2>1. PICK k \in Nat : Replaced(b, w, k) \/ Inserted(b, w, k) \/ Inserted(w, b, k)
    BY <1>2 DEF Edit
  <2>2. CASE Replaced(b, w, k)
    <3>1. k \in DOMAIN b /\ w[k] \in Alphanumeric /\ Len(w) = Len(b)
      BY <2>2 DEF Replaced
    <3> DEFINE v == ReplaceAt(b, k, w[k])
    <3>2. v \in Seq(Alphanumeric) /\ v[k] = w[k] /\ Replaced(b, v, k)
      BY <3>1, ReplacedAt
    <3> HIDE DEF v
    <3>3. Len(v) = Len(w) /\ \A j \in 1..Len(v) : v[j] = w[j]
      BY <2>2, <3>1, <3>2 DEF Replaced
    <3>4. v = w
      BY <3>2, <3>3, SeqEqual
    <3> QED BY <3>1, <3>4 DEF Edited, v
  <2>3. CASE Inserted(b, w, k)
    <3>1. k \in 1..(Len(b) + 1) /\ w[k] \in Alphanumeric /\ Len(w) = Len(b) + 1
      BY <2>3 DEF Inserted
    <3> DEFINE v == InsertAt(b, k, w[k])
    <3>2. v \in Seq(Alphanumeric) /\ v[k] = w[k] /\ Inserted(b, v, k)
      BY <3>1, InsertedAt
    <3> HIDE DEF v
    <3>3. v = w
      BY <2>3, <3>2, SameInserted
    <3> QED BY <3>1, <3>3 DEF Edited, v
  <2>4. CASE Inserted(w, b, k)
    <3>1. k \in DOMAIN b /\ Len(b) = Len(w) + 1
      BY <2>4 DEF Inserted
    <3> DEFINE v == RemoveAt(b, k)
    <3>2. v \in Seq(Alphanumeric) /\ Inserted(v, b, k)
      BY <3>1, RemovedAt
    <3> HIDE DEF v
    <3>3. v = w
      BY <2>4, <3>2, SameRemoved
    <3> QED BY <3>1, <3>3 DEF Edited, v
  <2> QED BY <2>1, <2>2, <2>3, <2>4
<1> QED BY <1>1, <1>2

-----------------------------------------------------------------------------
(* 8. levenshtein_distance counts the fewest edits.                           *)

(* No edit moves the last cell by more than one. *)
LEMMA DistanceNear ==
    ASSUME NEW S, NEW a \in Seq(S), NEW b \in Seq(S), NEW w \in Seq(S),
           NEW t, IsTable(t, a, b), NEW u, IsTable(u, a, w), Edit(b, w)
    PROVE  Near(t[Len(a)][Len(b)], u[Len(a)][Len(w)])
<1>1. PICK k \in Nat : Replaced(b, w, k) \/ Inserted(b, w, k) \/ Inserted(w, b, k)
  BY DEF Edit
<1>2. CASE Replaced(b, w, k)
  BY <1>2, ReplacedNear
<1>3. CASE Inserted(b, w, k)
  BY <1>3, InsertedNear
<1>4. CASE Inserted(w, b, k)
  <2>1. Near(u[Len(a)][Len(w)], t[Len(a)][Len(b)])
    BY <1>4, InsertedNear
  <2> QED BY <2>1 DEF Near
<1> QED BY <1>1, <1>2, <1>3, <1>4

(* The last cell of every table is levenshtein_distance. *)
LEMMA LastCell ==
    ASSUME NEW S, NEW a \in Seq(S), NEW b \in Seq(S), NEW t, IsTable(t, a, b)
    PROVE  t[Len(a)][Len(b)] \in Nat /\ t[Len(a)][Len(b)] = LevenshteinDistance(a, b)
<1>1. Len(a) \in 0..Len(a) /\ Len(b) \in 0..Len(b) /\ Len(b) \in Nat
  OBVIOUS
<1>2. PICK u : IsTable(u, a, b) /\ LevenshteinDistance(a, b) = u[Len(a)][Len(b)]
  BY TableExists
<1>3. \A i \in 0..Len(a) : \A j \in 0..Len(b) : t[i][j] = u[i][j]
  <2>1. Alike(b, b, Len(b))
    BY <1>1 DEF Alike
  <2> QED BY <1>2, <2>1, TablesAgree
<1>4. t[Len(a)][Len(b)] \in Nat
  <2>1. Cells(t, a, b)
    BY TableCell
  <2> QED BY <1>1, <2>1 DEF Cells
<1> QED BY <1>1, <1>2, <1>3, <1>4

(* levenshtein_distance is the edit distance: 0 between equal tokens only, an
   edit changes it by one at most, and some edit brings the tokens nearer.    *)
LEMMA LevenshteinIsEditDistance ==
    ASSUME NEW a \in Seq(Alphanumeric), NEW b \in Seq(Alphanumeric)
    PROVE  LET d == LevenshteinDistance(a, b)
               near == {LevenshteinDistance(a, w) : w \in Edited(b)}
           IN  /\ d \in Nat
               /\ d = 0 <=> a = b
               /\ near \subseteq (d - 1)..(d + 1) \cap Nat
               /\ d > 0 => d - 1 \in near
<1> DEFINE S == Alphanumeric
           d == LevenshteinDistance(a, b)
<1>1. PICK t : IsTable(t, a, b)
  BY TableExists
<1>2. d \in Nat /\ d = t[Len(a)][Len(b)]
  BY <1>1, LastCell
<1>3. d = 0 <=> a = b
  BY <1>1, <1>2, ZeroWhenEqual
<1>4. ASSUME NEW w \in Edited(b)
      PROVE  /\ LevenshteinDistance(a, w) \in Nat
             /\ LevenshteinDistance(a, w) \in (d - 1)..(d + 1)
  <2>1. w \in Seq(S) /\ Edit(b, w)
    BY EditedIsEdit
  <2>2. PICK u : IsTable(u, a, w)
    BY <2>1, TableExists
  <2>3. /\ LevenshteinDistance(a, w) \in Nat
        /\ LevenshteinDistance(a, w) = u[Len(a)][Len(w)]
    BY <2>1, <2>2, LastCell
  <2>4. Near(t[Len(a)][Len(b)], u[Len(a)][Len(w)])
    BY <1>1, <2>1, <2>2, DistanceNear
  <2>5. Near(d, LevenshteinDistance(a, w))
    BY <1>2, <2>3, <2>4
  <2> HIDE DEF d
  <2> QED BY <1>2, <2>3, <2>5 DEF Near
<1>5. ASSUME d > 0 PROVE \E w \in Edited(b) : LevenshteinDistance(a, w) = d - 1
  <2>1. PICK w \in Seq(S) :
             /\ Edit(b, w)
             /\ \E u : IsTable(u, a, w) /\ u[Len(a)][Len(w)] <= t[Len(a)][Len(b)] - 1
    BY <1>1, <1>2, <1>5, EditNearer
  <2>2. PICK u : IsTable(u, a, w) /\ u[Len(a)][Len(w)] <= d - 1
    BY <1>2, <2>1
  <2>3. w \in Edited(b)
    BY <2>1, EditedIsEdit
  <2>4. LevenshteinDistance(a, w) <= d - 1
    BY <2>1, <2>2, LastCell
  <2>5. LevenshteinDistance(a, w) \in Nat /\ LevenshteinDistance(a, w) \in (d - 1)..(d + 1)
    BY <1>4, <2>3
  <2> HIDE DEF d
  <2> QED BY <1>2, <2>3, <2>4, <2>5
<1> QED BY <1>2, <1>3, <1>4, <1>5

(* Names are sequences of characters. *)
Names == stored \in Seq(Chars) /\ typed \in Seq(Chars)

(* Both names are sequences of characters in every state. *)
LEMMA AlwaysNames == Spec => []Names
<1>1. Init => Names
  BY DEF Init, Names
<1>2. Names /\ [Next]_vars => Names'
  <2> SUFFICES ASSUME Names, [Next]_vars PROVE Names'
    OBVIOUS
  <2>1. ASSUME NEW c \in Chars, Suggest(c) PROVE Names'
    BY <2>1 DEF Names, Suggest
  <2>2. ASSUME NEW c \in Chars, Type(c) PROVE Names'
    BY <2>2 DEF Names, Type
  <2>3. ASSUME NEW c \in Chars, NEW i \in DOMAIN typed, LookAlike(i, c) PROVE Names'
    BY <2>3, ReplacedAt DEF Names, LookAlike
  <2>4. ASSUME NEW c \in Chars, NEW i \in DOMAIN typed, Separate(i, c) PROVE Names'
    <3>1. i \in 1..(Len(typed) + 1)
      BY DEF Names
    <3> QED BY <2>4, <3>1, InsertedAt DEF Names, Separate
  <2>5. CASE UNCHANGED vars
    BY <2>5 DEF Names, vars
  <2> QED BY <2>1, <2>2, <2>3, <2>4, <2>5 DEF Next
<1> QED BY <1>1, <1>2, PTL DEF Spec

(* levenshtein_distance of two tokens of any length is 0 when they are equal
   only, no edit changes it by more than one, and unless it is 0 some edit
   lowers it: it is the fewest edits from one token to the other. *)
THEOREM DistanceIsFewestEdits == Spec => []FewestEdits
<1>1. Names => FewestEdits
  <2> SUFFICES ASSUME Names, Range(stored) \cup Range(typed) \subseteq Alphanumeric
               PROVE  LET d == LevenshteinDistance(stored, typed)
                          near == {LevenshteinDistance(stored, w) : w \in Edited(typed)}
                      IN  /\ d = 0 <=> stored = typed
                          /\ near \subseteq (d - 1)..(d + 1)
                          /\ d > 0 => d - 1 \in near
    BY Zenon DEF FewestEdits
  <2>1. stored \in Seq(Alphanumeric) /\ typed \in Seq(Alphanumeric)
    BY DEF Names, Range
  <2> QED BY <2>1, LevenshteinIsEditDistance, Zenon
<1> QED BY <1>1, AlwaysNames, PTL

-----------------------------------------------------------------------------
(* 9. Matches, Words, Without and Joined after n positions.                   *)

MatchesTo(a, b, n) == Fold(Walk("match", a, b, 0, 0, <<>>, [i \in DOMAIN a |-> i]), 1..n)

(* The matches of the first n characters. *)
LEMMA MatchSteps ==
    ASSUME NEW S, NEW a \in Seq(S), NEW b
    PROVE  /\ MatchesTo(a, b, 0) = <<>>
           /\ \A n \in 1..Len(a) : MatchesTo(a, b, n) = Match(a, b, MatchesTo(a, b, n - 1), n)
           /\ Matches(a, b) = MatchesTo(a, b, Len(a))
<1> DEFINE p == Walk("match", a, b, 0, 0, <<>>, [i \in DOMAIN a |-> i])
<1>1. p.base = <<>> /\ \A v : \A n \in 1..Len(a) : Step(p, v, p.s[n]) = Match(a, b, v, n)
  BY DEF Walk, Step
<1>2. Len(a) \in Nat /\ DOMAIN a = 1..Len(a) /\ Indices(DOMAIN a)
  BY DEF Indices
<1>3. Matches(a, b) = Fold(p, DOMAIN a)
  BY <1>2, MatchIsFold
<1> HIDE DEF p
<1>4. Fold(p, 1..0) = <<>>
  BY <1>1, FoldStep
<1>5. ASSUME NEW n \in 1..Len(a)
      PROVE  Fold(p, 1..n) = Step(p, Fold(p, 1..(n - 1)), p.s[n])
  <2>1. n \in Nat /\ n # 0
    BY <1>2
  <2> QED BY <2>1, FoldStep
<1> QED BY <1>1, <1>2, <1>3, <1>4, <1>5 DEF MatchesTo, p

WordsTo(a, n) == Fold(Walk("words", a, 0, 0, 0, <<>>, [i \in DOMAIN a |-> i]), 1..n)

(* The words of the first n characters. *)
LEMMA WordsSteps ==
    ASSUME NEW S, NEW a \in Seq(S)
    PROVE  /\ WordsTo(a, 0) = <<>>
           /\ \A n \in 1..Len(a) : WordsTo(a, n) = Grow(a, WordsTo(a, n - 1), n)
           /\ Words(a) = WordsTo(a, Len(a))
<1> DEFINE p == Walk("words", a, 0, 0, 0, <<>>, [i \in DOMAIN a |-> i])
<1>1. p.base = <<>> /\ \A v : \A n \in 1..Len(a) : Step(p, v, p.s[n]) = Grow(a, v, n)
  BY DEF Walk, Step
<1>2. Len(a) \in Nat /\ DOMAIN a = 1..Len(a) /\ Indices(DOMAIN a)
  BY DEF Indices
<1>3. Words(a) = Fold(p, DOMAIN a)
  BY <1>2, WordsIsFold
<1> HIDE DEF p
<1>4. Fold(p, 1..0) = <<>>
  BY <1>1, FoldStep
<1>5. ASSUME NEW n \in 1..Len(a)
      PROVE  Fold(p, 1..n) = Step(p, Fold(p, 1..(n - 1)), p.s[n])
  <2>1. n \in Nat /\ n # 0
    BY <1>2
  <2> QED BY <2>1, FoldStep
<1> QED BY <1>1, <1>2, <1>3, <1>4, <1>5 DEF WordsTo, p

KeptTo(a, b, n) == Fold(Walk("keep", a, b, 0, 0, <<>>, a), 1..n)

(* What is kept of the first n elements. *)
LEMMA KeepSteps ==
    ASSUME NEW S, NEW a \in Seq(S), NEW b
    PROVE  /\ KeptTo(a, b, 0) = <<>>
           /\ \A n \in 1..Len(a) : KeptTo(a, b, n) = Keep(b, KeptTo(a, b, n - 1), a[n])
           /\ Without(a, b) = KeptTo(a, b, Len(a))
<1> DEFINE p == Walk("keep", a, b, 0, 0, <<>>, a)
<1>1. p.base = <<>> /\ \A v : \A n \in 1..Len(a) : Step(p, v, p.s[n]) = Keep(b, v, a[n])
  BY DEF Walk, Step
<1>2. Len(a) \in Nat /\ DOMAIN a = 1..Len(a) /\ Indices(DOMAIN a)
  BY DEF Indices
<1>3. Without(a, b) = Fold(p, DOMAIN a)
  BY <1>2, KeepIsFold
<1> HIDE DEF p
<1>4. Fold(p, 1..0) = <<>>
  BY <1>1, FoldStep
<1>5. ASSUME NEW n \in 1..Len(a)
      PROVE  Fold(p, 1..n) = Step(p, Fold(p, 1..(n - 1)), p.s[n])
  <2>1. n \in Nat /\ n # 0
    BY <1>2
  <2> QED BY <2>1, FoldStep
<1> QED BY <1>1, <1>2, <1>3, <1>4, <1>5 DEF KeptTo, p

JoinedTo(a, n) == Fold(Walk("join", a, 0, 0, 0, <<>>, a), 1..n)

(* The first n tokens joined. *)
LEMMA JoinSteps ==
    ASSUME NEW S, NEW a \in Seq(S)
    PROVE  /\ JoinedTo(a, 0) = <<>>
           /\ \A n \in 1..Len(a) : JoinedTo(a, n) = Join(JoinedTo(a, n - 1), a[n])
           /\ Joined(a) = JoinedTo(a, Len(a))
<1> DEFINE p == Walk("join", a, 0, 0, 0, <<>>, a)
<1>1. p.base = <<>> /\ \A v : \A n \in 1..Len(a) : Step(p, v, p.s[n]) = Join(v, a[n])
  BY DEF Walk, Step
<1>2. Len(a) \in Nat /\ DOMAIN a = 1..Len(a) /\ Indices(DOMAIN a)
  BY DEF Indices
<1>3. Joined(a) = Fold(p, DOMAIN a)
  BY <1>2, JoinIsFold
<1> HIDE DEF p
<1>4. Fold(p, 1..0) = <<>>
  BY <1>1, FoldStep
<1>5. ASSUME NEW n \in 1..Len(a)
      PROVE  Fold(p, 1..n) = Step(p, Fold(p, 1..(n - 1)), p.s[n])
  <2>1. n \in Nat /\ n # 0
    BY <1>2
  <2> QED BY <2>1, FoldStep
<1> QED BY <1>1, <1>2, <1>3, <1>4, <1>5 DEF JoinedTo, p

(* The induction all of these need: what holds of the first value and is kept. *)
LEMMA Stepwise ==
    ASSUME NEW n \in Nat, NEW N, 0 \in N, \A i \in 1..n : i - 1 \in N => i \in N
    PROVE  \A i \in 0..n : i \in N
<1> DEFINE M == {i \in Nat : i <= n => i \in N}
<1>1. 0 \in M
  OBVIOUS
<1>2. ASSUME NEW i \in Nat, i \in M PROVE i + 1 \in M
  <2>1. SUFFICES ASSUME i + 1 <= n PROVE i + 1 \in N
    OBVIOUS
  <2>2. i + 1 \in 1..n /\ (i + 1) - 1 = i /\ i \in N
    BY <1>2, <2>1
  <2> QED BY <2>2
<1>3. \A i \in Nat : i \in M
  <2> HIDE DEF M
  <2> QED BY <1>1, <1>2, CountUp
<1>4. \A i \in 0..n : i \in Nat /\ i <= n
  OBVIOUS
<1> QED BY <1>3, <1>4

(* What is kept is a sequence of the same elements. *)
LEMMA WithoutType ==
    ASSUME NEW S, NEW a \in Seq(S), NEW b
    PROVE  Without(a, b) \in Seq(S) /\ \A n \in 0..Len(a) : KeptTo(a, b, n) \in Seq(S)
<1> DEFINE N == {n \in 0..Len(a) : KeptTo(a, b, n) \in Seq(S)}
<1>1. Len(a) \in Nat /\ Len(a) \in 0..Len(a)
  OBVIOUS
<1>2. 0 \in N
  <2>1. KeptTo(a, b, 0) = <<>> /\ 0 \in 0..Len(a)
    BY <1>1, KeepSteps
  <2>2. <<>> \in Seq(S)
    OBVIOUS
  <2>3. KeptTo(a, b, 0) \in Seq(S)
    BY <2>1, <2>2
  <2> QED BY <2>1, <2>3
<1>3. ASSUME NEW n \in 1..Len(a), n - 1 \in N PROVE n \in N
  <2>1. KeptTo(a, b, n) = Keep(b, KeptTo(a, b, n - 1), a[n])
    BY KeepSteps
  <2>2. a[n] \in S /\ KeptTo(a, b, n - 1) \in Seq(S) /\ n \in 0..Len(a)
    BY <1>3
  <2> QED BY <2>1, <2>2 DEF Keep
<1>4. \A n \in 0..Len(a) : n \in N
  <2> HIDE DEF N
  <2> QED BY <1>1, <1>2, <1>3, Stepwise
<1> QED BY <1>1, <1>4, KeepSteps

(* Words are sequences of alphanumeric characters. *)
LEMMA WordsType ==
    ASSUME NEW S, NEW a \in Seq(S)
    PROVE  /\ Words(a) \in Seq(Seq(Alphanumeric))
           /\ \A n \in 0..Len(a) : WordsTo(a, n) \in Seq(Seq(Alphanumeric))
<1> DEFINE W == Seq(Alphanumeric)
           N == {n \in 0..Len(a) : WordsTo(a, n) \in Seq(W)}
<1>1. Len(a) \in Nat /\ Len(a) \in 0..Len(a)
  OBVIOUS
<1>2. 0 \in N
  <2>1. WordsTo(a, 0) = <<>> /\ 0 \in 0..Len(a)
    BY <1>1, WordsSteps
  <2>2. <<>> \in Seq(W)
    OBVIOUS
  <2>3. WordsTo(a, 0) \in Seq(W)
    BY <2>1, <2>2
  <2> QED BY <2>1, <2>3
<1>3. ASSUME NEW n \in 1..Len(a), n - 1 \in N PROVE n \in N
  <2> DEFINE v == WordsTo(a, n - 1)
  <2>1. WordsTo(a, n) = Grow(a, v, n) /\ v \in Seq(W) /\ n \in 0..Len(a)
    BY <1>3, WordsSteps
  <2> HIDE DEF v
  <2>2. CASE a[n] \notin Alphanumeric
    BY <2>1, <2>2 DEF Grow
  <2>3. CASE a[n] \in Alphanumeric
    <3>1. Append(v, <<a[n]>>) \in Seq(W)
      BY <2>1, <2>3
    <3>2. [v EXCEPT ![Len(v)] = Append(@, a[n])] \in Seq(W)
      <4>1. CASE Len(v) = 0
        <5>1. v = [i \in 1..Len(v) |-> v[i]] /\ Len(v) \notin 1..Len(v)
          BY <2>1, <4>1
        <5>2. [v EXCEPT ![Len(v)] = Append(@, a[n])] = [i \in 1..Len(v) |-> v[i]]
          BY <2>1, <5>1
        <5> QED BY <2>1, <5>1, <5>2
      <4>2. CASE Len(v) # 0
        <5>1. v[Len(v)] \in W
          BY <2>1, <4>2
        <5>2. Append(v[Len(v)], a[n]) \in W
          BY <2>3, <5>1
        <5> HIDE DEF W
        <5> QED BY <2>1, <4>2, <5>2
      <4> QED BY <4>1, <4>2
    <3> QED BY <2>1, <2>3, <3>1, <3>2 DEF Grow
  <2> QED BY <2>2, <2>3
<1>4. \A n \in 0..Len(a) : n \in N
  <2> HIDE DEF N
  <2> QED BY <1>1, <1>2, <1>3, Stepwise
<1> QED BY <1>1, <1>4, WordsSteps

(* So are the core tokens of a name. *)
LEMMA TokensType ==
    ASSUME NEW name \in Seq(Chars)
    PROVE  ExtractCoreTokens(name) \in Seq(Seq(Alphanumeric))
<1>1. Words(name) \in Seq(Seq(Alphanumeric))
  BY WordsType
<1>2. \A d : Without(Words(name), d) \in Seq(Seq(Alphanumeric))
  BY <1>1, WithoutType
<1> QED BY <1>1, <1>2 DEF ExtractCoreTokens

(* Joined tokens are alphanumeric characters and gaps. *)
LEMMA JoinedType ==
    ASSUME NEW tokens \in Seq(Seq(Alphanumeric))
    PROVE  Joined(tokens) \in Seq(Alphanumeric \cup {Gap})
<1> DEFINE S == Alphanumeric \cup {Gap}
           N == {n \in 0..Len(tokens) : JoinedTo(tokens, n) \in Seq(S)}
<1>1. Len(tokens) \in Nat /\ Len(tokens) \in 0..Len(tokens)
  OBVIOUS
<1>2. 0 \in N
  <2>1. JoinedTo(tokens, 0) = <<>> /\ 0 \in 0..Len(tokens)
    BY <1>1, JoinSteps
  <2>2. <<>> \in Seq(S)
    OBVIOUS
  <2>3. JoinedTo(tokens, 0) \in Seq(S)
    BY <2>1, <2>2
  <2> QED BY <2>1, <2>3
<1>3. ASSUME NEW n \in 1..Len(tokens), n - 1 \in N PROVE n \in N
  <2>1. JoinedTo(tokens, n) = Join(JoinedTo(tokens, n - 1), tokens[n])
    BY JoinSteps
  <2>2. /\ tokens[n] \in Seq(S) /\ <<Gap>> \in Seq(S)
        /\ JoinedTo(tokens, n - 1) \in Seq(S) /\ n \in 0..Len(tokens)
    BY <1>3
  <2> HIDE DEF S
  <2>3. JoinedTo(tokens, n) \in Seq(S)
    BY <2>1, <2>2 DEF Join
  <2> QED BY <2>2, <2>3
<1>4. \A n \in 0..Len(tokens) : n \in N
  <2> HIDE DEF N
  <2> QED BY <1>1, <1>2, <1>3, Stepwise
<1> QED BY <1>1, <1>4, JoinSteps

-----------------------------------------------------------------------------
(* 10. The greedy matching of jaro_similarity is the only stable one.         *)

Fits(a, b, i, j) == i \in DOMAIN a /\ j \in Window(a, b, i) /\ b[j] = a[i]

(* What has its match in b: the first that fits and no earlier one of a has. *)
Free(M, a, b, i) == {j \in Window(a, b, i) : b[j] = a[i] /\ \A k \in 1..(i - 1) : M[k] # j}

Greedy(M, a, b) ==
    /\ M \in Seq(Nat) /\ Len(M) = Len(a)
    /\ \A i \in 1..Len(a) :
         /\ Free(M, a, b, i) = {} => M[i] = 0
         /\ Free(M, a, b, i) # {} => /\ M[i] \in Free(M, a, b, i)
                                     /\ \A j \in Free(M, a, b, i) : M[i] <= j

(* A window holds positions of b. *)
LEMMA WindowInside ==
    ASSUME NEW S, NEW a, NEW b \in Seq(S), NEW i
    PROVE  Window(a, b, i) \subseteq 1..Len(b) /\ Window(a, b, i) \subseteq Nat
<1>1. DOMAIN b = 1..Len(b) /\ 1..Len(b) \subseteq Nat
  OBVIOUS
<1>2. Window(a, b, i) \subseteq DOMAIN b
  BY Zenon DEF Window
<1> QED BY <1>1, <1>2

(* Min of a set of numbers is its smallest element. *)
LEMMA MinOf ==
    ASSUME NEW N, N \subseteq Nat, N # {}
    PROVE  Min(N) \in N /\ \A j \in N : Min(N) <= j
<1>1. \E n \in N : \A m \in N : n <= m
  BY SmallestNat
<1> QED BY <1>1 DEF Min

(* Matches takes for each character the first free position that fits. *)
LEMMA MatchesGreedy ==
    ASSUME NEW S, NEW a \in Seq(S), NEW b \in Seq(S)
    PROVE  Greedy(Matches(a, b), a, b)
<1> DEFINE n == Len(a)
           Q(i) == MatchesTo(a, b, i)
           Done(v, i) ==
             /\ v \in Seq(Nat) /\ Len(v) = i
             /\ \A k \in 1..i : /\ Free(v, a, b, k) = {} => v[k] = 0
                                /\ Free(v, a, b, k) # {} => /\ v[k] \in Free(v, a, b, k)
                                                            /\ \A j \in Free(v, a, b, k) : v[k] <= j
           N == {i \in 0..n : Done(Q(i), i)}
<1>1. n \in Nat /\ n \in 0..n /\ 0 \in 0..n
  OBVIOUS
<1>2. 0 \in N
  <2>1. Q(0) = <<>>
    BY MatchSteps
  <2>2. <<>> \in Seq(Nat) /\ Len(<<>>) = 0 /\ \A k : k \notin 1..0
    OBVIOUS
  <2>3. Done(Q(0), 0)
    BY <2>1, <2>2
  <2> HIDE DEF Q, Done
  <2> QED BY <1>1, <2>3
<1>3. ASSUME NEW i \in 1..n, i - 1 \in N PROVE i \in N
  <2> DEFINE v == Q(i - 1)
             free == {j \in Window(a, b, i) : b[j] = a[i] /\ j \notin Range(v)}
             x == IF free = {} THEN 0 ELSE Min(free)
             w == Append(v, x)
  <2>1. Q(i) = w
    <3>1. Q(i) = Match(a, b, v, i)
      BY MatchSteps
    <3> QED BY <3>1, Zenon DEF Match
  <2>2. Done(v, i - 1)
    BY <1>3
  <2> HIDE DEF Q, v
  <2>3. i \in Nat /\ i - 1 \in Nat /\ Len(v) = i - 1 /\ DOMAIN v = 1..(i - 1) /\ v \in Seq(Nat)
    BY <1>1, <2>2
  <2>4. free = Free(v, a, b, i)
    BY <2>3 DEF Free, Range
  <2>5. free \subseteq Nat
    BY WindowInside
  <2> HIDE DEF free
  <2>6. /\ x \in Nat /\ (free = {} => x = 0)
        /\ (free # {} => x \in free /\ \A j \in free : x <= j)
    BY <2>5, MinOf
  <2> HIDE DEF x
  <2>7. /\ w \in Seq(Nat) /\ Len(w) = i /\ w[i] = x
        /\ \A k \in 1..(i - 1) : w[k] = v[k]
    BY <2>3, <2>6
  <2> HIDE DEF w, Done
  <2>8. \A k \in 1..i : Free(w, a, b, k) = Free(v, a, b, k)
    <3> SUFFICES ASSUME NEW k \in 1..i PROVE Free(w, a, b, k) = Free(v, a, b, k)
      OBVIOUS
    <3>1. \A l \in 1..(k - 1) : l \in 1..(i - 1) /\ w[l] = v[l]
      BY <2>3, <2>7
    <3> QED BY <3>1 DEF Free
  <2>9. ASSUME NEW k \in 1..i
        PROVE  /\ Free(w, a, b, k) = {} => w[k] = 0
               /\ Free(w, a, b, k) # {} => /\ w[k] \in Free(w, a, b, k)
                                           /\ \A j \in Free(w, a, b, k) : w[k] <= j
    <3>1. CASE k = i
      BY <2>4, <2>6, <2>7, <2>8, <3>1
    <3>2. CASE k # i
      <4>1. k \in 1..(i - 1)
        BY <2>3, <3>2
      <4>2. w[k] = v[k]
        BY <2>7, <4>1
      <4>3. Free(w, a, b, k) = Free(v, a, b, k)
        BY <2>8
      <4>4. /\ Free(v, a, b, k) = {} => v[k] = 0
            /\ Free(v, a, b, k) # {} => /\ v[k] \in Free(v, a, b, k)
                                        /\ \A j \in Free(v, a, b, k) : v[k] <= j
        BY <2>2, <4>1 DEF Done
      <4> QED BY <4>2, <4>3, <4>4
    <3> QED BY <3>1, <3>2
  <2>10. Done(w, i)
    BY <2>7, <2>9 DEF Done
  <2>11. i \in 0..n
    BY <1>1
  <2> QED BY <2>1, <2>10, <2>11
<1>4. n \in N
  <2>1. \A i \in 0..n : i \in N
    <3> HIDE DEF N
    <3> QED BY <1>1, <1>2, <1>3, Stepwise
  <2> QED BY <1>1, <2>1
<1>5. Matches(a, b) = Q(n)
  BY MatchSteps
<1> HIDE DEF Q
<1> QED BY <1>4, <1>5 DEF Greedy

(* No two that fit would both rather have one another: this is the same said
   of a and of b, and there is only one such matching.                       *)
LEMMA GreedyIsStable ==
    ASSUME NEW S, NEW a \in Seq(S), NEW b \in Seq(S), NEW M, Greedy(M, a, b)
    PROVE  /\ \A i \in 1..Len(a) : M[i] \in Nat
           /\ \A i \in 1..Len(a) : M[i] # 0 => Fits(a, b, i, M[i])
           /\ \A i, k \in 1..Len(a) : M[i] # 0 /\ M[i] = M[k] => i = k
           /\ \A i \in 1..Len(a) : \A j \in 1..Len(b) :
                Fits(a, b, i, j) =>
                    (M[i] # 0 /\ M[i] <= j) \/ \E k \in 1..(i - 1) : M[k] = j
<1>1. /\ M \in Seq(Nat) /\ Len(M) = Len(a) /\ Len(a) \in Nat
      /\ \A i \in 1..Len(a) : M[i] \in Nat
  BY DEF Greedy
<1>2. ASSUME NEW i \in 1..Len(a), M[i] # 0 PROVE M[i] \in Free(M, a, b, i)
  BY <1>2 DEF Greedy
<1>3. ASSUME NEW i \in 1..Len(a), M[i] # 0 PROVE Fits(a, b, i, M[i])
  <2>1. M[i] \in Free(M, a, b, i) /\ i \in DOMAIN a
    BY <1>2, <1>3
  <2> QED BY <2>1 DEF Free, Fits
<1>4. ASSUME NEW i \in 1..Len(a), NEW k \in 1..Len(a), k < i, M[i] # 0 PROVE M[k] # M[i]
  <2>1. M[i] \in Free(M, a, b, i)
    BY <1>2, <1>4
  <2>2. k \in 1..(i - 1)
    BY <1>1, <1>4
  <2> QED BY <2>1, <2>2 DEF Free
<1>5. ASSUME NEW i \in 1..Len(a), NEW k \in 1..Len(a), M[i] # 0, M[i] = M[k] PROVE i = k
  <2>1. ~ (k < i)
    BY <1>4, <1>5
  <2>2. ~ (i < k)
    BY <1>4, <1>5
  <2> QED BY <1>1, <2>1, <2>2
<1>6. ASSUME NEW i \in 1..Len(a), NEW j \in 1..Len(b), Fits(a, b, i, j),
             \A k \in 1..(i - 1) : M[k] # j
      PROVE  M[i] # 0 /\ M[i] <= j
  <2>1. j \in Free(M, a, b, i)
    BY <1>6 DEF Fits, Free
  <2>2. M[i] \in Free(M, a, b, i) /\ M[i] <= j
    BY <2>1 DEF Greedy
  <2>3. M[i] \in 1..Len(b)
    BY <2>2, WindowInside DEF Free
  <2> QED BY <2>2, <2>3
<1> QED BY <1>1, <1>3, <1>5, <1>6

(* Two positions fit each other or neither does: the window is symmetric. *)
LEMMA FitsBothWays ==
    ASSUME NEW S, NEW a \in Seq(S), NEW b \in Seq(S), NEW i \in 1..Len(a), NEW j \in 1..Len(b)
    PROVE  Fits(a, b, i, j) <=> Fits(b, a, j, i)
<1> DEFINE far == (IF Len(a) > Len(b) THEN Len(a) ELSE Len(b)) \div 2
           raf == (IF Len(b) > Len(a) THEN Len(b) ELSE Len(a)) \div 2
<1>1. Len(a) \in Nat /\ Len(b) \in Nat /\ DOMAIN a = 1..Len(a) /\ DOMAIN b = 1..Len(b)
  OBVIOUS
<1>2. far = raf
  <2>1. (IF Len(a) > Len(b) THEN Len(a) ELSE Len(b)) = (IF Len(b) > Len(a) THEN Len(b) ELSE Len(a))
    BY <1>1
  <2> QED BY <2>1
<1>3. far \in Int
  BY <1>1
<1>4. /\ j \in Window(a, b, i) <=> j = i \/ (j > i - far /\ j < i + far)
      /\ i \in Window(b, a, j) <=> i = j \/ (i > j - raf /\ i < j + raf)
  BY <1>1, Zenon DEF Window
<1> HIDE DEF far, raf
<1>5. j \in Window(a, b, i) <=> i \in Window(b, a, j)
  BY <1>1, <1>2, <1>3, <1>4
<1> QED BY <1>1, <1>5 DEF Fits

(* What a finds in b is what b finds in a: at the first position where it
   were not, one of the two would have preferred the other. *)
LEMMA MatchesBothWays ==
    ASSUME NEW S, NEW a \in Seq(S), NEW b \in Seq(S)
    PROVE  \A i \in 1..Len(a) : \A j \in 1..Len(b) :
             Matches(a, b)[i] = j <=> Matches(b, a)[j] = i
<1> DEFINE M == Matches(a, b)
           N == Matches(b, a)
           P == {i \in Nat : i \in 1..Len(a) /\ ~ \A j \in 1..Len(b) : M[i] = j <=> N[j] = i}
<1>1. Greedy(M, a, b) /\ Greedy(N, b, a)
  BY MatchesGreedy
<1> HIDE DEF M, N
<1>2. /\ Len(a) \in Nat /\ Len(b) \in Nat
      /\ \A i \in 1..Len(a) : M[i] \in Nat
      /\ \A i \in 1..Len(a) : M[i] # 0 => Fits(a, b, i, M[i])
      /\ \A i, k \in 1..Len(a) : M[i] # 0 /\ M[i] = M[k] => i = k
      /\ \A i \in 1..Len(a) : \A j \in 1..Len(b) :
           Fits(a, b, i, j) => (M[i] # 0 /\ M[i] <= j) \/ \E k \in 1..(i - 1) : M[k] = j
  BY <1>1, GreedyIsStable
<1>3. /\ \A j \in 1..Len(b) : N[j] \in Nat
      /\ \A j \in 1..Len(b) : N[j] # 0 => Fits(b, a, j, N[j])
      /\ \A j, k \in 1..Len(b) : N[j] # 0 /\ N[j] = N[k] => j = k
      /\ \A j \in 1..Len(b) : \A i \in 1..Len(a) :
           Fits(b, a, j, i) => (N[j] # 0 /\ N[j] <= i) \/ \E l \in 1..(j - 1) : N[l] = i
  BY <1>1, GreedyIsStable
<1>4. \A i \in 1..Len(a) : \A j \in 1..Len(b) : Fits(a, b, i, j) <=> Fits(b, a, j, i)
  BY FitsBothWays
<1>5. SUFFICES ASSUME P # {} PROVE FALSE
  BY <1>2 DEF M, N
<1>6. PICK i \in P : \A k \in P : i <= k
  BY <1>5, SmallestNat
<1>7. i \in 1..Len(a) /\ i \in Nat
  BY <1>6
<1>8. \A k \in 1..(i - 1) : \A j \in 1..Len(b) : M[k] = j <=> N[j] = k
  <2> SUFFICES ASSUME NEW k \in 1..(i - 1)
               PROVE  \A j \in 1..Len(b) : M[k] = j <=> N[j] = k
    OBVIOUS
  <2>1. k \in Nat /\ k \in 1..Len(a) /\ ~ (i <= k)
    BY <1>2, <1>7
  <2>2. k \notin P
    BY <1>6, <2>1
  <2> QED BY <2>1, <2>2
<1>9. ASSUME NEW j \in 1..Len(b), M[i] = j PROVE N[j] = i
  <2>1. Fits(a, b, i, j) /\ Fits(b, a, j, i)
    BY <1>2, <1>4, <1>7, <1>9
  <2>2. CASE N[j] # 0 /\ N[j] <= i
    <3>1. SUFFICES ASSUME N[j] # i PROVE FALSE
      OBVIOUS
    <3>2. N[j] \in 1..(i - 1)
      BY <1>3, <1>7, <2>2, <3>1
    <3>3. M[N[j]] = j
      BY <1>8, <3>2
    <3>4. N[j] \in 1..Len(a)
      BY <1>2, <1>7, <3>2
    <3> QED BY <1>2, <1>7, <1>9, <3>1, <3>3, <3>4
  <2>3. CASE \E l \in 1..(j - 1) : N[l] = i
    <3>1. PICK l \in 1..(j - 1) : N[l] = i
      BY <2>3
    <3>2. l \in 1..Len(b) /\ l < j /\ l \in Nat
      BY <1>2, <3>1
    <3>3. Fits(b, a, l, i) /\ Fits(a, b, i, l)
      BY <1>3, <1>4, <1>7, <3>1, <3>2
    <3>4. \E k \in 1..(i - 1) : M[k] = l
      BY <1>2, <1>7, <1>9, <3>2, <3>3
    <3>5. PICK k \in 1..(i - 1) : M[k] = l
      BY <3>4
    <3>6. N[l] = k
      BY <1>8, <3>2, <3>5
    <3> QED BY <1>7, <3>1, <3>5, <3>6
  <2> QED BY <1>3, <1>7, <2>1, <2>2, <2>3
<1>10. ASSUME NEW j \in 1..Len(b), N[j] = i PROVE M[i] = j
  <2>1. Fits(b, a, j, i) /\ Fits(a, b, i, j)
    BY <1>3, <1>4, <1>7, <1>10
  <2>2. ~ \E k \in 1..(i - 1) : M[k] = j
    BY <1>7, <1>8, <1>10
  <2>3. M[i] # 0 /\ M[i] <= j
    BY <1>2, <1>7, <2>1, <2>2
  <2>4. M[i] \in 1..Len(b)
    BY <1>2, <1>7, <2>3
  <2>5. N[M[i]] = i
    BY <1>9, <2>4
  <2> QED BY <1>3, <1>7, <1>10, <2>4, <2>5
<1> QED BY <1>6, <1>9, <1>10

-----------------------------------------------------------------------------
(* 11. are_names_similar does not depend on the order of the names.           *)

(* What of a has its match in b is what b's own matching finds in a. *)
LEMMA MatchedBothWays ==
    ASSUME NEW S, NEW a \in Seq(S), NEW b \in Seq(S)
    PROVE  Range(Matches(a, b)) \ {0} = {j \in DOMAIN b : Matches(b, a)[j] # 0}
<1> DEFINE M == Matches(a, b)
           N == Matches(b, a)
<1>1. Greedy(M, a, b) /\ Greedy(N, b, a)
  BY MatchesGreedy
<1>2. \A i \in 1..Len(a) : \A j \in 1..Len(b) : M[i] = j <=> N[j] = i
  BY MatchesBothWays
<1> HIDE DEF M, N
<1>3. /\ DOMAIN M = 1..Len(a) /\ Len(a) \in Nat
      /\ \A i \in 1..Len(a) : M[i] # 0 => M[i] \in DOMAIN b
  <2>1. ASSUME NEW i \in 1..Len(a), M[i] # 0 PROVE M[i] \in DOMAIN b
    <3>1. Fits(a, b, i, M[i])
      BY <1>1, <2>1, GreedyIsStable
    <3> QED BY <3>1, WindowInside DEF Fits
  <2> QED BY <1>1, <2>1 DEF Greedy
<1>4. /\ DOMAIN N = 1..Len(b) /\ Len(b) \in Nat /\ DOMAIN b = 1..Len(b)
      /\ \A j \in 1..Len(b) : N[j] # 0 => N[j] \in 1..Len(a)
  <2>1. ASSUME NEW j \in 1..Len(b), N[j] # 0 PROVE N[j] \in 1..Len(a)
    <3>1. Fits(b, a, j, N[j])
      BY <1>1, <2>1, GreedyIsStable
    <3> QED BY <3>1, WindowInside DEF Fits
  <2> QED BY <1>1, <2>1 DEF Greedy
<1>5. ASSUME NEW j \in Range(M) \ {0} PROVE j \in DOMAIN b /\ N[j] # 0
  <2>1. PICK i \in 1..Len(a) : M[i] = j
    BY <1>3, <1>5 DEF Range
  <2>2. j \in DOMAIN b
    BY <1>3, <2>1
  <2> QED BY <1>2, <1>3, <1>4, <2>1, <2>2
<1>6. ASSUME NEW j \in DOMAIN b, N[j] # 0 PROVE j \in Range(M) \ {0}
  <2>1. M[N[j]] = j /\ N[j] \in DOMAIN M /\ j # 0
    BY <1>2, <1>3, <1>4, <1>6
  <2> QED BY <2>1 DEF Range
<1>7. Range(M) \ {0} = {j \in DOMAIN b : N[j] # 0}
  BY <1>5, <1>6
<1> QED BY <1>7 DEF M, N

(* As many characters of a are matched as of b. *)
LEMMA MatchedCount ==
    ASSUME NEW S, NEW a \in Seq(S), NEW b \in Seq(S)
    PROVE  /\ Cardinality({i \in DOMAIN a : Matches(a, b)[i] # 0})
                = Cardinality(Range(Matches(a, b)) \ {0})
           /\ Cardinality(Range(Matches(a, b)) \ {0}) \in Nat
<1> DEFINE M == Matches(a, b)
           A == {i \in DOMAIN a : M[i] # 0}
           B == Range(M) \ {0}
           f == [i \in A |-> M[i]]
<1>1. Greedy(M, a, b)
  BY MatchesGreedy
<1> HIDE DEF M
<1>2. /\ DOMAIN M = 1..Len(a) /\ DOMAIN a = 1..Len(a) /\ Len(a) \in Nat
      /\ \A i, k \in 1..Len(a) : M[i] # 0 /\ M[i] = M[k] => i = k
  <2>1. \A i, k \in 1..Len(a) : M[i] # 0 /\ M[i] = M[k] => i = k
    BY <1>1, GreedyIsStable
  <2> QED BY <1>1, <2>1 DEF Greedy
<1>3. IsFiniteSet(A)
  <2>1. IsFiniteSet(1..Len(a)) /\ A \subseteq 1..Len(a)
    BY <1>2, FS_Interval
  <2> QED BY <2>1, FS_Subset
<1>4. f \in Bijection(A, B)
  <2>1. f \in [A -> B]
    BY <1>2 DEF Range
  <2>2. \A x, y \in A : f[x] = f[y] => x = y
    BY <1>2
  <2>3. \A y \in B : \E x \in A : f[x] = y
    BY <1>2 DEF Range
  <2> QED BY <2>1, <2>2, <2>3 DEF Bijection, Injection, Surjection, IsInjective
<1>5. ExistsBijection(A, B)
  BY <1>4 DEF ExistsBijection
<1> HIDE DEF A, B, f
<1>6. IsFiniteSet(B) /\ Cardinality(B) = Cardinality(A)
  BY <1>3, <1>5, FS_Bijection
<1>7. Cardinality(B) \in Nat
  BY <1>6, FS_CardinalityType
<1> QED BY <1>6, <1>7 DEF A, B, M

(* Transpositions and the number of matches are the same both ways. *)
LEMMA TranspositionsBothWays ==
    ASSUME NEW S, NEW a \in Seq(S), NEW b \in Seq(S)
    PROVE  /\ Transpositions(a, b, Matches(a, b)) = Transpositions(b, a, Matches(b, a))
           /\ Transpositions(a, b, Matches(a, b)) \in Int
           /\ Cardinality(Range(Matches(a, b)) \ {0}) = Cardinality(Range(Matches(b, a)) \ {0})
<1> DEFINE A == {i \in DOMAIN a : Matches(a, b)[i] # 0}
           B == {j \in DOMAIN b : Matches(b, a)[j] # 0}
           Differ(p, x, q, y) == {k \in 1..Cardinality(p) : x[InOrder(p)[k]] # y[InOrder(q)[k]]}
<1>1. Range(Matches(a, b)) \ {0} = B /\ Range(Matches(b, a)) \ {0} = A
  BY MatchedBothWays
<1>2. Cardinality(A) = Cardinality(B)
  BY <1>1, MatchedCount
<1>3. /\ Transpositions(a, b, Matches(a, b)) = Cardinality(Differ(A, a, B, b)) \div 2
      /\ Transpositions(b, a, Matches(b, a)) = Cardinality(Differ(B, b, A, a)) \div 2
  BY <1>1, Zenon DEF Transpositions
<1> HIDE DEF A, B
<1>4. Differ(A, a, B, b) = Differ(B, b, A, a)
  BY <1>2
<1>5. Cardinality(Differ(A, a, B, b)) \in Nat
  <2>1. Cardinality(A) \in Nat
    BY <1>1, <1>2, MatchedCount DEF A, B
  <2>2. IsFiniteSet(1..Cardinality(A))
    BY <2>1, FS_Interval
  <2>3. Differ(A, a, B, b) \subseteq 1..Cardinality(A)
    OBVIOUS
  <2> HIDE DEF Differ
  <2> QED BY <2>2, <2>3, FS_Subset, FS_CardinalityType
<1>6. \A x \in Nat : x \div 2 \in Int
  OBVIOUS
<1> HIDE DEF Differ
<1> QED BY <1>1, <1>2, <1>3, <1>4, <1>5, <1>6

(* jaro_similarity is symmetric. *)
LEMMA JaroBothWays ==
    ASSUME NEW S, NEW a \in Seq(S), NEW b \in Seq(S)
    PROVE  JaroSimilarity(a, b) = JaroSimilarity(b, a)
<1> DEFINE Score(x, y, m, t) ==
             IF x = <<>> /\ y = <<>> THEN <<1, 1>>
             ELSE IF m = 0 THEN <<0, 1>>
             ELSE <<m * m * (Len(x) + Len(y)) + (m - t) * Len(x) * Len(y),
                    3 * m * Len(x) * Len(y)>>
           m == Cardinality(Range(Matches(a, b)) \ {0})
           t == Transpositions(a, b, Matches(a, b))
           n == Cardinality(Range(Matches(b, a)) \ {0})
           s == Transpositions(b, a, Matches(b, a))
<1>1. JaroSimilarity(a, b) = Score(a, b, m, t) /\ JaroSimilarity(b, a) = Score(b, a, n, s)
  BY Zenon DEF JaroSimilarity
<1>2. n = m /\ s = t /\ t \in Int
  BY TranspositionsBothWays
<1>3. ASSUME NEW u \in Int PROVE Score(a, b, m, u) = Score(b, a, m, u)
  <2>1. Len(a) \in Nat /\ Len(b) \in Nat /\ m \in Nat
    <3>1. m \in Nat
      BY MatchedCount, Zenon
    <3> QED BY <3>1
  <2>2. Len(a) + Len(b) = Len(b) + Len(a)
    BY <2>1
  <2>3. \A x, y, z \in Int : x * y * z = x * z * y
    OBVIOUS
  <2>4. m - u \in Int /\ 3 * m \in Int
    BY <2>1
  <2>5. /\ (m - u) * Len(a) * Len(b) = (m - u) * Len(b) * Len(a)
        /\ 3 * m * Len(a) * Len(b) = 3 * m * Len(b) * Len(a)
    <3> DEFINE x == m - u
               y == 3 * m
    <3>1. x \in Int /\ y \in Int /\ Len(a) \in Int /\ Len(b) \in Int
      BY <2>1, <2>4
    <3> HIDE DEF x, y, m
    <3>2. x * Len(a) * Len(b) = x * Len(b) * Len(a) /\ y * Len(a) * Len(b) = y * Len(b) * Len(a)
      BY <2>3, <3>1, ZenonT(30)
    <3> QED BY <3>2 DEF x, y
  <2> HIDE DEF m
  <2> QED BY <2>2, <2>5, Zenon
<1> HIDE DEF Score, m, n, t, s
<1> QED BY <1>1, <1>2, <1>3

(* jaro_winkler_similarity is symmetric. *)
LEMMA JaroWinklerBothWays ==
    ASSUME NEW S, NEW a \in Seq(S), NEW b \in Seq(S)
    PROVE  JaroWinklerSimilarity(a, b) = JaroWinklerSimilarity(b, a)
<1>1. JaroSimilarity(a, b) = JaroSimilarity(b, a) /\ {a, b} = {b, a}
  BY JaroBothWays
<1> QED BY <1>1, Zenon DEF JaroWinklerSimilarity

(* Least does not tell above from left. *)
LEMMA LeastSwapped ==
    ASSUME NEW x \in Nat, NEW y \in Nat, NEW z \in Nat, NEW c \in Nat
    PROVE  Least(x + 1, y + 1, z + c) = Least(y + 1, x + 1, z + c)
BY DEF Least

(* The table of b and a is the transposed one of a and b. *)
LEMMA DistanceBothWays ==
    ASSUME NEW S, NEW a \in Seq(S), NEW b \in Seq(S)
    PROVE  LevenshteinDistance(a, b) = LevenshteinDistance(b, a)
<1> DEFINE m == Len(a)
           n == Len(b)
<1>1. PICK t : IsTable(t, a, b)
  BY TableExists
<1> DEFINE u == [j \in 0..n |-> [i \in 0..m |-> t[i][j]]]
<1>2. m \in Nat /\ n \in Nat
  OBVIOUS
<1>3. Cells(t, a, b)
  BY <1>1, TableCell
<1>4. u \in [0..n -> [0..m -> Nat]]
  BY <1>3 DEF Cells
<1>5. ASSUME NEW j \in 1..n, NEW i \in 1..m
      PROVE  u[j][i] = Least(u[j - 1][i] + 1, u[j][i - 1] + 1,
                             u[j - 1][i - 1] + Cost(b[j], a[i]))
  <2>1. /\ i \in 0..m /\ i - 1 \in 0..m /\ j \in 0..n /\ j - 1 \in 0..n
    BY <1>2
  <2>2. /\ t[i][j] = Least(t[i - 1][j] + 1, t[i][j - 1] + 1, t[i - 1][j - 1] + Cost(a[i], b[j]))
    BY <1>1 DEF IsTable
  <2>3. t[i - 1][j] \in Nat /\ t[i][j - 1] \in Nat /\ t[i - 1][j - 1] \in Nat
    BY <1>3, <2>1 DEF Cells
  <2>4. Cost(a[i], b[j]) = Cost(b[j], a[i]) /\ Cost(a[i], b[j]) \in Nat
    BY DEF Cost
  <2>6. /\ u[j][i] = t[i][j] /\ u[j - 1][i] = t[i][j - 1]
        /\ u[j][i - 1] = t[i - 1][j] /\ u[j - 1][i - 1] = t[i - 1][j - 1]
    BY <2>1
  <2> DEFINE x == t[i - 1][j]
             y == t[i][j - 1]
             z == t[i - 1][j - 1]
             c == Cost(a[i], b[j])
  <2>7. x \in Nat /\ y \in Nat /\ z \in Nat /\ c \in Nat
    BY <2>3, <2>4
  <2> HIDE DEF u, x, y, z, c
  <2>8. Least(x + 1, y + 1, z + c) = Least(y + 1, x + 1, z + c)
    BY <2>7, LeastSwapped
  <2> QED BY <2>2, <2>4, <2>6, <2>8, Zenon DEF x, y, z, c
<1>6. IsTable(u, b, a)
  <2>1. /\ \A i \in 0..m : u[0][i] = i
        /\ \A j \in 0..n : u[j][0] = j
    BY <1>1, <1>2 DEF IsTable
  <2> HIDE DEF u
  <2> QED BY <1>4, <1>5, <2>1 DEF IsTable
<1>7. u[n][m] = t[m][n]
  BY <1>2
<1> HIDE DEF u
<1> QED BY <1>1, <1>6, <1>7, LastCell

(* Two tokens are close both ways or neither way. *)
LEMMA TokensCloseBothWays ==
    ASSUME NEW S, NEW v \in Seq(S), NEW w \in Seq(S)
    PROVE  TokensClose(v, w) <=> TokensClose(w, v)
BY JaroWinklerBothWays, DistanceBothWays DEF TokensClose

(* are_names_similar of any two names does not depend on their order. *)
LEMMA SimilarEitherWay ==
    ASSUME NEW a \in Seq(Chars), NEW b \in Seq(Chars)
    PROVE  AreNamesSimilar(a, b) = AreNamesSimilar(b, a)
<1> DEFINE ta == ExtractCoreTokens(a)
           tb == ExtractCoreTokens(b)
<1>1. ta \in Seq(Seq(Alphanumeric)) /\ tb \in Seq(Seq(Alphanumeric))
  BY TokensType
<1>2. JaroWinklerSimilarity(Joined(ta), Joined(tb)) = JaroWinklerSimilarity(Joined(tb), Joined(ta))
  BY <1>1, JoinedType, JaroWinklerBothWays
<1>3. \A v \in Range(ta), w \in Range(tb) : TokensClose(v, w) <=> TokensClose(w, v)
  <2>1. Range(ta) \subseteq Seq(Alphanumeric) /\ Range(tb) \subseteq Seq(Alphanumeric)
    BY <1>1 DEF Range
  <2> QED BY <2>1, TokensCloseBothWays
<1>4. (\E v \in Range(ta), w \in Range(tb) : TokensClose(v, w))
        <=> (\E v \in Range(tb), w \in Range(ta) : TokensClose(v, w))
  BY <1>3
<1>5. AreNamesSimilar(a, b) <=> AreNamesSimilar(b, a)
  BY <1>2, <1>4 DEF AreNamesSimilar
<1>6. AreNamesSimilar(a, b) \in BOOLEAN /\ AreNamesSimilar(b, a) \in BOOLEAN
  BY DEF AreNamesSimilar
<1> QED BY <1>5, <1>6

(* Whether are_names_similar takes two names of any length for one caller does
   not depend on which of them came first. *)
THEOREM SimilarityHasNoOrder == Spec => []SimilarBothWays
<1>1. Names => SimilarBothWays
  BY SimilarEitherWay DEF Names, SimilarBothWays
<1> QED BY <1>1, AlwaysNames, PTL

-----------------------------------------------------------------------------
(* 12. A word of a name occurs in the name with the gaps left out.            *)

At(word, text, i) ==
    /\ i \in Nat /\ i + Len(word) <= Len(text)
    /\ \A k \in 1..Len(word) : text[i + k] = word[k]

(* A word occurs in a text where it is found. *)
LEMMA OccursAt ==
    ASSUME NEW S, NEW word \in Seq(S), NEW text \in Seq(S)
    PROVE  Occurs(word, text) <=> \E i \in Nat : At(word, text, i)
<1> DEFINE n == Len(word)
           m == Len(text)
<1>1. n \in Nat /\ m \in Nat
  OBVIOUS
<1>2. ASSUME NEW i \in 0..(m - n)
      PROVE  /\ Len(SubSeq(text, i + 1, i + n)) = n
             /\ \A k \in 1..n : SubSeq(text, i + 1, i + n)[k] = text[i + k]
             /\ SubSeq(text, i + 1, i + n) \in Seq(S)
  <2>1. i \in Nat /\ i + n <= m /\ (i + n) + 1 - (i + 1) = n
    BY <1>1
  <2>2. \A k \in (i + 1)..(i + n) : text[k] \in S
    BY <1>1, <2>1
  <2>3. \A k \in 1..n : k + (i + 1) - 1 = i + k
    BY <1>1, <2>1
  <2> QED BY <1>1, <2>1, <2>2, <2>3
<1>3. ASSUME Occurs(word, text) PROVE \E i \in Nat : At(word, text, i)
  <2>1. PICK i \in 0..(m - n) : SubSeq(text, i + 1, i + n) = word
    BY <1>3 DEF Occurs
  <2>2. i \in Nat /\ i + n <= m
    BY <1>1
  <2>3. \A k \in 1..n : text[i + k] = word[k]
    BY <1>2, <2>1
  <2> QED BY <2>2, <2>3 DEF At
<1>4. ASSUME NEW i \in Nat, At(word, text, i) PROVE Occurs(word, text)
  <2>1. i + n <= m /\ \A k \in 1..n : text[i + k] = word[k]
    BY <1>4 DEF At
  <2>2. i \in 0..(m - n)
    BY <1>1, <2>1
  <2> DEFINE s == SubSeq(text, i + 1, i + n)
  <2>3. s \in Seq(S) /\ Len(s) = n /\ \A k \in 1..n : s[k] = word[k]
    BY <1>2, <2>1, <2>2
  <2> HIDE DEF s
  <2>4. s = word
    BY <2>3
  <2> QED BY <2>2, <2>4 DEF s, Occurs
<1> QED BY <1>3, <1>4

(* A word that occurs in another occurs wherever that one does. *)
LEMMA OccursWithin ==
    ASSUME NEW S, NEW u \in Seq(S), NEW v \in Seq(S), NEW w \in Seq(S),
           Occurs(u, v), Occurs(v, w)
    PROVE  Occurs(u, w)
<1>1. PICK i \in Nat : At(u, v, i)
  BY OccursAt
<1>2. PICK j \in Nat : At(v, w, j)
  BY OccursAt
<1>3. Len(u) \in Nat /\ Len(v) \in Nat /\ Len(w) \in Nat
  OBVIOUS
<1>4. i + Len(u) <= Len(v) /\ j + Len(v) <= Len(w) /\ i + j \in Nat
  BY <1>1, <1>2 DEF At
<1>5. ASSUME NEW k \in 1..Len(u) PROVE w[(i + j) + k] = u[k]
  <2>1. i + k \in 1..Len(v) /\ (i + j) + k = j + (i + k)
    BY <1>3, <1>4
  <2>2. v[i + k] = u[k] /\ w[j + (i + k)] = v[i + k]
    BY <1>1, <1>2, <2>1 DEF At
  <2> QED BY <2>1, <2>2
<1>6. At(u, w, i + j)
  BY <1>3, <1>4, <1>5 DEF At
<1> QED BY <1>4, <1>6, OccursAt

(* A word in a text, and one it ends in, when it goes on. *)
LEMMA AtAppended ==
    ASSUME NEW S, NEW w \in Seq(S), NEW text \in Seq(S), NEW c \in S, NEW i, At(w, text, i)
    PROVE  /\ At(w, Append(text, c), i)
           /\ i + Len(w) = Len(text) => /\ At(Append(w, c), Append(text, c), i)
                                        /\ i + Len(Append(w, c)) = Len(Append(text, c))
<1> DEFINE x == Append(text, c)
           y == Append(w, c)
<1>1. /\ Len(x) = Len(text) + 1 /\ x[Len(text) + 1] = c /\ \A k \in 1..Len(text) : x[k] = text[k]
      /\ Len(y) = Len(w) + 1 /\ y[Len(w) + 1] = c /\ \A k \in 1..Len(w) : y[k] = w[k]
      /\ Len(text) \in Nat /\ Len(w) \in Nat
  BY Appends
<1>2. /\ i \in Nat /\ i + Len(w) <= Len(text)
      /\ \A k \in 1..Len(w) : text[i + k] = w[k]
  BY DEF At
<1> HIDE DEF x, y
<1>3. \A k \in 1..Len(w) : x[i + k] = w[k]
  <2> SUFFICES ASSUME NEW k \in 1..Len(w) PROVE x[i + k] = w[k]
    OBVIOUS
  <2>1. i + k \in 1..Len(text)
    BY <1>1, <1>2
  <2> QED BY <1>1, <1>2, <2>1
<1>4. At(w, x, i)
  BY <1>1, <1>2, <1>3 DEF At
<1>5. ASSUME i + Len(w) = Len(text) PROVE At(y, x, i) /\ i + Len(y) = Len(x)
  <2>1. i + Len(y) = Len(x)
    BY <1>1, <1>2, <1>5
  <2>2. ASSUME NEW k \in 1..Len(y) PROVE x[i + k] = y[k]
    <3>1. CASE k \in 1..Len(w)
      BY <1>1, <1>3, <3>1
    <3>2. CASE k = Len(w) + 1
      BY <1>1, <1>2, <1>5, <3>2
    <3> QED BY <1>1, <3>1, <3>2
  <2> QED BY <1>1, <1>2, <2>1, <2>2 DEF At
<1> QED BY <1>4, <1>5 DEF x, y

(* A new word starts at the end. *)
LEMMA AtEnd ==
    ASSUME NEW S, NEW text \in Seq(S), NEW c \in S
    PROVE  /\ At(<<c>>, Append(text, c), Len(text))
           /\ Len(text) + Len(<<c>>) = Len(Append(text, c))
<1>1. /\ Len(Append(text, c)) = Len(text) + 1 /\ Append(text, c)[Len(text) + 1] = c
      /\ Len(text) \in Nat /\ Len(<<c>>) = 1 /\ <<c>>[1] = c
  OBVIOUS
<1>2. \A k \in 1..1 : k = 1
  OBVIOUS
<1> QED BY <1>1, <1>2 DEF At

(* The words so far occur in what is kept so far, and a word that has not
   ended is at the end of it.                                               *)
Spelt(text, n) ==
    /\ \A x \in 1..Len(WordsTo(text, n)) :
         \E i \in Nat : At(WordsTo(text, n)[x], KeptTo(text, {Gap}, n), i)
    /\ n # 0 /\ text[n] \in Alphanumeric =>
         /\ WordsTo(text, n) # <<>>
         /\ \E i \in Nat : LET w == WordsTo(text, n)[Len(WordsTo(text, n))] IN
              /\ At(w, KeptTo(text, {Gap}, n), i)
              /\ i + Len(w) = Len(KeptTo(text, {Gap}, n))

(* The next character keeps that so. *)
LEMMA SpeltNext ==
    ASSUME NEW text \in Seq(Alphanumeric \cup {Gap}), NEW n \in 1..Len(text),
           Spelt(text, n - 1)
    PROVE  Spelt(text, n)
<1> DEFINE A == Alphanumeric
           S == Alphanumeric \cup {Gap}
           c == text[n]
           v == WordsTo(text, n - 1)
           k == KeptTo(text, {Gap}, n - 1)
           w == WordsTo(text, n)
           l == KeptTo(text, {Gap}, n)
<1>1. Gap \notin Alphanumeric
  BY CharsAssumption
<1>2. /\ Len(text) \in Nat /\ n \in Nat /\ n # 0 /\ n - 1 \in 0..Len(text)
      /\ c \in S
  OBVIOUS
<1>3. /\ w = Grow(text, v, n) /\ l = Keep({Gap}, k, c)
      /\ v \in Seq(Seq(A)) /\ k \in Seq(S) /\ w \in Seq(Seq(A))
  <2>1. w = Grow(text, v, n)
    BY WordsSteps
  <2>2. l = Keep({Gap}, k, c)
    BY KeepSteps
  <2>3. v \in Seq(Seq(A)) /\ w \in Seq(Seq(A))
    <3>1. n \in 0..Len(text)
      BY <1>2
    <3> QED BY <1>2, <3>1, WordsType
  <2>4. k \in Seq(S)
    BY <1>2, WithoutType
  <2> QED BY <2>1, <2>2, <2>3, <2>4
<1>4. /\ \A x \in 1..Len(v) : \E i \in Nat : At(v[x], k, i)
      /\ n - 1 # 0 /\ text[n - 1] \in A =>
           v # <<>> /\ \E i \in Nat : At(v[Len(v)], k, i) /\ i + Len(v[Len(v)]) = Len(k)
  BY Zenon DEF Spelt
<1>5. SUFFICES /\ \A x \in 1..Len(w) : \E i \in Nat : At(w[x], l, i)
               /\ c \in A => /\ w # <<>>
                             /\ \E i \in Nat : At(w[Len(w)], l, i) /\ i + Len(w[Len(w)]) = Len(l)
  BY Zenon DEF Spelt
<1> HIDE DEF v, k, w, l
<1>6. CASE c \notin A
  <2>1. c = Gap
    BY <1>2, <1>6
  <2>2. w = v /\ l = k
    BY <1>3, <1>6, <2>1 DEF Grow, Keep
  <2> QED BY <1>4, <1>6, <2>2
<1>7. CASE c \in A
  <2>1. l = Append(k, c)
    BY <1>1, <1>3, <1>7 DEF Keep
  <2>2. ASSUME NEW x \in 1..Len(v) PROVE \E i \in Nat : At(v[x], l, i)
    <3>1. PICK i \in Nat : At(v[x], k, i)
      BY <1>4
    <3>2. v[x] \in Seq(S)
      BY <1>3
    <3> DEFINE y == v[x]
    <3>3. y \in Seq(S) /\ k \in Seq(S) /\ c \in S /\ At(y, k, i)
      BY <1>2, <1>3, <3>1, <3>2
    <3> HIDE DEF S, c, y
    <3>4. At(y, Append(k, c), i)
      BY <3>3, AtAppended, Zenon
    <3> QED BY <2>1, <3>4 DEF y
  <2>3. CASE n > 1 /\ text[n - 1] \in A
    <3>1. v # <<>> /\ n - 1 # 0
      BY <1>2, <1>4, <2>3
    <3>2. PICK i \in Nat : At(v[Len(v)], k, i) /\ i + Len(v[Len(v)]) = Len(k)
      BY <1>4, <2>3, <3>1
    <3>3. Len(v) \in 1..Len(v) /\ v[Len(v)] \in Seq(A) /\ v[Len(v)] \in Seq(S)
      BY <1>3, <3>1
    <3>4. w = [v EXCEPT ![Len(v)] = Append(v[Len(v)], c)]
      BY <1>3, <1>7, <2>3 DEF Grow
    <3>5. /\ Len(w) = Len(v) /\ w[Len(v)] = Append(v[Len(v)], c)
          /\ \A x \in 1..Len(v) : x # Len(v) => w[x] = v[x]
      BY <1>3, <3>3, <3>4
    <3>6. At(w[Len(v)], l, i) /\ i + Len(w[Len(v)]) = Len(l)
      <4> DEFINE y == v[Len(v)]
      <4>1. /\ y \in Seq(S) /\ k \in Seq(S) /\ c \in S
            /\ At(y, k, i) /\ i + Len(y) = Len(k)
        BY <1>2, <1>3, <3>2, <3>3
      <4> HIDE DEF S, c, y
      <4>2. At(Append(y, c), Append(k, c), i) /\ i + Len(Append(y, c)) = Len(Append(k, c))
        <5>1. i + Len(y) = Len(k) => /\ At(Append(y, c), Append(k, c), i)
                                     /\ i + Len(Append(y, c)) = Len(Append(k, c))
          BY <4>1, AtAppended
        <5> QED BY <4>1, <5>1
      <4> QED BY <2>1, <3>5, <4>2 DEF y
    <3>7. w # <<>>
      BY <1>3, <3>3, <3>5
    <3> QED BY <2>2, <3>5, <3>6, <3>7
  <2>4. CASE ~ (n > 1 /\ text[n - 1] \in A)
    <3>1. w = Append(v, <<c>>)
      BY <1>3, <1>7, <2>4 DEF Grow
    <3>2. /\ Len(w) = Len(v) + 1 /\ w[Len(w)] = <<c>> /\ Len(v) \in Nat /\ w # <<>>
          /\ \A x \in 1..Len(v) : w[x] = v[x]
      BY <1>3, <3>1
    <3>3. At(<<c>>, l, Len(k)) /\ Len(k) + Len(<<c>>) = Len(l) /\ Len(k) \in Nat
      <4> HIDE DEF S, c
      <4>1. Len(k) \in Nat /\ k \in Seq(S)
        BY <1>3
      <4> QED BY <1>2, <2>1, <4>1, AtEnd
    <3>4. \A x \in 1..Len(w) : x \in 1..Len(v) \/ x = Len(w)
      BY <3>2
    <3> QED BY <2>2, <3>2, <3>3, <3>4
  <2> QED BY <2>3, <2>4
<1> QED BY <1>6, <1>7

(* Every word of a text occurs in it with the gaps left out. *)
LEMMA WordsOccur ==
    ASSUME NEW text \in Seq(Alphanumeric \cup {Gap}), NEW word \in Range(Words(text))
    PROVE  word \in Seq(Alphanumeric) /\ Occurs(word, Without(text, {Gap}))
<1> DEFINE S == Alphanumeric \cup {Gap}
           N == {n \in 0..Len(text) : Spelt(text, n)}
<1>1. Len(text) \in Nat /\ Len(text) \in 0..Len(text) /\ 0 \in 0..Len(text)
  OBVIOUS
<1>2. 0 \in N
  <2>1. WordsTo(text, 0) = <<>>
    BY WordsSteps
  <2>2. \A x : x \notin 1..Len(<<>>)
    OBVIOUS
  <2>3. Spelt(text, 0)
    BY <2>1, <2>2 DEF Spelt
  <2> QED BY <1>1, <2>3
<1>3. ASSUME NEW n \in 1..Len(text), n - 1 \in N PROVE n \in N
  <2>1. n \in 0..Len(text)
    BY <1>1
  <2>2. Spelt(text, n)
    BY <1>3, SpeltNext
  <2> QED BY <2>1, <2>2
<1>4. Len(text) \in N
  <2> HIDE DEF N
  <2> QED BY <1>1, <1>2, <1>3, Stepwise
<1>5. /\ Words(text) = WordsTo(text, Len(text)) /\ Words(text) \in Seq(Seq(Alphanumeric))
      /\ Without(text, {Gap}) = KeptTo(text, {Gap}, Len(text))
      /\ Without(text, {Gap}) \in Seq(S)
  BY WordsSteps, KeepSteps, WordsType, WithoutType
<1>6. PICK x \in 1..Len(Words(text)) : word = Words(text)[x]
  BY <1>5 DEF Range
<1>7. word \in Seq(Alphanumeric) /\ word \in Seq(S)
  BY <1>5, <1>6
<1>8. \E i \in Nat : At(word, Without(text, {Gap}), i)
  BY <1>4, <1>5, <1>6 DEF Spelt
<1> HIDE DEF S
<1> QED BY <1>5, <1>7, <1>8, OccursAt

-----------------------------------------------------------------------------
(* 13. is_profane sees through every disguise.                                *)

(* A cleaned name has a letter or a gap for each character. *)
LEMMA CleanedType ==
    ASSUME NEW raw \in Seq(Chars)
    PROVE  /\ Cleaned(raw) \in Seq(Alphanumeric \cup {Gap}) /\ Len(Cleaned(raw)) = Len(raw)
           /\ Len(raw) \in Nat
           /\ \A i \in 1..Len(raw) : Cleaned(raw)[i] = Reads[raw[i]]
           /\ Compacted(raw) \in Seq(Alphanumeric \cup {Gap})
<1> DEFINE S == Alphanumeric \cup {Gap}
<1>1. \A i \in 1..Len(raw) : Reads[raw[i]] \in S
  BY CharsAssumption
<1>2. Cleaned(raw) \in Seq(S)
  BY <1>1 DEF Cleaned
<1> HIDE DEF S
<1>3. Compacted(raw) \in Seq(S)
  BY <1>2, WithoutType DEF Compacted
<1>4. Len(Cleaned(raw)) = Len(raw) /\ \A i \in 1..Len(raw) : Cleaned(raw)[i] = Reads[raw[i]]
  BY DEF Cleaned
<1> QED BY <1>2, <1>3, <1>4 DEF S

(* Whatever is_profane finds in a word it finds in the compacted name too. *)
LEMMA ProfaneWhenCompacted ==
    ASSUME NEW raw \in Seq(Chars)
    PROVE  IsProfane(raw) <=> \E bad \in ProfaneWords : Occurs(bad, Compacted(raw))
<1> DEFINE S == Chars \cup {Gap}
<1>1. /\ Cleaned(raw) \in Seq(Alphanumeric \cup {Gap})
      /\ Compacted(raw) = Without(Cleaned(raw), {Gap})
  BY CleanedType DEF Compacted
<1>2. Compacted(raw) \in Seq(S) /\ \A bad \in ProfaneWords : bad \in Seq(S)
  <2>1. Compacted(raw) \in Seq(Alphanumeric \cup {Gap})
    BY CleanedType
  <2> QED BY <2>1, CharsAssumption
<1>3. ASSUME NEW word \in Range(Words(Cleaned(raw))), NEW bad \in ProfaneWords,
             word = bad \/ Occurs(bad, word)
      PROVE  Occurs(bad, Compacted(raw))
  <2>1. word \in Seq(Alphanumeric) /\ Occurs(word, Compacted(raw))
    BY <1>1, WordsOccur
  <2>2. word \in Seq(S)
    BY <2>1, CharsAssumption
  <2> HIDE DEF S
  <2>3. CASE word = bad
    BY <2>1, <2>3
  <2>4. CASE Occurs(bad, word)
    BY <1>2, <2>1, <2>2, <2>4, OccursWithin
  <2> QED BY <1>3, <2>3, <2>4
<1> QED BY <1>3, Zenon DEF IsProfane

(* Of sequences that agree so far, the same is kept so far. *)
LEMMA KeptAlike ==
    ASSUME NEW S, NEW a \in Seq(S), NEW b \in Seq(S), NEW d, NEW k \in Nat,
           k <= Len(a), k <= Len(b), \A j \in 1..k : a[j] = b[j]
    PROVE  KeptTo(a, d, k) = KeptTo(b, d, k)
<1> DEFINE N == {n \in 0..k : KeptTo(a, d, n) = KeptTo(b, d, n)}
<1>1. 0 \in N
  BY KeepSteps
<1>2. ASSUME NEW n \in 1..k, n - 1 \in N PROVE n \in N
  <2>1. n \in 1..Len(a) /\ n \in 1..Len(b) /\ n \in 0..k /\ a[n] = b[n]
    OBVIOUS
  <2>2. KeptTo(a, d, n) = Keep(d, KeptTo(a, d, n - 1), a[n])
    BY <2>1, KeepSteps
  <2>3. KeptTo(b, d, n) = Keep(d, KeptTo(b, d, n - 1), b[n])
    BY <2>1, KeepSteps
  <2> QED BY <1>2, <2>1, <2>2, <2>3
<1>3. k \in N
  <2>1. k \in 0..k
    OBVIOUS
  <2> HIDE DEF N
  <2> QED BY <1>1, <1>2, <2>1, Stepwise
<1> QED BY <1>3

(* What is kept of a sequence that goes on. *)
LEMMA KeptAppended ==
    ASSUME NEW S, NEW a \in Seq(S), NEW c \in S, NEW d
    PROVE  Without(Append(a, c), d) = Keep(d, Without(a, d), c)
<1> DEFINE w == Append(a, c)
           n == Len(a)
<1>1. /\ w \in Seq(S) /\ Len(w) = n + 1 /\ \A k \in 1..n : w[k] = a[k]
      /\ w[n + 1] = c /\ n \in Nat
  BY Appends
<1> HIDE DEF w, n
<1>2. KeptTo(w, d, n) = KeptTo(a, d, n)
  BY <1>1, KeptAlike DEF n
<1>3. KeptTo(w, d, n + 1) = Keep(d, KeptTo(w, d, n), c)
  <2>1. n + 1 \in 1..Len(w) /\ (n + 1) - 1 = n
    BY <1>1
  <2>2. KeptTo(w, d, n + 1) = Keep(d, KeptTo(w, d, (n + 1) - 1), w[n + 1])
    BY <1>1, <2>1, KeepSteps
  <2> QED BY <1>1, <2>1, <2>2
<1>4. Without(w, d) = KeptTo(w, d, n + 1) /\ Without(a, d) = KeptTo(a, d, n)
  BY <1>1, KeepSteps DEF n
<1> QED BY <1>2, <1>3, <1>4 DEF w

(* Inserting what is not kept changes nothing. *)
LEMMA KeptInserted ==
    ASSUME NEW S, NEW b \in Seq(S), NEW w \in Seq(S), NEW k, Inserted(b, w, k),
           NEW d, w[k] \in d
    PROVE  Without(w, d) = Without(b, d)
<1> DEFINE h == k - 1
           n == Len(b)
           N == {i \in 0..n : i >= h => KeptTo(w, d, i + 1) = KeptTo(b, d, i)}
<1>1. /\ n \in Nat /\ h \in Nat /\ h <= n /\ h + 1 = k /\ Len(w) = n + 1 /\ k \in 1..Len(w)
      /\ \A j \in 1..h : w[j] = b[j]
      /\ \A j \in 1..n : j > h => w[j + 1] = b[j]
  BY DEF Inserted
<1> HIDE DEF h
<1>2. KeptTo(w, d, h + 1) = KeptTo(b, d, h)
  <2>1. KeptTo(w, d, h) = KeptTo(b, d, h)
    BY <1>1, KeptAlike
  <2>2. KeptTo(w, d, k) = Keep(d, KeptTo(w, d, k - 1), w[k])
    BY <1>1, KeepSteps
  <2>3. k - 1 = h
    BY <1>1
  <2> QED BY <1>1, <2>1, <2>2, <2>3 DEF Keep
<1>3. 0 \in N
  <2>1. 0 >= h => h = 0
    BY <1>1
  <2> QED BY <1>1, <1>2, <2>1
<1>4. ASSUME NEW i \in 1..n, i - 1 \in N PROVE i \in N
  <2>1. i \in 0..n /\ i \in Nat /\ i \in 1..Len(b) /\ i + 1 \in 1..Len(w) /\ (i + 1) - 1 = i
    BY <1>1
  <2>2. CASE i < h
    BY <1>1, <2>1, <2>2
  <2>3. CASE i = h
    BY <1>2, <2>1, <2>3
  <2>4. CASE i > h
    <3>1. i - 1 >= h /\ w[i + 1] = b[i] /\ (i - 1) + 1 = i
      BY <1>1, <2>1, <2>4
    <3>2. KeptTo(w, d, i) = KeptTo(b, d, i - 1)
      BY <1>4, <3>1
    <3>3. KeptTo(w, d, i + 1) = Keep(d, KeptTo(w, d, (i + 1) - 1), w[i + 1])
      BY <2>1, KeepSteps
    <3>4. KeptTo(b, d, i) = Keep(d, KeptTo(b, d, i - 1), b[i])
      BY <2>1, KeepSteps
    <3> QED BY <2>1, <3>1, <3>2, <3>3, <3>4
  <2> QED BY <1>1, <2>1, <2>2, <2>3, <2>4
<1>5. KeptTo(w, d, n + 1) = KeptTo(b, d, n)
  <2>1. n \in 0..n /\ n >= h
    BY <1>1
  <2>2. n \in N
    <3> HIDE DEF N, n
    <3> QED BY <1>1, <1>3, <1>4, <2>1, Stepwise
  <2> QED BY <2>1, <2>2
<1>6. Without(w, d) = KeptTo(w, d, n + 1) /\ Without(b, d) = KeptTo(b, d, n)
  BY <1>1, KeepSteps
<1> QED BY <1>5, <1>6

(* A name that goes on: the compacted name goes on, or stays. *)
LEMMA TypedProfane ==
    ASSUME NEW raw \in Seq(Chars), NEW c \in Chars, IsProfane(raw)
    PROVE  IsProfane(Append(raw, c))
<1> DEFINE S == Alphanumeric \cup {Gap}
           T == Chars \cup {Gap}
           w == Append(raw, c)
           r == Reads[c]
<1>1. w \in Seq(Chars) /\ r \in S
  BY CharsAssumption
<1>2. Cleaned(w) = Append(Cleaned(raw), r)
  BY DEF Cleaned
<1>3. Compacted(w) = Keep({Gap}, Compacted(raw), r)
  <2>1. Cleaned(raw) \in Seq(S)
    BY CleanedType
  <2> HIDE DEF S, w, r
  <2> QED BY <1>1, <1>2, <2>1, KeptAppended DEF Compacted
<1>4. PICK bad \in ProfaneWords : Occurs(bad, Compacted(raw))
  BY ProfaneWhenCompacted
<1>5. bad \in Seq(T) /\ Compacted(raw) \in Seq(T) /\ r \in T
  <2>1. Compacted(raw) \in Seq(S)
    BY CleanedType
  <2> QED BY <1>1, <2>1, CharsAssumption
<1>6. Occurs(bad, Compacted(w))
  <2> HIDE DEF T, w, r
  <2>1. PICK i \in Nat : At(bad, Compacted(raw), i)
    BY <1>4, <1>5, OccursAt
  <2>2. At(bad, Append(Compacted(raw), r), i)
    BY <1>5, <2>1, AtAppended
  <2>3. Append(Compacted(raw), r) \in Seq(T)
    BY <1>5
  <2>4. Occurs(bad, Append(Compacted(raw), r))
    BY <1>5, <2>2, <2>3, OccursAt
  <2> QED BY <1>3, <1>4, <2>4 DEF Keep
<1> QED BY <1>1, <1>6, ProfaneWhenCompacted

(* A separator put in does not change the compacted name. *)
LEMMA SeparatedProfane ==
    ASSUME NEW raw \in Seq(Chars), NEW c \in Chars, Reads[c] = Gap, NEW k \in DOMAIN raw,
           IsProfane(raw)
    PROVE  IsProfane(InsertAt(raw, k, c))
<1> DEFINE S == Alphanumeric \cup {Gap}
           w == InsertAt(raw, k, c)
<1>1. w \in Seq(Chars) /\ w[k] = c /\ Inserted(raw, w, k)
  <2>1. k \in 1..(Len(raw) + 1)
    OBVIOUS
  <2> QED BY <2>1, InsertedAt
<1> HIDE DEF w
<1>2. /\ Cleaned(w) \in Seq(S) /\ Len(Cleaned(w)) = Len(w)
      /\ \A i \in 1..Len(w) : Cleaned(w)[i] = Reads[w[i]]
      /\ Cleaned(raw) \in Seq(S) /\ Len(Cleaned(raw)) = Len(raw) /\ Len(raw) \in Nat
      /\ \A i \in 1..Len(raw) : Cleaned(raw)[i] = Reads[raw[i]]
  BY <1>1, CleanedType
<1>3. /\ k \in 1..(Len(raw) + 1) /\ Len(w) = Len(raw) + 1
      /\ \A j \in 1..(k - 1) : w[j] = raw[j]
      /\ \A j \in k..Len(raw) : w[j + 1] = raw[j]
  BY <1>1 DEF Inserted
<1>4. Inserted(Cleaned(raw), Cleaned(w), k) /\ Cleaned(w)[k] = Gap
  <2>1. \A j \in 1..(k - 1) : j \in 1..Len(w) /\ j \in 1..Len(raw)
    BY <1>2, <1>3
  <2>2. \A j \in k..Len(raw) : j + 1 \in 1..Len(w) /\ j \in 1..Len(raw)
    BY <1>2, <1>3
  <2>3. k \in 1..Len(w)
    BY <1>2, <1>3
  <2>4. ASSUME NEW j \in 1..(k - 1) PROVE Cleaned(w)[j] = Cleaned(raw)[j]
    <3>1. j \in 1..Len(w) /\ j \in 1..Len(raw) /\ w[j] = raw[j]
      BY <1>3, <2>1
    <3> QED BY <1>2, <3>1
  <2>5. ASSUME NEW j \in k..Len(raw) PROVE Cleaned(w)[j + 1] = Cleaned(raw)[j]
    <3>1. j + 1 \in 1..Len(w) /\ j \in 1..Len(raw) /\ w[j + 1] = raw[j]
      BY <1>3, <2>2
    <3> QED BY <1>2, <3>1
  <2> QED BY <1>1, <1>2, <1>3, <2>3, <2>4, <2>5 DEF Inserted
<1>5. Compacted(w) = Compacted(raw)
  <2> HIDE DEF S
  <2> QED BY <1>2, <1>4, KeptInserted DEF Compacted
<1>6. IsProfane(w)
  BY <1>1, <1>5, ProfaneWhenCompacted
<1> QED BY <1>6 DEF w

(* A character that reads the same does not change the cleaned name. *)
LEMMA DisguisedProfane ==
    ASSUME NEW raw \in Seq(Chars), NEW c \in Chars, NEW k \in DOMAIN raw,
           Reads[c] = Reads[raw[k]], IsProfane(raw)
    PROVE  IsProfane(ReplaceAt(raw, k, c))
<1> DEFINE w == ReplaceAt(raw, k, c)
<1>1. Cleaned(w) = Cleaned(raw)
  BY DEF Cleaned, ReplaceAt
<1> HIDE DEF w
<1>2. IsProfane(w)
  BY <1>1 DEF IsProfane, Compacted
<1> QED BY <1>2 DEF w

(* A name of any length that is_profane rejects stays rejected when it goes on,
   when characters are replaced by ones that read the same and when separators
   are put between its characters. *)
THEOREM NoDisguiseHelps == Spec => NeverPardoned
<1>1. Names /\ [Next]_vars => [IsProfane(typed) => IsProfane(typed')]_vars
  <2> SUFFICES ASSUME Names, Next, IsProfane(typed) PROVE IsProfane(typed')
    BY DEF vars
  <2>0. typed \in Seq(Chars)
    BY DEF Names
  <2>1. ASSUME NEW c \in Chars, Suggest(c) PROVE IsProfane(typed')
    BY <2>1 DEF Suggest
  <2>2. ASSUME NEW c \in Chars, Type(c) PROVE IsProfane(typed')
    BY <2>0, <2>2, TypedProfane DEF Type
  <2>3. ASSUME NEW c \in Chars, NEW i \in DOMAIN typed, LookAlike(i, c) PROVE IsProfane(typed')
    BY <2>0, <2>3, DisguisedProfane DEF LookAlike
  <2>4. ASSUME NEW c \in Chars, NEW i \in DOMAIN typed, Separate(i, c) PROVE IsProfane(typed')
    BY <2>0, <2>4, SeparatedProfane DEF Separate
  <2> QED BY <2>1, <2>2, <2>3, <2>4 DEF Next
<1> QED BY <1>1, AlwaysNames, PTL DEF Spec, NeverPardoned
=============================================================================

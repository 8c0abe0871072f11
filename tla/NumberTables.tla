---------------------------- MODULE NumberTables ----------------------------
(***************************************************************************)
(* The Postgres tables behind the caller index, and the statements the API *)
(* and the crawler run on them.  Every statement commits by itself: the    *)
(* code opens no transaction.  An operator below is ONE statement: the row *)
(* it leaves in numbers, or what becomes of the other table it writes.     *)
(* The handlers that run them are in NumberRegistry.                       *)
(*                                                                         *)
(* Abstracted: country, category, source flags, comments and timestamps;   *)
(* the spam score, of which only the report count is kept.  A confidence   *)
(* of 0, .35, .65, .90 is the level 0, 1, 2, 3.                            *)
(***************************************************************************)
EXTENDS Integers, FiniteSets

CONSTANTS
    Numbers,    \* E.164 numbers, the primary key of numbers
    Names,      \* caller names as people type them
    NoName,     \* SQL NULL in a name column
    NoRow,      \* the number has no row in numbers
    Normal,     \* [Names -> keys]: normalize_caller_name
    Similar,    \* the pairs of names are_names_similar accepts
    Rejected    \* the names contributions drop: blank or profane

Row == [name       : Names \cup {NoName},
        confidence : 0..3,
        verified   : BOOLEAN,
        private    : BOOLEAN,
        reports    : Nat]

ASSUME NamesAssumption == NoName \notin Names
ASSUME RowAssumption   == NoRow \notin Row

VARIABLES
    numbers,      \* [Numbers -> Row or NoRow]
    suggestions,  \* the rows [id, number, name, votes] of number_name_suggestions
    delisted,     \* the numbers in delisted_numbers
    reports       \* the rows [id, number] of reports

tables == <<numbers, suggestions, delisted, reports>>

TablesInit ==
    /\ numbers = [n \in Numbers |-> NoRow]
    /\ suggestions = {}
    /\ delisted = {}
    /\ reports = {}

-----------------------------------------------------------------------------
(* Column defaults of a freshly inserted row. *)
BlankRow == [name |-> NoName, confidence |-> 0, verified |-> FALSE,
             private |-> FALSE, reports |-> 0]

(* COALESCE(a, b) on a name column. *)
Coalesce(a, b) == IF a = NoName THEN b ELSE a

(* Mutated: two votes are taken for a consensus. *)
LevelEager(votes) == IF votes = 1 THEN votes ELSE 3

(* match votes { 1 => 0.35, 2 => 0.65, _ => 0.90 } *)
Level(votes) == IF votes \in {1, 2} THEN votes ELSE 3

SuggestionsFor(n) == {s \in suggestions : s.number = n}

(* The clusters a name may join: the SELECT has no ORDER BY, so the loop's
   first match is any of them.                                             *)
Clusters(n, name) == {s \in SuggestionsFor(n) : <<name, s.name>> \in Similar}

(* ORDER BY votes_count DESC LIMIT 1: ties come in any order. *)
TopSuggestions(n) ==
    {s \in SuggestionsFor(n) : \A t \in SuggestionsFor(n) : t.votes <= s.votes}

-----------------------------------------------------------------------------
(* The statements on numbers: the row that replaces row r of the number. *)

(* Mutated: an UPDATE alone, with no INSERT. *)
EnsuredByUpdate(r) == r

Ensured(r) == IF r = NoRow THEN BlankRow ELSE r

(* Mutated: no WHERE is_private = false. *)
PublishedUnguarded(r, name, votes, business) ==
    [r EXCEPT !.name = name, !.confidence = Level(votes),
              !.verified = @ \/ (business /\ votes >= 3)]

Published(r, name, votes, business) ==
    IF r = NoRow \/ r.private THEN r
    ELSE [r EXCEPT !.name = name, !.confidence = Level(votes),
                   !.verified = @ \/ (business /\ votes >= 3)]

(* Mutated: the reported name wins over the stored one. *)
ReportedRenames(r, name, count) ==
    IF r = NoRow THEN [BlankRow EXCEPT !.name = name, !.reports = count]
    ELSE [r EXCEPT !.name = Coalesce(name, @), !.reports = count]

(* Mutated: the computed count is added to the stored one. *)
ReportedAdds(r, name, count) ==
    IF r = NoRow THEN [BlankRow EXCEPT !.name = name, !.reports = count]
    ELSE [r EXCEPT !.name = Coalesce(@, name), !.reports = @ + count]

(* No is_private or delisted guard: the row is written whatever it is. *)
Reported(r, name, count) ==
    IF r = NoRow THEN [BlankRow EXCEPT !.name = name, !.reports = count]
    ELSE [r EXCEPT !.name = Coalesce(@, name), !.reports = count]

Merged(r, name) ==
    IF r = NoRow THEN [BlankRow EXCEPT !.name = name, !.reports = 1]
    ELSE IF r.private THEN r
    ELSE [r EXCEPT !.name = Coalesce(@, name)]

Crawled(r, name) ==
    IF r = NoRow THEN [BlankRow EXCEPT !.name = name, !.reports = 1]
    ELSE IF r.private THEN r
    ELSE [r EXCEPT !.name = Coalesce(@, name), !.reports = @ + 1]

(* Mutated: the confidence is not reset. *)
HiddenNameOnly(r) ==
    IF r = NoRow THEN r ELSE [r EXCEPT !.name = NoName, !.private = TRUE]

(* The UPDATE finds nothing when the number has no row. *)
Hidden(r) ==
    IF r = NoRow THEN r
    ELSE [r EXCEPT !.name = NoName, !.private = TRUE, !.confidence = 0]

-----------------------------------------------------------------------------
(* The statements on the other tables. *)

(* votes_count = votes_count + 1 on the chosen rows. *)
Increment(chosen) ==
    {IF s \in chosen THEN [s EXCEPT !.votes = @ + 1] ELSE s : s \in suggestions}

(* A row deleted since it was read is not found: the UPDATE touches nothing. *)
VoteForCluster(id) ==
    suggestions' = Increment({s \in suggestions : s.id = id})

(* Mutated: ON CONFLICT DO NOTHING. *)
InsertSuggestionOnce(id, n, name) ==
    LET new == [id |-> id, number |-> n, name |-> name, votes |-> 1]
    IN  suggestions' = IF \E s \in SuggestionsFor(n) : Normal[s.name] = Normal[name]
                       THEN suggestions ELSE suggestions \cup {new}

(* Mutated: votes_count defaults to 0. *)
InsertSuggestionUncounted(id, n, name) ==
    suggestions' = suggestions \cup
        {[id |-> id, number |-> n, name |-> name, votes |-> 0]}

InsertSuggestion(id, n, name) ==
    LET same == {s \in SuggestionsFor(n) : Normal[s.name] = Normal[name]}
        new  == [id |-> id, number |-> n, name |-> name, votes |-> 1]
    IN  suggestions' = IF same = {} THEN suggestions \cup {new}
                       ELSE Increment(same)

PurgeSuggestions(n) == suggestions' = suggestions \ SuggestionsFor(n)

InsertReport(id, n) == reports' = reports \cup {[id |-> id, number |-> n]}

InsertDelisted(n) == delisted' = delisted \cup {n}

(* The name the delta feed carries for a number: masked when private. *)
DeltaName(n) ==
    IF numbers[n] = NoRow \/ numbers[n].private THEN NoName ELSE numbers[n].name
=============================================================================

--------------------------- MODULE NumberRegistry ---------------------------
(***************************************************************************)
(* The handlers that read and write the caller index: contribute, report,  *)
(* delist, federation sync and lookup of the API, and the crawler's ingest *)
(* loop.  Each runs one SQL statement per step and awaits between them, so *)
(* the handlers of different requests interleave at every statement.  A    *)
(* request keeps what it read in locals and acts on it later.              *)
(*                                                                         *)
(* A request serves one call, for one or more items.  Any statement may    *)
(* fail, the client may disconnect and the process may die: the handler    *)
(* then stops where it is and what it already wrote stays.                 *)
(***************************************************************************)
EXTENDS NumberTables, Sequences, FiniteSetsExt

CONSTANTS
    Requests,   \* the calls made; bounds the run
    Users,      \* the accounts that make them
    Ops,        \* the kinds of call that may come in
    MaxItems    \* bound on the contacts, items or records of one call

OpKinds == {"contribute", "report", "delist", "federation", "crawl", "lookup"}

ASSUME OpsAssumption   == Ops \subseteq OpKinds
ASSUME ItemsAssumption == MaxItems \in Nat \ {0}

VARIABLES
    job,       \* what each request asks for
    pc,        \* the statement its handler runs next
    at,        \* the index of the item being processed
    match,     \* local: id of the cluster found, or NoId
    top,       \* local: the leading name and its votes
    row,       \* local: the row of numbers that was read, or NoRow
    answer,    \* what a lookup returned
    applied,   \* history: the <<request, index>> whose write was executed
    overtaken, \* history: the items past their check when their number was delisted
    unasked    \* history: the items of delisted numbers let through without the
               \* registry's answer: it was not asked, or its answer was an error

locals   == <<match, top, row>>
history  == <<applied, overtaken, unasked>>
vars     == <<tables, job, pc, at, locals, answer, history>>

-----------------------------------------------------------------------------
Item == [number : Numbers, name : Names \cup {NoName}, business : BOOLEAN]

(* What one call of a kind can carry; only a contribution has the business
   flag, and only it must carry a name.                                    *)
ItemsOf(kind) ==
    CASE kind = "contribute" ->
            {i \in Item : i.name # NoName}
      [] kind \in {"report", "federation", "crawl"} ->
            {i \in Item : ~i.business}
      [] OTHER ->
            {i \in Item : i.name = NoName /\ ~i.business}

Lengths(kind) ==
    IF kind \in {"contribute", "federation", "crawl"} THEN 1..MaxItems ELSE {1}

Job   == [kind : OpKinds, user : Users, items : Seq(Item)]
Ids   == Requests \X (1..MaxItems)
NoId  == <<>>
NoTop == [name |-> NoName, votes |-> 0]
NoJob == [kind |-> "none", items |-> <<>>]
NoAnswer == [name |-> NoName, confidence |-> 0]

Kind(p)   == job[p].kind
This(p)   == job[p].items[at[p]]
Number(p) == This(p).number
ThisId(p) == <<p, at[p]>>
RowOf(p)  == numbers[Number(p)]

(* The first statement of a handler, and of each turn of its loop. *)
First(kind) ==
    CASE kind = "report" -> "read"
      [] kind = "delist" -> "register"
      [] OTHER           -> "check"

(* Steps whose handler is past the check that the number is not delisted. *)
PastCheck == {"ensure", "cluster", "vote", "lead", "publish", "merge"}

InFlight(p) == pc[p] \notin {"new", "done", "failed"}

(* Mutated: the row's flag is asked, not the registry. *)
RegisteredByFlag(n) == numbers[n] # NoRow /\ numbers[n].private

(* SELECT EXISTS(... delisted_numbers ...), the check of every ingest path
   but submit_report, and of lookup_number.                                *)
Registered(n) == n \in delisted

-----------------------------------------------------------------------------
Init ==
    /\ TablesInit
    /\ job = [p \in Requests |-> NoJob]
    /\ pc = [p \in Requests |-> "new"]
    /\ at = [p \in Requests |-> 1]
    /\ match = [p \in Requests |-> NoId]
    /\ top = [p \in Requests |-> NoTop]
    /\ row = [p \in Requests |-> NoRow]
    /\ answer = [p \in Requests |-> NoAnswer]
    /\ applied = {}
    /\ overtaken = {}
    /\ unasked = {}

(* A call passes its argument checks and its handler starts. *)
Start(p) ==
    /\ pc[p] = "new"
    /\ \E kind \in Ops, user \in Users : \E len \in Lengths(kind) :
         \E items \in [1..len -> ItemsOf(kind)] :
            job' = [job EXCEPT ![p] = [kind |-> kind, user |-> user, items |-> items]]
    /\ pc' = [pc EXCEPT ![p] = First(job'[p].kind)]
    /\ at' = [at EXCEPT ![p] = 1]
    /\ UNCHANGED <<tables, locals, answer, history>>

Goto(p, step) == pc' = [pc EXCEPT ![p] = step]

(* The locals of an item go out of scope; the loop takes the next item. *)
NextItem(p) ==
    /\ match' = [match EXCEPT ![p] = NoId]
    /\ top' = [top EXCEPT ![p] = NoTop]
    /\ row' = [row EXCEPT ![p] = NoRow]
    /\ IF at[p] < Len(job[p].items)
       THEN /\ at' = [at EXCEPT ![p] = @ + 1]
            /\ Goto(p, First(Kind(p)))
       ELSE /\ at' = at
            /\ Goto(p, IF Kind(p) = "federation" THEN "stamp" ELSE "done")

PutRow(p, r) == numbers' = [numbers EXCEPT ![Number(p)] = r]

Apply(p) == applied' = applied \cup {ThisId(p)}

(* The handler goes on with a number without knowing whether it is delisted. *)
GoUnasked(p) ==
    unasked' = IF Number(p) \in delisted THEN unasked \cup {ThisId(p)} ELSE unasked

-----------------------------------------------------------------------------
(* contribute_contacts *)

(* An invalid or profane name, or a delisted number: the contact is skipped. *)
ContributeSkip(p) ==
    /\ pc[p] = "check" /\ Kind(p) = "contribute"
    /\ This(p).name \in Rejected \/ Registered(Number(p))
    /\ NextItem(p)
    /\ UNCHANGED <<tables, job, answer, history>>

ContributeCheck(p) ==
    /\ pc[p] = "check" /\ Kind(p) = "contribute"
    /\ This(p).name \notin Rejected /\ ~Registered(Number(p))
    /\ Goto(p, "ensure")
    /\ UNCHANGED <<tables, job, at, locals, answer, history>>

ContributeEnsure(p) ==
    /\ pc[p] = "ensure"
    /\ PutRow(p, Ensured(RowOf(p)))
    /\ Goto(p, "cluster")
    /\ UNCHANGED <<suggestions, delisted, reports, job, at, locals, answer, history>>

(* Reads the suggestions and keeps the id of the first similar one, if any. *)
ContributeCluster(p) ==
    /\ pc[p] = "cluster"
    /\ LET found == Clusters(Number(p), This(p).name)
       IN  match' \in {[match EXCEPT ![p] = id] :
                         id \in IF found = {} THEN {NoId} ELSE {s.id : s \in found}}
    /\ Goto(p, "vote")
    /\ UNCHANGED <<tables, job, at, top, row, answer, history>>

ContributeVote(p) ==
    /\ pc[p] = "vote"
    /\ IF match[p] # NoId THEN VoteForCluster(match[p])
       ELSE InsertSuggestion(ThisId(p), Number(p), This(p).name)
    /\ Apply(p)
    /\ Goto(p, "lead")
    /\ UNCHANGED <<numbers, delisted, reports, job, at, locals, answer, overtaken, unasked>>

(* Reads the leading suggestion; there may be none left after a purge. *)
ContributeLead(p) ==
    /\ pc[p] = "lead"
    /\ \E s \in TopSuggestions(Number(p)) :
         top' = [top EXCEPT ![p] = [name |-> s.name, votes |-> s.votes]]
    /\ Goto(p, "publish")
    /\ UNCHANGED <<tables, job, at, match, row, answer, history>>

ContributeNoLead(p) ==
    /\ pc[p] = "lead"
    /\ TopSuggestions(Number(p)) = {}
    /\ NextItem(p)
    /\ UNCHANGED <<tables, job, answer, history>>

ContributePublish(p) ==
    /\ pc[p] = "publish"
    /\ PutRow(p, Published(RowOf(p), top[p].name, top[p].votes, This(p).business))
    /\ NextItem(p)
    /\ UNCHANGED <<suggestions, delisted, reports, job, answer, history>>

-----------------------------------------------------------------------------
(* submit_report *)

ReportRead(p) ==
    /\ pc[p] = "read"
    /\ row' = [row EXCEPT ![p] = RowOf(p)]
    /\ Goto(p, "upsert")
    /\ UNCHANGED <<tables, job, at, match, top, answer, history>>

(* The count and the fallback name come from the row as it was read, and the
   registry is not asked.                                                  *)
ReportUpsert(p) ==
    /\ pc[p] = "upsert"
    /\ LET known == IF row[p] = NoRow THEN BlankRow ELSE row[p]
       IN  PutRow(p, Reported(RowOf(p), Coalesce(This(p).name, known.name),
                              known.reports + 1))
    /\ Apply(p) /\ GoUnasked(p)
    /\ Goto(p, "record")
    /\ UNCHANGED <<suggestions, delisted, reports, job, at, locals, answer, overtaken>>

ReportRecord(p) ==
    /\ pc[p] = "record"
    /\ InsertReport(p, Number(p))
    /\ NextItem(p)
    /\ UNCHANGED <<numbers, suggestions, delisted, job, answer, history>>

-----------------------------------------------------------------------------
(* delist_number *)

(* The registry comes first: whoever checks later skips the number.  Only a
   handler already past its check is overtaken.                            *)
DelistRegister(p) ==
    /\ pc[p] = "register"
    /\ InsertDelisted(Number(p))
    /\ overtaken' = overtaken \cup
         {ThisId(q) : q \in {r \in Requests : pc[r] \in PastCheck /\ Number(r) = Number(p)}}
    /\ Goto(p, "hide")
    /\ UNCHANGED <<numbers, suggestions, reports, job, at, locals, answer, applied, unasked>>

DelistHide(p) ==
    /\ pc[p] = "hide"
    /\ PutRow(p, Hidden(RowOf(p)))
    /\ Goto(p, "purge")
    /\ UNCHANGED <<suggestions, delisted, reports, job, at, locals, answer, history>>

DelistPurge(p) ==
    /\ pc[p] = "purge"
    /\ PurgeSuggestions(Number(p))
    /\ NextItem(p)
    /\ UNCHANGED <<numbers, delisted, reports, job, answer, history>>

-----------------------------------------------------------------------------
(* sync_federation: a registered peer sends records *)

FederationSkip(p) ==
    /\ pc[p] = "check" /\ Kind(p) = "federation"
    /\ Registered(Number(p))
    /\ NextItem(p)
    /\ UNCHANGED <<tables, job, answer, history>>

FederationCheck(p) ==
    /\ pc[p] = "check" /\ Kind(p) = "federation"
    /\ ~Registered(Number(p))
    /\ Goto(p, "merge")
    /\ UNCHANGED <<tables, job, at, locals, answer, history>>

FederationMerge(p) ==
    /\ pc[p] = "merge" /\ Kind(p) = "federation"
    /\ PutRow(p, Merged(RowOf(p), This(p).name))
    /\ Apply(p)
    /\ NextItem(p)
    /\ UNCHANGED <<suggestions, delisted, reports, job, answer, overtaken, unasked>>

(* last_synced_at: the peer is stamped exactly when its call is done. *)
FederationStamp(p) ==
    /\ pc[p] = "stamp"
    /\ Goto(p, "done")
    /\ UNCHANGED <<tables, job, at, locals, answer, history>>

-----------------------------------------------------------------------------
(* The crawler's loop over the records of a source *)

CrawlSkip(p) ==
    /\ pc[p] = "check" /\ Kind(p) = "crawl"
    /\ Registered(Number(p))
    /\ NextItem(p)
    /\ UNCHANGED <<tables, job, answer, history>>

CrawlCheck(p) ==
    /\ pc[p] = "check" /\ Kind(p) = "crawl"
    /\ ~Registered(Number(p))
    /\ Goto(p, "merge")
    /\ UNCHANGED <<tables, job, at, locals, answer, history>>

(* unwrap_or(false): a check the database fails counts as "not delisted". *)
CrawlCheckFails(p) ==
    /\ pc[p] = "check" /\ Kind(p) = "crawl"
    /\ GoUnasked(p)
    /\ Goto(p, "merge")
    /\ UNCHANGED <<tables, job, at, locals, answer, applied, overtaken>>

CrawlUpsert(p) ==
    /\ pc[p] = "merge" /\ Kind(p) = "crawl"
    /\ PutRow(p, Crawled(RowOf(p), This(p).name))
    /\ Apply(p)
    /\ NextItem(p)
    /\ UNCHANGED <<suggestions, delisted, reports, job, answer, overtaken, unasked>>

(* The result is dropped: after an error the loop takes the next record. *)
CrawlUpsertFails(p) ==
    /\ pc[p] = "merge" /\ Kind(p) = "crawl"
    /\ NextItem(p)
    /\ UNCHANGED <<tables, job, answer, history>>

-----------------------------------------------------------------------------
(* lookup_number *)

Respond(p, name, confidence) ==
    answer' = [answer EXCEPT ![p] = [name |-> name, confidence |-> confidence]]

LookupDelisted(p) ==
    /\ pc[p] = "check" /\ Kind(p) = "lookup"
    /\ Registered(Number(p))
    /\ Respond(p, NoName, 0)
    /\ NextItem(p)
    /\ UNCHANGED <<tables, job, history>>

LookupCheck(p) ==
    /\ pc[p] = "check" /\ Kind(p) = "lookup"
    /\ ~Registered(Number(p))
    /\ Goto(p, "row")
    /\ UNCHANGED <<tables, job, at, locals, answer, history>>

(* Mutated: a name on the row is not the answer yet. *)
SettledByFlag(r) == r # NoRow /\ r.private

(* The row alone decides the answer: it is private, or it carries a name. *)
Settled(r) == r # NoRow /\ (r.private \/ r.name # NoName)

LookupRow(p) ==
    LET r == RowOf(p) IN
    /\ pc[p] = "row"
    /\ Settled(r)
    /\ Respond(p, IF r.private THEN NoName ELSE r.name, r.confidence)
    /\ NextItem(p)
    /\ UNCHANGED <<tables, job, history>>

LookupNameless(p) ==
    LET r == RowOf(p) IN
    /\ pc[p] = "row"
    /\ ~Settled(r)
    /\ row' = [row EXCEPT ![p] = r]
    /\ Goto(p, "hint")
    /\ UNCHANGED <<tables, job, at, match, top, answer, history>>

(* Falls back to the leading suggestion, or to the row's own confidence. *)
LookupHint(p) ==
    /\ pc[p] = "hint"
    /\ \/ \E s \in TopSuggestions(Number(p)) : Respond(p, s.name, Level(s.votes))
       \/ /\ TopSuggestions(Number(p)) = {}
          /\ Respond(p, NoName, IF row[p] = NoRow THEN 0 ELSE row[p].confidence)
    /\ NextItem(p)
    /\ UNCHANGED <<tables, job, history>>

-----------------------------------------------------------------------------
(* A statement errs, the client goes away or the process dies. *)
Fail(p) ==
    /\ InFlight(p)
    /\ Goto(p, "failed")
    /\ UNCHANGED <<tables, job, at, locals, answer, history>>

Contribute(p) ==
    \/ ContributeSkip(p) \/ ContributeCheck(p) \/ ContributeEnsure(p)
    \/ ContributeCluster(p) \/ ContributeVote(p) \/ ContributeLead(p)
    \/ ContributeNoLead(p) \/ ContributePublish(p)

Report(p)     == ReportRead(p) \/ ReportUpsert(p) \/ ReportRecord(p)
Delist(p)     == DelistRegister(p) \/ DelistHide(p) \/ DelistPurge(p)
Federation(p) == FederationSkip(p) \/ FederationCheck(p) \/ FederationMerge(p)
                 \/ FederationStamp(p)
Crawl(p)      == CrawlSkip(p) \/ CrawlCheck(p) \/ CrawlCheckFails(p)
                 \/ CrawlUpsert(p) \/ CrawlUpsertFails(p)
Lookup(p)     == LookupDelisted(p) \/ LookupCheck(p) \/ LookupRow(p)
                 \/ LookupNameless(p) \/ LookupHint(p)

Next ==
    \E p \in Requests :
        \/ Start(p) \/ Contribute(p) \/ Report(p) \/ Delist(p)
        \/ Federation(p) \/ Crawl(p) \/ Lookup(p) \/ Fail(p)

Spec == Init /\ [][Next]_vars
-----------------------------------------------------------------------------
(* Types.  A vote count starts at one. *)
Suggestion == [id : Ids, number : Numbers, name : Names, votes : Nat \ {0}]

Top    == [name : Names, votes : Nat \ {0}]
Answer == [name : Names \cup {NoName}, confidence : 0..3]

StepsOf(kind) ==
    CASE kind = "contribute" -> {"check", "ensure", "cluster", "vote", "lead", "publish"}
      [] kind = "report"     -> {"read", "upsert", "record"}
      [] kind = "delist"     -> {"register", "hide", "purge"}
      [] kind = "federation" -> {"check", "merge", "stamp"}
      [] kind = "crawl"      -> {"check", "merge"}
      [] OTHER               -> {"check", "row", "hint"}

Steps == {"new", "done", "failed"} \cup UNION {StepsOf(kind) : kind \in OpKinds}

TablesTypeOK ==
    /\ numbers \in [Numbers -> Row \cup {NoRow}]
    /\ suggestions \subseteq Suggestion
    /\ delisted \subseteq Numbers
    /\ reports \subseteq [id : Requests, number : Numbers]

RequestsTypeOK ==
    /\ job \in [Requests -> Job \cup {NoJob}]
    /\ pc \in [Requests -> Steps]
    /\ at \in [Requests -> 1..MaxItems]
    /\ match \in [Requests -> Ids \cup {NoId}]
    /\ top \in [Requests -> Top \cup {NoTop}]
    /\ row \in [Requests -> Row \cup {NoRow}]
    /\ answer \in [Requests -> Answer]
    /\ applied \subseteq Ids
    /\ overtaken \subseteq Ids /\ unasked \subseteq Ids
    /\ \A p \in Requests : pc[p] # "new" =>
         /\ job[p] \in Job
         /\ at[p] \in 1..Len(job[p].items)
         /\ Len(job[p].items) \in Lengths(Kind(p))
         /\ job[p].items \in Seq(ItemsOf(Kind(p)))
         /\ pc[p] \in StepsOf(Kind(p)) \cup {"done", "failed"}

TypeOK == TablesTypeOK /\ RequestsTypeOK

-----------------------------------------------------------------------------
(* A published confidence is earned.  While a number is not delisted, the name
   its row shows at level c is a suggestion with at least c votes, and the
   business badge was given on three.  Six statements of four handlers write
   these columns, from votes read earlier or without looking at the votes.   *)
Backed(n, name, level) ==
    \E s \in SuggestionsFor(n) : s.name = name /\ s.votes >= level

RowBacked(n, r) ==
    /\ r.confidence > 0 => Backed(n, r.name, r.confidence)
    /\ r.verified => \E s \in SuggestionsFor(n) : s.votes >= 3

ConfidenceBacked ==
    \A n \in Numbers \ delisted :
        numbers[n] # NoRow => RowBacked(n, numbers[n])

(* No confidence without a visible name: neither a row, delisted or not, nor a
   lookup that read the row and the suggestions at different times, vouches
   for a name it does not show.                                             *)
NoConfidenceWithoutName ==
    /\ \A n \in Numbers :
         numbers[n] # NoRow /\ numbers[n].confidence > 0 =>
             numbers[n].name # NoName /\ ~numbers[n].private
    /\ \A p \in Requests : answer[p].confidence > 0 => answer[p].name # NoName

(* What a lookup answered stays earned: its name at level c is a suggestion
   with at least c votes, though the table moved on between its reads.      *)
AnswerBacked ==
    \A p \in Requests :
        /\ pc[p] = "done" /\ Number(p) \notin delisted
        /\ answer[p].confidence > 0
        => Backed(Number(p), answer[p].name, answer[p].confidence)

(* What a handler carries from one statement to the next still holds when it
   is used.  The leading name read before the publishing UPDATE has not lost
   votes, unless the number was delisted meanwhile; a delist hides and purges
   only what is already registered; a lookup that falls back to the
   suggestions read a row with no confidence of its own, and answers last.  *)
DelistedFirst ==
    \A p \in Requests : pc[p] \in {"hide", "purge"} => Number(p) \in delisted

LeadIsEarned ==
    \A p \in Requests : pc[p] = "publish" =>
        /\ top[p] # NoTop
        /\ Number(p) \notin delisted => Backed(Number(p), top[p].name, top[p].votes)

HintIsNameless ==
    \A p \in Requests : pc[p] = "hint" => row[p] = NoRow \/ row[p].confidence = 0

AnswerIsFinal ==
    \A p \in Requests : answer[p].confidence > 0 => pc[p] = "done"

CarriedReadsHold == DelistedFirst /\ LeadIsEarned /\ HintIsNameless /\ AnswerIsFinal

(* Every contribution's vote counts once: two handlers that both find no
   cluster and both insert the same name still leave two votes.             *)
Subject(id) == job[id[1]].items[id[2]].number

Ballots(n) ==
    {b \in applied : Kind(b[1]) = "contribute" /\ Subject(b) = n}

TotalVotes(S) == MapThenSumSet(LAMBDA s : s.votes, S)

VotesAccounted ==
    \A n \in Numbers \ delisted :
        TotalVotes(SuggestionsFor(n)) = Cardinality(Ballots(n))

(* The report count may lose concurrent reports, but never counts more than
   the reports, crawled records and peer items that were written.           *)
Ingests(n) ==
    {b \in applied : Kind(b[1]) # "contribute" /\ Subject(b) = n}

ReportCountNeverInflated ==
    \A n \in Numbers :
        numbers[n] # NoRow => numbers[n].reports <= Cardinality(Ingests(n))

(* A suggestion or a report row always has its row in numbers, so the foreign
   keys never fail a handler half way.                                      *)
ForeignKeysHold ==
    \A r \in suggestions \cup reports : numbers[r.number] # NoRow

(* Delisting leaves only what was already under way.  Once a delist call is
   answered, each suggestion for the number is of a contact that was past its
   check when the number entered the registry.  A row that is public was
   touched by such an item, or by one of the two that go on without the
   registry's answer after that: a report, which does not ask (report.rs), and
   a crawled record whose check the database failed (crawler main.rs).  Both
   are gaps of the code, named here and not excused: nothing else, and no
   earlier report, leaves data.  This is what writing the registry before
   hiding and purging buys.                                                 *)
Acknowledged(n) ==
    \E p \in Requests : Kind(p) = "delist" /\ pc[p] = "done" /\ Number(p) = n

OfKind(S, kind, n) == \E b \in S : Kind(b[1]) = kind /\ Subject(b) = n

LateReport(n)     == OfKind(unasked, "report", n)
UncheckedCrawl(n) == OfKind(unasked, "crawl", n)
OvertakenItem(n)  == \E b \in overtaken : Subject(b) = n

OnlyOvertakenDataRemains ==
    \A n \in Numbers : Acknowledged(n) =>
        /\ \A s \in SuggestionsFor(n) : s.id \in overtaken
        /\ numbers[n] # NoRow /\ ~numbers[n].private =>
             OvertakenItem(n) \/ LateReport(n) \/ UncheckedCrawl(n)

(* A row once private stays private, is never given a confidence, and gets a
   stored name back only from a report, the one write that does not look at
   the flag.                                                                *)
PrivateStep(n) ==
    /\ numbers'[n].private
    /\ numbers'[n].confidence <= numbers[n].confidence
    /\ \/ numbers'[n].name \in {numbers[n].name, NoName}
       \/ \E p \in Requests :
            pc[p] = "upsert" /\ pc'[p] = "record" /\ Number(p) = n

PrivacyIsPermanent ==
    [][\A n \in Numbers :
         numbers[n] # NoRow /\ numbers[n].private => PrivateStep(n)]_vars

-----------------------------------------------------------------------------
(* Statements of the repository's documents that the code does not keep. *)

(* README, Right to be Forgotten: a delisted number is "permanently
   blacklisted from re-ingestion", so no feed carries a name for it again.  *)
NeverReingested ==
    \A n \in Numbers : Acknowledged(n) => DeltaName(n) = NoName

(* README, graduated confidence: the community-verified level is given on
   "3+ Contributors".                                                       *)
Contributors(n) == {job[p].user : p \in {b[1] : b \in Ballots(n)}}

VerifiedByThree ==
    \A n \in Numbers \ delisted :
        numbers[n] # NoRow /\ numbers[n].confidence = 3 =>
            Cardinality(Contributors(n)) >= 3
=============================================================================

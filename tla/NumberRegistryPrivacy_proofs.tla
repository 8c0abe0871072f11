-------------------- MODULE NumberRegistryPrivacy_proofs --------------------
(* What becomes of a number's data, for every number of requests, numbers and
   names: PrivacyIsPermanent, ForeignKeysHold, OnlyOvertakenDataRemains,
   ReportCountNeverInflated and VotesAccounted.                              *)
EXTENDS NumberRegistry_proofs, FiniteSetTheorems, WellFoundedInduction

(* A step of p. *)
Act(p) == \/ Start(p) \/ Contribute(p) \/ Report(p) \/ Delist(p)
          \/ Federation(p) \/ Crawl(p) \/ Lookup(p) \/ Fail(p)

(* The statements that write a row of numbers, each with where it is run. *)
Write(p, new) ==
    \/ pc[p] = "ensure" /\ new = Ensured(RowOf(p))
    \/ /\ pc[p] = "publish"
       /\ \E name \in Names, votes \in Nat \ {0}, business \in BOOLEAN :
            new = Published(RowOf(p), name, votes, business)
    \/ /\ pc[p] = "upsert" /\ pc'[p] = "record" /\ applied' = applied \cup {ThisId(p)}
       /\ GoUnasked(p)
       /\ \E name \in Names \cup {NoName} :
            new = Reported(RowOf(p), name,
                           (IF row[p] = NoRow THEN BlankRow ELSE row[p]).reports + 1)
    \/ /\ pc[p] = "merge" /\ applied' = applied \cup {ThisId(p)}
       /\ \E name \in Names \cup {NoName} :
            new = Merged(RowOf(p), name) \/ new = Crawled(RowOf(p), name)
    \/ pc[p] = "hide" /\ pc'[p] = "purge" /\ new = Hidden(RowOf(p))

Writes(p, new) == PutRow(p, new) /\ Write(p, new) /\ job' = job

(* Every step leaves numbers alone or is one such statement. *)
LEMMA NumbersMove ==
    ASSUME EarnedInv, NEW p \in Requests, Act(p)
    PROVE  UNCHANGED numbers \/ \E new : Writes(p, new)
<1> USE DEF tables, locals, history
<1>0. TypeOK /\ CarriedBy(p)
  BY EarnedParts
<1>1. CASE Start(p) \/ Lookup(p) \/ Fail(p)
  BY <1>1 DEF Start, Lookup, LookupDelisted, LookupCheck, LookupRow, LookupNameless,
              LookupHint, Fail
<1>2. CASE Contribute(p)
  <2>1. CASE ContributeEnsure(p)
    BY <2>1 DEF ContributeEnsure, Writes, Write
  <2>2. CASE ContributePublish(p)
    <3>1. top[p] \in Top /\ pc[p] = "publish"
      BY <1>0, <2>2 DEF ContributePublish, CarriedBy, TypeOK, RequestsTypeOK
    <3>2. top[p].name \in Names /\ top[p].votes \in Nat \ {0} /\ This(p).business \in BOOLEAN
      BY <1>0, <3>1, CurrentItem DEF Top, TypeOK
    <3> QED BY <2>2, <3>1, <3>2 DEF ContributePublish, Writes, Write
  <2> QED
    BY <1>2, <2>1, <2>2
    DEF Contribute, ContributeSkip, ContributeCheck, ContributeCluster, ContributeVote,
        ContributeLead, ContributeNoLead
<1>3. CASE Report(p)
  <2>1. CASE ReportUpsert(p)
    <3> DEFINE known == IF row[p] = NoRow THEN BlankRow ELSE row[p]
    <3>1. pc[p] = "upsert" /\ pc'[p] = "record"
      BY <1>0, <2>1, GotoMovesOne DEF ReportUpsert
    <3>2. known \in Row /\ This(p).name \in Names \cup {NoName}
      BY <1>0, <3>1, RowTypes, CurrentItem DEF TypeOK, RequestsTypeOK
    <3>3. Coalesce(This(p).name, known.name) \in Names \cup {NoName}
      BY <3>2, RowTypes DEF Row
    <3>4. /\ PutRow(p, Reported(RowOf(p), Coalesce(This(p).name, known.name), known.reports + 1))
          /\ applied' = applied \cup {ThisId(p)} /\ GoUnasked(p) /\ job' = job
      BY <2>1 DEF ReportUpsert, Apply
    <3> HIDE DEF known
    <3>5. Write(p, Reported(RowOf(p), Coalesce(This(p).name, known.name), known.reports + 1))
      BY <3>1, <3>3, <3>4 DEF Write, known
    <3> QED BY <3>4, <3>5 DEF Writes
  <2> QED BY <1>3, <2>1 DEF Report, ReportRead, ReportRecord
<1>4. CASE Delist(p)
  <2>1. CASE DelistHide(p)
    BY <1>0, <2>1, GotoMovesOne DEF DelistHide, Writes, Write
  <2> QED BY <1>4, <2>1 DEF Delist, DelistRegister, DelistPurge
<1>5. CASE FederationMerge(p) \/ CrawlUpsert(p)
  <2>1. pc[p] = "merge" /\ This(p).name \in Names \cup {NoName}
    BY <1>0, <1>5, CurrentItem DEF FederationMerge, CrawlUpsert, TypeOK
  <2> QED BY <1>5, <2>1 DEF FederationMerge, CrawlUpsert, Writes, Write, Apply
<1>6. CASE (Federation(p) /\ ~FederationMerge(p)) \/ (Crawl(p) /\ ~CrawlUpsert(p))
  BY <1>6 DEF Federation, FederationSkip, FederationCheck, FederationStamp,
              Crawl, CrawlSkip, CrawlCheck, CrawlCheckFails, CrawlUpsertFails
<1> QED BY <1>1, <1>2, <1>3, <1>4, <1>5, <1>6 DEF Act

(* A write changes the row of p's number, and no other. *)
LEMMA WriteIsLocal ==
    ASSUME TypeOK, NEW p \in Requests, NEW new, Writes(p, new)
    PROVE  /\ pc[p] # "new" /\ Number(p) \in Numbers
           /\ RowOf(p) \in Row \cup {NoRow}
           /\ numbers'[Number(p)] = new
           /\ \A n \in Numbers \ {Number(p)} : numbers'[n] = numbers[n]
<1>1. pc[p] # "new"
  BY DEF Writes, Write
<1>2. Number(p) \in Numbers
  BY <1>1, CurrentItem DEF TypeOK
<1> QED BY <1>1, <1>2 DEF Writes, PutRow, RowOf, TypeOK, TablesTypeOK

(* What a statement makes of a row that exists: a row again.  A private row
   stays private, gains no confidence, and only a report puts a name in it.  *)
LEMMA StatementsKeepRow ==
    ASSUME NEW r \in Row, NEW name \in Names \cup {NoName}, NEW count \in Nat,
           NEW business \in BOOLEAN
    PROVE  /\ Published(r, name, count, business) \in Row
           /\ Reported(r, name, count) \in Row
           /\ Merged(r, name) \in Row
           /\ Crawled(r, name) \in Row
           /\ Hidden(r) \in Row
           /\ Ensured(r) = r
           /\ r.private => /\ Published(r, name, count, business) = r
                          /\ Merged(r, name) = r
                          /\ Crawled(r, name) = r
                          /\ Reported(r, name, count).private
                          /\ Reported(r, name, count).confidence = r.confidence
           /\ Hidden(r).private /\ Hidden(r).confidence = 0 /\ Hidden(r).name = NoName
<1>1. r # NoRow
  BY RowTypes
<1>2. Hidden(r) = [r EXCEPT !.name = NoName, !.private = TRUE, !.confidence = 0]
  BY <1>1 DEF Hidden
<1>3. Hidden(r).private /\ Hidden(r).confidence = 0 /\ Hidden(r).name = NoName
  BY <1>2, Zenon DEF Row
<1>4. Hidden(r) \in Row
  <2>1. \A m \in Names \cup {NoName} : \A b \in BOOLEAN : \A c \in 0..3 :
          [r EXCEPT !.name = m, !.private = b, !.confidence = c] \in Row
    BY DEF Row
  <2>2. NoName \in Names \cup {NoName} /\ TRUE \in BOOLEAN /\ 0 \in 0..3
    OBVIOUS
  <2> QED BY <1>2, <2>1, <2>2
<1>5. Published(r, name, count, business) \in Row
  <2> DEFINE v == r.verified \/ (business /\ count >= 3)
  <2>1. v \in BOOLEAN /\ Level(count) \in 0..3
    BY RowTypes
  <2>2. Published(r, name, count, business) =
          IF r.private THEN r ELSE [r EXCEPT !.name = name, !.confidence = Level(count), !.verified = v]
    BY <1>1 DEF Published
  <2> HIDE DEF v
  <2>3. [r EXCEPT !.name = name, !.confidence = Level(count), !.verified = v] \in Row
    BY <2>1 DEF Row
  <2> QED BY <2>2, <2>3
<1>6. r.private => Reported(r, name, count).private /\ Reported(r, name, count).confidence = r.confidence
  BY <1>1 DEF Reported, Row
<1>7. /\ Reported(r, name, count) \in Row
      /\ Merged(r, name) \in Row
      /\ Crawled(r, name) \in Row
  BY RowStatements
<1>8. r.private => /\ Published(r, name, count, business) = r
                   /\ Merged(r, name) = r
                   /\ Crawled(r, name) = r
  BY <1>1 DEF Published, Merged, Crawled
<1>9. Ensured(r) = r
  BY <1>1 DEF Ensured
<1> QED BY <1>3, <1>4, <1>5, <1>6, <1>7, <1>8, <1>9

(* No statement deletes a row or publishes what is private. *)
LEMMA RowsStay ==
    ASSUME EarnedInv, NEW p \in Requests, Act(p), NEW n \in Numbers, numbers[n] # NoRow
    PROVE  /\ numbers'[n] # NoRow
           /\ numbers[n].private => PrivateStep(n)
<1>1. TypeOK
  BY EarnedParts
<1> DEFINE r == numbers[n]
<1>2. r \in Row
  BY <1>1 DEF TypeOK, TablesTypeOK
<1>3. CASE numbers'[n] = numbers[n]
  BY <1>2, <1>3 DEF PrivateStep, Row
<1>4. ASSUME NEW new, Writes(p, new), n = Number(p)
      PROVE  numbers'[n] # NoRow /\ (r.private => PrivateStep(n))
  <2>1. numbers'[n] = new /\ Write(p, new) /\ RowOf(p) = r
    BY <1>1, <1>4, WriteIsLocal DEF Writes, RowOf
  <2>2. r.confidence \in 0..3 /\ r # NoRow
    BY <1>2 DEF Row
  <2>3. \A x \in Row : x # NoRow
    BY RowTypes
  <2> HIDE DEF r
  <2>4. CASE new = Ensured(r)
    BY <1>2, <2>1, <2>2, <2>4 DEF Ensured, PrivateStep, r
  <2>5. CASE \E name \in Names, votes \in Nat \ {0}, business \in BOOLEAN :
               new = Published(r, name, votes, business)
    <3>1. new \in Row /\ (r.private => new = r)
      BY <1>2, <2>5, StatementsKeepRow
    <3> QED BY <2>1, <2>2, <2>3, <3>1 DEF PrivateStep, r
  <2>6. CASE /\ pc[p] = "upsert" /\ pc'[p] = "record"
             /\ \E name \in Names \cup {NoName} :
                  new = Reported(r, name,
                                 (IF row[p] = NoRow THEN BlankRow ELSE row[p]).reports + 1)
    <3>1. (IF row[p] = NoRow THEN BlankRow ELSE row[p]).reports + 1 \in Nat
      <4>1. (IF row[p] = NoRow THEN BlankRow ELSE row[p]) \in Row
        BY <1>1, RowTypes DEF TypeOK, RequestsTypeOK
      <4>2. \A x \in Row : x.reports + 1 \in Nat
        BY DEF Row
      <4> QED BY <4>1, <4>2
    <3>2. /\ new \in Row
          /\ r.private => new.private /\ new.confidence = r.confidence
      <4> DEFINE k == (IF row[p] = NoRow THEN BlankRow ELSE row[p]).reports + 1
      <4>1. PICK name \in Names \cup {NoName} : new = Reported(r, name, k)
        BY <2>6
      <4> HIDE DEF k
      <4>2. k \in Nat
        BY <3>1 DEF k
      <4> QED BY <1>2, <4>1, <4>2, TRUE \in BOOLEAN, StatementsKeepRow
    <3> QED BY <1>4, <2>1, <2>2, <2>3, <2>6, <3>2 DEF PrivateStep, r
  <2>7. CASE \E name \in Names \cup {NoName} : new = Merged(r, name) \/ new = Crawled(r, name)
    <3>1. new \in Row /\ (r.private => new = r)
      BY <1>2, <2>7, 0 \in Nat, TRUE \in BOOLEAN, StatementsKeepRow
    <3> QED BY <2>1, <2>2, <2>3, <3>1 DEF PrivateStep, r
  <2>8. CASE new = Hidden(r)
    <3>1. new \in Row /\ new.private /\ new.confidence = 0 /\ new.name = NoName
      BY <1>2, <2>8, 0 \in Nat, TRUE \in BOOLEAN, NoName \in Names \cup {NoName},
         StatementsKeepRow
    <3> QED BY <2>1, <2>2, <2>3, <3>1 DEF PrivateStep, r
  <2> QED BY <2>1, <2>4, <2>5, <2>6, <2>7, <2>8 DEF Write
<1> QED BY <1>1, <1>3, <1>4, NumbersMove, WriteIsLocal

(* PrivacyIsPermanent: once private, a row stays private and claims nothing
   new, whatever handlers were under way.                                    *)
THEOREM PrivacyStays == Spec => PrivacyIsPermanent
<1>1. EarnedInv /\ [Next]_vars =>
        [\A n \in Numbers : numbers[n] # NoRow /\ numbers[n].private => PrivateStep(n)]_vars
  BY RowsStay DEF Next, Act
<1> QED BY <1>1, EarnedAlways, PTL DEF Spec, PrivacyIsPermanent
-----------------------------------------------------------------------------
(* ForeignKeysHold needs what a handler has done before it inserts. *)
HasRow(q) == pc[q] \in {"cluster", "vote", "record"} => RowOf(q) # NoRow

KeysInv == ForeignKeysHold /\ \A q \in Requests : HasRow(q)

(* A suggestion after a step is an old one, with more votes at most, or the one
   p inserts; a report row is an old one or the one p inserts.               *)
LEMMA RowsInserted ==
    ASSUME TypeOK, NEW p \in Requests, Act(p)
    PROVE  /\ \A s \in suggestions' :
                \/ \E t \in suggestions : t.id = s.id /\ t.number = s.number
                \/ pc[p] = "vote" /\ s.id = ThisId(p) /\ s.number = Number(p)
           /\ \A r \in reports' :
                \/ r \in reports
                \/ pc[p] = "record" /\ r.number = Number(p)
<1> USE DEF tables, locals, history
<1>1. CASE ContributeVote(p)
  <2>1. \A chosen : \A s \in Increment(chosen) :
          \E t \in suggestions : t.id = s.id /\ t.number = s.number
    BY DEF TypeOK, TablesTypeOK, Suggestion, Increment
  <2>2. reports' = reports /\ pc[p] = "vote"
    BY <1>1 DEF ContributeVote
  <2>3. CASE VoteForCluster(match[p])
    BY <2>1, <2>2, <2>3 DEF VoteForCluster
  <2>4. CASE InsertSuggestion(ThisId(p), Number(p), This(p).name)
    BY <2>1, <2>2, <2>4 DEF InsertSuggestion
  <2> QED BY <1>1, <2>3, <2>4 DEF ContributeVote
<1>2. CASE Contribute(p) /\ ~ContributeVote(p)
  BY <1>2 DEF Contribute, ContributeSkip, ContributeCheck, ContributeEnsure, ContributeCluster,
              ContributeLead, ContributeNoLead, ContributePublish
<1>3. CASE Report(p)
  BY <1>3 DEF Report, ReportRead, ReportUpsert, ReportRecord, InsertReport
<1>4. CASE Delist(p)
  BY <1>4 DEF Delist, DelistRegister, DelistHide, DelistPurge, PurgeSuggestions
<1>5. CASE Start(p) \/ Fail(p) \/ Lookup(p)
  BY <1>5 DEF Start, Fail, Lookup, LookupDelisted, LookupCheck, LookupRow, LookupNameless,
              LookupHint
<1>6. CASE Federation(p) \/ Crawl(p)
  BY <1>6 DEF Federation, FederationSkip, FederationCheck, FederationMerge, FederationStamp,
              Crawl, CrawlSkip, CrawlCheck, CrawlCheckFails, CrawlUpsert, CrawlUpsertFails
<1> QED BY <1>1, <1>2, <1>3, <1>4, <1>5, <1>6 DEF Act

(* A step moves one request; only a new request gets a job. *)
LEMMA OneMoves ==
    ASSUME TypeOK, NEW p \in Requests, Act(p)
    PROVE  /\ \A q \in Requests \ {p} :
                /\ pc'[q] = pc[q] /\ at'[q] = at[q] /\ job'[q] = job[q] /\ row'[q] = row[q]
                /\ Number(q)' = Number(q) /\ Kind(q)' = Kind(q)
           /\ pc[p] # "new" => job' = job
           /\ pc[p] \notin {"done", "failed"}
<1> USE DEF tables, locals, history
<1>1. \/ Start(p)
      \/ /\ \A q \in Requests \ {p} : pc'[q] = pc[q] /\ at'[q] = at[q] /\ row'[q] = row[q]
         /\ job' = job /\ pc[p] \notin {"done", "failed"}
  <2>1. CASE Contribute(p)
    BY <2>1, GotoMovesOne, NextItemMovesOne
    DEF Contribute, ContributeSkip, ContributeCheck, ContributeEnsure, ContributeCluster,
        ContributeVote, ContributeLead, ContributeNoLead, ContributePublish
  <2>2. CASE Report(p)
    BY <2>2, GotoMovesOne, NextItemMovesOne
    DEF Report, ReportRead, ReportUpsert, ReportRecord, TypeOK, RequestsTypeOK
  <2>3. CASE Delist(p)
    BY <2>3, GotoMovesOne, NextItemMovesOne DEF Delist, DelistRegister, DelistHide, DelistPurge
  <2>4. CASE Federation(p)
    BY <2>4, GotoMovesOne, NextItemMovesOne
    DEF Federation, FederationSkip, FederationCheck, FederationMerge, FederationStamp
  <2>5. CASE Crawl(p)
    BY <2>5, GotoMovesOne, NextItemMovesOne
    DEF Crawl, CrawlSkip, CrawlCheck, CrawlCheckFails, CrawlUpsert, CrawlUpsertFails
  <2>6. CASE Lookup(p)
    BY <2>6, GotoMovesOne, NextItemMovesOne
    DEF Lookup, LookupDelisted, LookupCheck, LookupRow, LookupNameless, LookupHint, TypeOK,
        RequestsTypeOK
  <2>7. CASE Fail(p)
    BY <2>7, GotoMovesOne DEF Fail, InFlight
  <2> QED BY <2>1, <2>2, <2>3, <2>4, <2>5, <2>6, <2>7 DEF Act
<1>2. CASE Start(p)
  <2>1. pc[p] = "new" /\ (\E step : Goto(p, step)) /\ UNCHANGED row
    BY <1>2 DEF Start, Goto
  <2>2. \A q \in Requests \ {p} : at'[q] = at[q] /\ job'[q] = job[q] /\ pc'[q] = pc[q]
    BY <1>2, <2>1, GotoMovesOne DEF Start, TypeOK, RequestsTypeOK
  <2> QED BY <2>1, <2>2 DEF Number, This, Kind
<1> QED BY <1>1, <1>2 DEF Number, This, Kind

(* Where a handler goes when it takes the next item, and where a call starts. *)
Openings == {"check", "read", "register", "stamp", "done"}

LEMMA NextItemOpens ==
    ASSUME TypeOK, NEW p \in Requests, NextItem(p)
    PROVE  pc'[p] \in Openings
<1>1. \A kind : First(kind) \in Openings
  BY DEF First, Openings
<1>2. PICK step \in Openings : Goto(p, step)
  BY <1>1 DEF NextItem, Openings
<1> QED BY <1>2, GotoMovesOne

(* How p got past its check: by a check that failed to stop it, or from a
   statement before, for the same item.                                      *)
LEMMA PathsIn ==
    ASSUME TypeOK, NEW p \in Requests, Act(p),
           pc'[p] \notin Openings \cup {"failed", "row", "hint"}
    PROVE  /\ job' = job /\ at' = at /\ pc[p] # "new" /\ Number(p)' = Number(p)
           /\ \/ ContributeEnsure(p) /\ pc'[p] = "cluster"
              \/ ContributeCluster(p) /\ pc'[p] = "vote"
              \/ ContributeVote(p) /\ pc'[p] = "lead"
              \/ ContributeLead(p) /\ pc'[p] = "publish"
              \/ ContributeCheck(p) /\ pc'[p] = "ensure"
              \/ (FederationCheck(p) \/ CrawlCheck(p) \/ CrawlCheckFails(p)) /\ pc'[p] = "merge"
              \/ ReportRead(p) /\ pc'[p] = "upsert"
              \/ ReportUpsert(p) /\ pc'[p] = "record"
              \/ DelistRegister(p) /\ pc'[p] = "hide"
              \/ DelistHide(p) /\ pc'[p] = "purge"
<1> USE DEF tables, locals, history
<1>0. ~NextItem(p)
  BY NextItemOpens
<1>1. CASE Contribute(p)
  BY <1>0, <1>1, GotoMovesOne
  DEF Contribute, ContributeSkip, ContributeCheck, ContributeEnsure, ContributeCluster,
      ContributeVote, ContributeLead, ContributeNoLead, ContributePublish, Number, This
<1>2. CASE Report(p)
  BY <1>0, <1>2, GotoMovesOne DEF Report, ReportRead, ReportUpsert, ReportRecord, Number, This
<1>3. CASE Delist(p)
  BY <1>0, <1>3, GotoMovesOne DEF Delist, DelistRegister, DelistHide, DelistPurge, Number, This
<1>4. CASE Federation(p)
  BY <1>0, <1>4, GotoMovesOne
  DEF Federation, FederationSkip, FederationCheck, FederationMerge, FederationStamp, Openings,
      Number, This
<1>5. CASE Crawl(p)
  BY <1>0, <1>5, GotoMovesOne
  DEF Crawl, CrawlSkip, CrawlCheck, CrawlCheckFails, CrawlUpsert, CrawlUpsertFails, Number, This
<1>6. CASE Lookup(p)
  BY <1>0, <1>6, GotoMovesOne
  DEF Lookup, LookupDelisted, LookupCheck, LookupRow, LookupNameless, LookupHint
<1>7. CASE Start(p)
  <2>1. \E kind : Goto(p, First(kind))
    BY <1>7 DEF Start, Goto
  <2>2. \A kind : First(kind) \in Openings
    BY DEF First, Openings
  <2> QED BY <2>1, <2>2, GotoMovesOne
<1>8. CASE Fail(p)
  BY <1>8, GotoMovesOne DEF Fail
<1> QED BY <1>1, <1>2, <1>3, <1>4, <1>5, <1>6, <1>7, <1>8 DEF Act

LEMMA KeysStep ==
    ASSUME EarnedInv, KeysInv, NEW p \in Requests, Act(p)
    PROVE  KeysInv'
<1> USE DEF tables, locals, history
<1>0. TypeOK
  BY EarnedParts
<1>1. \A n \in Numbers : numbers[n] # NoRow => numbers'[n] # NoRow
  BY RowsStay
<1>2. /\ \A s \in suggestions : s.number \in Numbers /\ numbers[s.number] # NoRow
      /\ \A r \in reports : r.number \in Numbers /\ numbers[r.number] # NoRow
  BY <1>0 DEF TypeOK, TablesTypeOK, Suggestion, KeysInv, ForeignKeysHold
<1>3. ASSUME NEW s \in suggestions' \cup reports'
      PROVE  numbers'[s.number] # NoRow
  <2>1. CASE /\ pc[p] \in {"vote", "record"} /\ s.number = Number(p)
    <3>1. Number(p) \in Numbers /\ numbers[Number(p)] # NoRow
      BY <1>0, <2>1, CurrentItem DEF TypeOK, KeysInv, HasRow, RowOf
    <3> QED BY <1>1, <2>1, <3>1
  <2>2. CASE \E t \in suggestions \cup reports : t.number = s.number
    BY <1>1, <1>2, <2>2
  <2> QED BY <1>0, <2>1, <2>2, RowsInserted
<1>4. ASSUME NEW q \in Requests PROVE HasRow(q)'
  <2> SUFFICES ASSUME pc'[q] \in {"cluster", "vote", "record"} PROVE RowOf(q)' # NoRow
    BY DEF HasRow
  <2>1. CASE q # p
    <3>1. pc[q] \in {"cluster", "vote", "record"} /\ Number(q)' = Number(q)
      BY <1>0, <2>1, OneMoves
    <3>2. Number(q) \in Numbers /\ numbers[Number(q)] # NoRow
      BY <1>0, <3>1, CurrentItem DEF TypeOK, KeysInv, HasRow, RowOf
    <3> QED BY <1>1, <3>1, <3>2 DEF RowOf
  <2>2. CASE q = p
    <3>1. /\ pc[p] # "new" /\ Number(p)' = Number(p) /\ Number(p) \in Numbers
          /\ ContributeEnsure(p) \/ ContributeCluster(p) \/ ReportUpsert(p)
      BY <1>0, <2>2, PathsIn, CurrentItem DEF Openings, TypeOK
    <3>2. CASE ContributeCluster(p)
      BY <1>1, <2>2, <3>1, <3>2 DEF ContributeCluster, KeysInv, HasRow, RowOf
    <3>3. CASE ContributeEnsure(p)
      <4>1. numbers'[Number(p)] = Ensured(RowOf(p)) /\ RowOf(p) \in Row \cup {NoRow}
        BY <1>0, <3>1, <3>3 DEF ContributeEnsure, PutRow, TypeOK, TablesTypeOK, RowOf
      <4>2. Ensured(RowOf(p)) # NoRow
        BY <4>1, RowTypes DEF Ensured
      <4> QED BY <2>2, <3>1, <4>1, <4>2 DEF RowOf
    <3>4. CASE ReportUpsert(p)
      <4> DEFINE known == IF row[p] = NoRow THEN BlankRow ELSE row[p]
                 name  == Coalesce(This(p).name, known.name)
                 count == known.reports + 1
      <4>1. known \in Row /\ This(p).name \in Names \cup {NoName}
        BY <1>0, <3>1, RowTypes, CurrentItem DEF TypeOK, RequestsTypeOK
      <4>2. known.name \in Names \cup {NoName} /\ known.reports \in Nat
        <5> HIDE DEF known
        <5> QED BY <4>1 DEF Row
      <4>3. name \in Names \cup {NoName} /\ count \in Nat
        BY <4>1, <4>2, RowTypes
      <4>4. /\ numbers'[Number(p)] = Reported(RowOf(p), name, count)
            /\ RowOf(p) \in Row \cup {NoRow}
        BY <1>0, <3>1, <3>4 DEF ReportUpsert, PutRow, TypeOK, TablesTypeOK, RowOf
      <4> HIDE DEF known, name, count
      <4>5. Reported(RowOf(p), name, count) \in Row
        BY <4>3, <4>4, TRUE \in BOOLEAN, RowStatements
      <4> QED BY <2>2, <3>1, <4>4, <4>5, RowTypes DEF RowOf
    <3> QED BY <3>1, <3>2, <3>3, <3>4
  <2> QED BY <2>1, <2>2
<1> QED BY <1>3, <1>4 DEF KeysInv, ForeignKeysHold

(* ForeignKeysHold: no suggestion and no report is without its number's row,
   so no handler is failed half way by a foreign key.                        *)
THEOREM ForeignKeysAlwaysHold == Spec => []ForeignKeysHold
<1>1. Init => KeysInv
  BY DEF Init, TablesInit, KeysInv, ForeignKeysHold, HasRow
<1>2. EarnedInv /\ KeysInv /\ [Next]_vars => KeysInv'
  <2>1. EarnedInv /\ KeysInv /\ UNCHANGED vars => KeysInv'
    BY DEF vars, tables, locals, history, KeysInv, ForeignKeysHold, HasRow, RowOf, Number, This
  <2> QED BY <2>1, KeysStep DEF Next, Act
<1>3. KeysInv => ForeignKeysHold
  BY DEF KeysInv
<1> QED BY <1>1, <1>2, <1>3, EarnedAlways, PTL DEF Spec

-----------------------------------------------------------------------------
(* OnlyOvertakenDataRemains needs, besides: an item past its check for a
   number that is now delisted was overtaken, or is a crawled record whose
   check failed; a delist that went on past the registry is registered; and
   what a hidden row has become public by.                                   *)
Touched(n) == OvertakenItem(n) \/ LateReport(n) \/ UncheckedCrawl(n)

Public(n) == numbers[n] # NoRow /\ ~numbers[n].private

Begun == \A b \in applied \cup overtaken \cup unasked : pc[b[1]] # "new"

Known(q) == ThisId(q) \in overtaken \/ (ThisId(q) \in unasked /\ Kind(q) = "crawl")

Residue(q) ==
    /\ pc[q] \in PastCheck /\ Number(q) \in delisted => Known(q)
    /\ Kind(q) = "delist" =>
         /\ pc[q] \in {"hide", "purge", "done"} => Number(q) \in delisted
         /\ pc[q] \in {"purge", "done"} /\ Public(Number(q)) => Touched(Number(q))
         /\ pc[q] = "done" => \A s \in SuggestionsFor(Number(q)) : s.id \in overtaken

ResidueInv == Begun /\ \A q \in Requests : Residue(q)

(* The histories and the registry only grow: by the item p is at, and by the
   items past their check for a number as it enters the registry.            *)
LEMMA HistoriesGrow ==
    ASSUME TypeOK, NEW p \in Requests, Act(p)
    PROVE  /\ applied \subseteq applied' /\ overtaken \subseteq overtaken'
           /\ unasked \subseteq unasked'
           /\ applied' # applied => pc[p] # "new" /\ applied' = applied \cup {ThisId(p)}
           /\ unasked' # unasked => pc[p] # "new" /\ unasked' = unasked \cup {ThisId(p)}
           /\ \A b \in overtaken' \ overtaken :
                \E q \in Requests : pc[q] # "new" /\ b = ThisId(q)
           /\ delisted \subseteq delisted'
           /\ delisted' # delisted =>
                /\ delisted' = delisted \cup {Number(p)} /\ pc[p] = "register"
                /\ \A q \in Requests :
                     pc[q] \in PastCheck /\ Number(q) = Number(p) => ThisId(q) \in overtaken'
           /\ \A q \in Requests : pc[q] # "new" => pc'[q] # "new"
<1> USE DEF tables, locals, history
<1>0. NextItem(p) => pc'[p] # "new"
  BY NextItemOpens DEF Openings
<1>1. CASE Contribute(p)
  BY <1>0, <1>1, GotoMovesOne, NextItemMovesOne
  DEF Contribute, ContributeSkip, ContributeCheck, ContributeEnsure, ContributeCluster,
      ContributeVote, ContributeLead, ContributeNoLead, ContributePublish, Apply
<1>2. CASE Report(p)
  BY <1>0, <1>2, GotoMovesOne, NextItemMovesOne
  DEF Report, ReportRead, ReportUpsert, ReportRecord, Apply, GoUnasked
<1>3. CASE Delist(p)
  <2>1. CASE DelistRegister(p)
    BY <2>1, GotoMovesOne DEF DelistRegister, InsertDelisted, PastCheck
  <2> QED BY <1>0, <1>3, <2>1, GotoMovesOne, NextItemMovesOne DEF Delist, DelistHide, DelistPurge
<1>4. CASE Federation(p)
  BY <1>0, <1>4, GotoMovesOne, NextItemMovesOne
  DEF Federation, FederationSkip, FederationCheck, FederationMerge, FederationStamp, Apply
<1>5. CASE Crawl(p)
  <2>1. CASE CrawlCheckFails(p)
    BY <2>1, GotoMovesOne DEF CrawlCheckFails, GoUnasked
  <2> QED
    BY <1>0, <1>5, <2>1, GotoMovesOne, NextItemMovesOne
    DEF Crawl, CrawlSkip, CrawlCheck, CrawlUpsert, CrawlUpsertFails, Apply
<1>6. CASE Lookup(p)
  BY <1>0, <1>6, GotoMovesOne, NextItemMovesOne
  DEF Lookup, LookupDelisted, LookupCheck, LookupRow, LookupNameless, LookupHint
<1>7. CASE Start(p)
  <2>1. pc[p] = "new" /\ \E step : Goto(p, step)
    BY <1>7 DEF Start, Goto
  <2> QED BY <1>7, <2>1, GotoMovesOne DEF Start
<1>8. CASE Fail(p)
  BY <1>8, GotoMovesOne DEF Fail
<1> QED BY <1>1, <1>2, <1>3, <1>4, <1>5, <1>6, <1>7, <1>8 DEF Act

LEMMA TouchedStays ==
    ASSUME TypeOK, Begun, NEW p \in Requests, Act(p), NEW n, Touched(n)
    PROVE  Touched(n)'
<1>1. \A q \in Requests : pc[q] # "new" => job'[q] = job[q]
  BY OneMoves
<1>2. overtaken \subseteq overtaken' /\ unasked \subseteq unasked'
  BY HistoriesGrow
<1>3. ASSUME NEW b \in overtaken \cup unasked
      PROVE  Subject(b)' = Subject(b) /\ Kind(b[1])' = Kind(b[1])
  <2>1. b[1] \in Requests /\ pc[b[1]] # "new"
    BY <1>3 DEF Begun, TypeOK, RequestsTypeOK, Ids
  <2> QED BY <1>1, <2>1 DEF Subject, Kind
<1>4. OvertakenItem(n) => OvertakenItem(n)'
  BY <1>2, <1>3 DEF OvertakenItem
<1>5. \A kind : OfKind(unasked, kind, n) => OfKind(unasked, kind, n)'
  BY <1>2, <1>3 DEF OfKind
<1> QED BY <1>4, <1>5 DEF Touched, LateReport, UncheckedCrawl

(* A delist is for one number: purging ends it. *)
LEMMA DelistEnds ==
    ASSUME TypeOK, NEW p \in Requests, Act(p), Kind(p)' = "delist", pc'[p] = "done"
    PROVE  DelistPurge(p) /\ Number(p)' = Number(p) /\ Kind(p) = "delist" /\ pc[p] = "purge"
<1> USE DEF tables, locals, history
<1>1. ~Start(p)
  <2>1. Start(p) => \E kind : Goto(p, First(kind))
    BY DEF Start, Goto
  <2>2. \A kind : First(kind) # "done"
    BY DEF First
  <2> QED BY <2>1, <2>2, GotoMovesOne
<1>2. pc[p] # "new" /\ Kind(p) = "delist"
  <2>1. pc[p] # "new"
    BY <1>1
    DEF Act, Contribute, ContributeSkip, ContributeCheck, ContributeEnsure, ContributeCluster,
        ContributeVote, ContributeLead, ContributeNoLead, ContributePublish,
        Report, ReportRead, ReportUpsert, ReportRecord, Delist, DelistRegister, DelistHide,
        DelistPurge, Federation, FederationSkip, FederationCheck, FederationMerge,
        FederationStamp, Crawl, CrawlSkip, CrawlCheck, CrawlCheckFails, CrawlUpsert,
        CrawlUpsertFails, Lookup, LookupDelisted, LookupCheck, LookupRow, LookupNameless,
        LookupHint, Fail, InFlight
  <2> QED BY <2>1, OneMoves DEF Kind
<1>3. DelistPurge(p)
  <2>1. ~Fail(p) /\ ~DelistRegister(p) /\ ~DelistHide(p)
    BY GotoMovesOne DEF Fail, DelistRegister, DelistHide
  <2>2. RequestsTypeOK
    BY DEF TypeOK
  <2>3. ~Contribute(p) /\ ~Report(p)
    BY <1>2, <2>2, KindOfStep
    DEF Contribute, ContributeSkip, ContributeCheck, ContributeEnsure, ContributeCluster,
        ContributeVote, ContributeLead, ContributeNoLead, ContributePublish,
        Report, ReportRead, ReportUpsert, ReportRecord
  <2>4. ~Federation(p) /\ ~Crawl(p) /\ ~Lookup(p)
    BY <1>2, <2>2, KindOfStep
    DEF Federation, FederationSkip, FederationCheck, FederationMerge, FederationStamp,
        Crawl, CrawlSkip, CrawlCheck, CrawlCheckFails, CrawlUpsert, CrawlUpsertFails,
        Lookup, LookupDelisted, LookupCheck, LookupRow, LookupNameless, LookupHint
  <2> QED BY <1>1, <2>1, <2>3, <2>4 DEF Act, Delist
<1>4. Len(job[p].items) = 1 /\ at[p] = 1
  <2>1. Len(job[p].items) \in Lengths("delist") /\ at[p] \in 1..Len(job[p].items)
    BY <1>2 DEF TypeOK, RequestsTypeOK
  <2>2. Len(job[p].items) = 1
    BY <2>1 DEF Lengths
  <2>3. at[p] \in 1..1
    BY <2>1, <2>2
  <2> QED BY <2>2, <2>3
<1>5. at' = at /\ job' = job
  BY <1>3, <1>4 DEF DelistPurge, NextItem
<1> QED BY <1>2, <1>3, <1>5 DEF DelistPurge, Number, This

(* A row that a step makes public, or leaves so, is touched afterwards if its
   number was delisted before.                                               *)
LEMMA PublicIsTouched ==
    ASSUME EarnedInv, ResidueInv, NEW p \in Requests, Act(p), NEW n \in delisted,
           Public(n)', Public(n) => Touched(n)
    PROVE  Touched(n)'
<1>0. TypeOK /\ Begun
  BY EarnedParts DEF ResidueInv
<1>1. n \in Numbers
  BY <1>0 DEF TypeOK, TablesTypeOK
<1>2. CASE numbers'[n] = numbers[n]
  BY <1>0, <1>2, TouchedStays DEF Public
<1>3. ASSUME NEW new, Writes(p, new), n = Number(p)
      PROVE  Touched(n)'
  <2>1. /\ pc[p] # "new" /\ job' = job /\ numbers'[n] = new /\ Write(p, new)
        /\ RowOf(p) \in Row \cup {NoRow}
        /\ at[p] \in DOMAIN job[p].items /\ This(p) = job[p].items[at[p]]
    <3>1. at[p] \in 1..Len(job[p].items) /\ job[p].items \in Seq(Item)
      BY <1>0, <1>3, WriteIsLocal, CurrentItem DEF TypeOK, Job
    <3> QED BY <1>0, <1>3, <3>1, WriteIsLocal DEF Writes, This
  <2>2. PICK b : b = ThisId(p)
    OBVIOUS
  <2>3. Subject(b)' = n /\ Kind(b[1])' = Kind(p) /\ overtaken \subseteq overtaken'
        /\ unasked \subseteq unasked'
    BY <1>0, <1>3, <2>1, <2>2, HistoriesGrow DEF ThisId, Subject, Number, Kind
  <2>5. CASE pc[p] \in PastCheck
    <3>1. b \in overtaken' \/ (b \in unasked' /\ Kind(b[1])' = "crawl")
      BY <1>3, <2>2, <2>3, <2>5 DEF ResidueInv, Residue, Known
    <3> QED BY <2>3, <3>1 DEF Touched, OvertakenItem, UncheckedCrawl, OfKind
  <2>6. CASE pc[p] = "upsert" /\ GoUnasked(p)
    <3>1. Kind(p) = "report"
      BY <1>0, <2>6, KindOfStep DEF TypeOK
    <3>2. b \in unasked'
      BY <1>3, <2>2, <2>6 DEF GoUnasked
    <3> QED BY <2>3, <3>1, <3>2 DEF Touched, LateReport, OfKind
  <2>4. CASE new = Hidden(RowOf(p))
    <3>1. new = NoRow \/ new.private
      BY <2>1, <2>4, 0 \in Nat, TRUE \in BOOLEAN, NoName \in Names \cup {NoName},
         StatementsKeepRow DEF Hidden
    <3> QED BY <2>1, <3>1 DEF Public
  <2> QED BY <2>1, <2>4, <2>5, <2>6 DEF Write, PastCheck
<1> QED BY <1>0, <1>1, <1>2, <1>3, NumbersMove, WriteIsLocal

LEMMA ResidueStep ==
    ASSUME EarnedInv, ResidueInv, NEW p \in Requests, Act(p)
    PROVE  ResidueInv'
<1> USE DEF tables, locals, history
<1>0. TypeOK /\ Begun /\ \A q \in Requests : Residue(q)
  BY EarnedParts DEF ResidueInv
<1>1. Begun'
  <2>1. \A b \in applied \cup overtaken \cup unasked : b[1] \in Requests
    BY <1>0 DEF TypeOK, RequestsTypeOK, Ids
  <2>2. \A q \in Requests : ThisId(q)[1] = q
    BY DEF ThisId
  <2>3. \A q \in Requests : pc[q] # "new" => pc'[q] # "new"
    BY <1>0, HistoriesGrow
  <2>4. ASSUME NEW b \in applied' \cup overtaken' \cup unasked' PROVE pc'[b[1]] # "new"
    <3>1. \/ b \in applied \cup overtaken \cup unasked
          \/ \E q \in Requests : pc[q] # "new" /\ b = ThisId(q)
      BY <1>0, HistoriesGrow
    <3> QED BY <1>0, <2>1, <2>2, <2>3, <3>1 DEF Begun
  <2> QED BY <2>4 DEF Begun
<1>2. /\ overtaken \subseteq overtaken' /\ unasked \subseteq unasked'
      /\ delisted \subseteq delisted'
      /\ \A q \in Requests \ {p} :
           /\ pc'[q] = pc[q] /\ Number(q)' = Number(q) /\ Kind(q)' = Kind(q)
           /\ ThisId(q)' = ThisId(q)
  BY <1>0, HistoriesGrow, OneMoves DEF ThisId
<1>3. ASSUME NEW q \in Requests, pc'[q] \in PastCheck, Number(q)' \in delisted'
      PROVE  Known(q)'
  <2>1. CASE q # p
    <3>1. CASE Number(q) \in delisted
      BY <1>0, <1>2, <1>3, <2>1, <3>1 DEF Residue, Known
    <3>2. CASE Number(q) \notin delisted
      BY <1>0, <1>2, <1>3, <2>1, <3>2, HistoriesGrow DEF Known
    <3> QED BY <3>1, <3>2
  <2>2. CASE q = p
    <3>1. pc'[p] \notin Openings \cup {"failed", "row", "hint"}
      BY <1>3, <2>2 DEF PastCheck, Openings
    <3>2. /\ Number(p)' = Number(p) /\ Kind(p)' = Kind(p) /\ ThisId(p)' = ThisId(p)
      BY <1>0, <3>1, PathsIn DEF Kind, ThisId
    <3>3. CASE ContributeCheck(p) \/ FederationCheck(p) \/ CrawlCheck(p)
      BY <1>3, <2>2, <3>2, <3>3 DEF ContributeCheck, FederationCheck, CrawlCheck, Registered
    <3>4. CASE CrawlCheckFails(p)
      BY <1>3, <2>2, <3>2, <3>4 DEF CrawlCheckFails, GoUnasked, Known
    <3>5. CASE ContributeEnsure(p) \/ ContributeCluster(p) \/ ContributeVote(p)
               \/ ContributeLead(p)
      <4>1. pc[p] \in PastCheck /\ delisted' = delisted
        BY <3>5 DEF ContributeEnsure, ContributeCluster, ContributeVote, ContributeLead, PastCheck
      <4> QED BY <1>0, <1>2, <1>3, <2>2, <3>2, <4>1 DEF Residue, Known
    <3> QED BY <1>0, <1>3, <2>2, <3>1, <3>3, <3>4, <3>5, PathsIn DEF PastCheck
  <2> QED BY <2>1, <2>2
<1>4. ASSUME NEW q \in Requests, Kind(q)' = "delist", pc'[q] \in {"hide", "purge", "done"}
      PROVE  Number(q)' \in delisted'
  <2>1. CASE q # p
    BY <1>0, <1>2, <1>4, <2>1 DEF Residue
  <2>2. CASE q = p /\ pc'[q] = "done"
    BY <1>0, <1>2, <1>4, <2>2, DelistEnds DEF Residue
  <2>3. CASE q = p /\ pc'[q] \in {"hide", "purge"}
    <3>1. /\ Number(p)' = Number(p) /\ Kind(p)' = Kind(p)
          /\ DelistRegister(p) \/ DelistHide(p)
      BY <1>0, <2>3, PathsIn DEF Openings, Kind
    <3> QED BY <1>0, <1>2, <1>4, <2>3, <3>1
            DEF Residue, DelistRegister, InsertDelisted, DelistHide
  <2> QED BY <1>4, <2>1, <2>2, <2>3
<1>5. ASSUME NEW q \in Requests, Kind(q)' = "delist", pc'[q] \in {"purge", "done"},
             Public(Number(q))'
      PROVE  Touched(Number(q))'
  <2>1. CASE q # p
    <3>1. /\ Number(q)' = Number(q) /\ Number(q) \in delisted
          /\ Public(Number(q)) => Touched(Number(q))
      BY <1>0, <1>2, <1>5, <2>1 DEF Residue
    <3> QED BY <1>5, <3>1, PublicIsTouched DEF Public, Touched
  <2>2. CASE q = p /\ pc'[q] = "done"
    <3>1. /\ Number(q)' = Number(q) /\ Number(q) \in delisted
          /\ Public(Number(q)) => Touched(Number(q))
      BY <1>0, <1>5, <2>2, DelistEnds DEF Residue
    <3> QED BY <1>5, <3>1, PublicIsTouched DEF Public, Touched
  <2>3. CASE q = p /\ pc'[q] = "purge"
    <3>1. /\ Number(p)' = Number(p) /\ pc[p] # "new" /\ DelistHide(p)
      BY <1>0, <2>3, PathsIn DEF Openings
    <3>2. /\ Number(p) \in Numbers /\ RowOf(p) \in Row \cup {NoRow}
          /\ numbers'[Number(p)] = Hidden(RowOf(p))
      BY <1>0, <3>1, CurrentItem DEF DelistHide, PutRow, RowOf, TypeOK, TablesTypeOK
    <3>3. Hidden(RowOf(p)) = NoRow \/ Hidden(RowOf(p)).private
      BY <3>2, 0 \in Nat, TRUE \in BOOLEAN, NoName \in Names \cup {NoName},
         StatementsKeepRow DEF Hidden
    <3> QED BY <1>5, <2>3, <3>1, <3>2, <3>3 DEF Public
  <2> QED BY <1>5, <2>1, <2>2, <2>3
<1>6. ASSUME NEW q \in Requests, Kind(q)' = "delist", pc'[q] = "done",
             NEW s \in suggestions', s.number = Number(q)'
      PROVE  s.id \in overtaken'
  <2>1. CASE q # p
    <3>1. /\ Number(q)' = Number(q) /\ Number(q) \in delisted
          /\ \A t \in SuggestionsFor(Number(q)) : t.id \in overtaken
      BY <1>0, <1>2, <1>6, <2>1 DEF Residue
    <3>2. CASE \E t \in suggestions : t.id = s.id /\ t.number = s.number
      BY <1>2, <1>6, <3>1, <3>2 DEF SuggestionsFor
    <3>3. CASE pc[p] = "vote" /\ s.id = ThisId(p) /\ s.number = Number(p)
      <4>1. Kind(p) = "contribute"
        BY <1>0, <3>3, KindOfStep DEF TypeOK
      <4> QED BY <1>0, <1>2, <1>6, <3>1, <3>3, <4>1 DEF Residue, Known, PastCheck
    <3> QED BY <1>0, <3>2, <3>3, RowsInserted
  <2>2. CASE q = p
    <3>1. DelistPurge(p) /\ Number(p)' = Number(p)
      BY <1>0, <1>6, <2>2, DelistEnds
    <3> QED BY <1>6, <2>2, <3>1 DEF DelistPurge, PurgeSuggestions, SuggestionsFor
  <2> QED BY <2>1, <2>2
<1>7. ASSUME NEW q \in Requests PROVE Residue(q)'
  BY <1>3, <1>4, <1>5, <1>6 DEF Residue, SuggestionsFor
<1> QED BY <1>1, <1>7 DEF ResidueInv

(* OnlyOvertakenDataRemains: what a delist that was answered leaves behind is
   of items past their check when the number entered the registry.  Of those
   that go on unasked afterwards, a report and a crawled record whose check
   failed may leave a public row, and never a suggestion.                    *)
THEOREM DelistLeavesOnlyOvertaken == Spec => []OnlyOvertakenDataRemains
<1>1. Init => ResidueInv
  BY DEF Init, ResidueInv, Begun, Residue, PastCheck, Kind, NoJob
<1>2. EarnedInv /\ ResidueInv /\ [Next]_vars => ResidueInv'
  <2>1. EarnedInv /\ ResidueInv /\ UNCHANGED vars => ResidueInv'
    BY DEF vars, tables, locals, history, ResidueInv, Begun, Residue, Known, Public, Touched,
           OvertakenItem, LateReport, UncheckedCrawl, OfKind, ThisId,
           Subject, SuggestionsFor, Number, This, Kind
  <2> QED BY <2>1, ResidueStep DEF Next, Act
<1>3. ResidueInv => OnlyOvertakenDataRemains
  BY DEF ResidueInv, Residue, OnlyOvertakenDataRemains, Acknowledged, Public, Touched
<1> QED BY <1>1, <1>2, <1>3, EarnedAlways, PTL DEF Spec

-----------------------------------------------------------------------------
(* ReportCountNeverInflated needs that no item is written twice: the item a
   handler is at is not in the history until its write has run.              *)
Unwritten == {"check", "ensure", "cluster", "vote", "read", "upsert", "merge"}

Written ==
    /\ IsFiniteSet(applied)
    /\ \A b \in applied :
         /\ pc[b[1]] # "new"
         /\ b[2] <= at[b[1]]
         /\ b[2] = at[b[1]] => pc[b[1]] \notin Unwritten

Count(n) == Cardinality(Ingests(n))

RowCounted(n) == numbers[n] # NoRow => numbers[n].reports <= Count(n)

ReadCounted(q) ==
    pc[q] = "upsert" /\ row[q] # NoRow => row[q].reports <= Count(Number(q))

CountInv ==
    /\ Written
    /\ \A n \in Numbers : RowCounted(n)
    /\ \A q \in Requests : ReadCounted(q)

EndsItem(p) ==
    /\ NextItem(p)
    /\ applied' = applied \/ (pc[p] = "merge" /\ applied' = applied \cup {ThisId(p)})

GoesOn(p) ==
    /\ at' = at
    /\ \E step : step \notin {"check", "read"} /\ Goto(p, step)
    /\ applied' = applied \/ ContributeVote(p) \/ ReportUpsert(p)

(* A statement ends the item, or the handler goes on with it, elsewhere than at
   its first statement; the history gains an item only by three writes.      *)
LEMMA StepForms ==
    ASSUME NEW p \in Requests, Act(p), ~Start(p)
    PROVE  EndsItem(p) \/ GoesOn(p)
<1> USE DEF tables, locals, history, EndsItem, GoesOn
<1>1. CASE Contribute(p) \/ Report(p) \/ Delist(p)
  BY <1>1
  DEF Contribute, ContributeSkip, ContributeCheck, ContributeEnsure, ContributeCluster,
      ContributeVote, ContributeLead, ContributeNoLead, ContributePublish,
      Report, ReportRead, ReportUpsert, ReportRecord,
      Delist, DelistRegister, DelistHide, DelistPurge
<1>2. CASE Federation(p) \/ Crawl(p)
  BY <1>2
  DEF Federation, FederationSkip, FederationCheck, FederationMerge, FederationStamp,
      Crawl, CrawlSkip, CrawlCheck, CrawlCheckFails, CrawlUpsert, CrawlUpsertFails, Apply
<1>3. CASE Lookup(p) \/ Fail(p)
  BY <1>3
  DEF Lookup, LookupDelisted, LookupCheck, LookupRow, LookupNameless, LookupHint, Fail
<1> QED BY <1>1, <1>2, <1>3 DEF Act

(* A handler goes on with the item, or to the next one; an item is added to the
   history by its write, and not again.                                      *)
LEMMA Progress ==
    ASSUME TypeOK, NEW p \in Requests, Act(p), pc[p] # "new"
    PROVE  /\ at[p] \in Nat /\ at'[p] \in Nat
           /\ \/ at'[p] = at[p] + 1
              \/ /\ at'[p] = at[p]
                 /\ pc'[p] \in Unwritten => pc[p] \in Unwritten /\ applied' = applied
           /\ applied' # applied => /\ pc[p] \in Unwritten
                                    /\ applied' = applied \cup {ThisId(p)}
<1>0. at \in [Requests -> 1..MaxItems] /\ MaxItems \in Nat /\ ~Start(p)
  BY ItemsAssumption DEF TypeOK, RequestsTypeOK, Start
<1>1. at[p] \in Nat
  BY <1>0
<1>2. CASE EndsItem(p)
  <2>1. CASE at[p] < Len(job[p].items)
    BY <1>0, <1>1, <1>2, <2>1 DEF EndsItem, NextItem, Unwritten
  <2>2. CASE ~(at[p] < Len(job[p].items))
    <3>1. PICK step \in {"stamp", "done"} : at' = at /\ Goto(p, step)
      BY <1>2, <2>2 DEF EndsItem, NextItem
    <3> QED BY <1>1, <1>2, <3>1, GotoMovesOne DEF EndsItem, Unwritten
  <2> QED BY <2>1, <2>2
<1>3. CASE GoesOn(p)
  <2>1. PICK step : step \notin {"check", "read"} /\ Goto(p, step)
    BY <1>3 DEF GoesOn
  <2>2. CASE ContributeVote(p) \/ ReportUpsert(p)
    BY <1>1, <1>3, <2>2, GotoMovesOne DEF GoesOn, ContributeVote, ReportUpsert, Apply, Unwritten
  <2>3. CASE ~ContributeVote(p) /\ ~ReportUpsert(p)
    <3>1. pc'[p] \in Unwritten => pc'[p] \notin Openings \cup {"failed", "row", "hint"}
      BY <2>1, GotoMovesOne DEF Unwritten, Openings
    <3>2. pc'[p] \in Unwritten => pc[p] \in Unwritten
      BY <2>3, <3>1, PathsIn
      DEF ContributeEnsure, ContributeCluster, ContributeLead, ContributeCheck,
          FederationCheck, CrawlCheck, CrawlCheckFails, ReportRead, DelistRegister,
          DelistHide, Unwritten
    <3> QED BY <1>1, <1>3, <2>3, <3>2 DEF GoesOn
  <2> QED BY <2>2, <2>3
<1> QED BY <1>0, <1>2, <1>3, StepForms

LEMMA WrittenStep ==
    ASSUME TypeOK, Written, NEW p \in Requests, Act(p)
    PROVE  Written' /\ (applied' # applied => ThisId(p) \notin applied)
<1>1. \A b \in applied : b[1] \in Requests /\ b[2] \in Nat
  BY ItemsAssumption DEF TypeOK, RequestsTypeOK, Ids
<1>2. ThisId(p)[1] = p /\ ThisId(p)[2] = at[p]
  BY DEF ThisId
<1>3. applied' # applied => /\ pc[p] \in Unwritten /\ pc[p] # "new"
                           /\ applied' = applied \cup {ThisId(p)} /\ ThisId(p) \notin applied
  BY <1>2, HistoriesGrow, Progress DEF Written
<1>4. IsFiniteSet(applied')
  BY <1>3, FS_AddElement DEF Written
<1>5. ASSUME NEW b \in applied'
      PROVE  /\ pc'[b[1]] # "new"
             /\ b[2] <= at'[b[1]]
             /\ b[2] = at'[b[1]] => pc'[b[1]] \notin Unwritten
  <2>1. CASE b \in applied /\ b[1] # p
    BY <1>1, <2>1, OneMoves DEF Written
  <2>2. CASE b \in applied /\ b[1] = p
    <3>1. pc[p] # "new" /\ b[2] <= at[p] /\ (b[2] = at[p] => pc[p] \notin Unwritten)
      BY <2>2 DEF Written
    <3>2. pc'[p] # "new"
      BY <3>1, HistoriesGrow
    <3> QED BY <1>1, <2>2, <3>1, <3>2, Progress
  <2>3. CASE b \notin applied
    <3>1. b = ThisId(p) /\ applied' # applied /\ pc[p] # "new"
      BY <1>3, <2>3
    <3>2. pc'[p] # "new"
      BY <3>1, HistoriesGrow
    <3> QED BY <1>2, <3>1, <3>2, Progress
  <2> QED BY <2>1, <2>2, <2>3
<1> QED BY <1>3, <1>4, <1>5 DEF Written

(* The ingests of a number are only added to, one at a time. *)
LEMMA IngestsGrow ==
    ASSUME TypeOK, Written, NEW p \in Requests, Act(p), NEW n
    PROVE  /\ Count(n) \in Nat /\ Count(n)' \in Nat /\ Count(n) <= Count(n)'
           /\ applied' # applied /\ Kind(p) # "contribute" /\ n = Number(p) =>
                Count(n) + 1 <= Count(n)'
<1>1. \A b \in applied : job'[b[1]] = job[b[1]]
  BY OneMoves DEF Written, TypeOK, RequestsTypeOK, Ids
<1>2. Written' /\ applied \subseteq applied'
  BY WrittenStep, HistoriesGrow
<1>3. Ingests(n) \subseteq Ingests(n)'
  BY <1>1, <1>2 DEF Ingests, Kind, Subject
<1>4. IsFiniteSet(Ingests(n)) /\ IsFiniteSet(Ingests(n)')
  BY <1>2, FS_Subset DEF Written, Ingests
<1>5. /\ Count(n) \in Nat /\ Count(n)' \in Nat /\ Count(n) <= Count(n)'
  BY <1>3, <1>4, FS_Subset, FS_CardinalityType DEF Count
<1>6. ASSUME applied' # applied, Kind(p) # "contribute", n = Number(p)
      PROVE  Count(n) + 1 <= Count(n)'
  <2> DEFINE b == ThisId(p)
  <2>1. b \notin applied /\ b \in applied' /\ job' = job
    BY <1>6, WrittenStep, HistoriesGrow, OneMoves
  <2>2. b[1] = p /\ b[2] = at[p]
    BY DEF ThisId
  <2> HIDE DEF b
  <2>3. b \in Ingests(n)' /\ b \notin Ingests(n)
    BY <1>6, <2>1, <2>2 DEF Ingests, Kind, Subject, Number, This
  <2>4. Ingests(n) \cup {b} \subseteq Ingests(n)'
    BY <1>3, <2>3
  <2>5. Cardinality(Ingests(n) \cup {b}) = Count(n) + 1
    BY <1>4, <2>3, FS_AddElement DEF Count
  <2>6. Cardinality(Ingests(n) \cup {b}) <= Cardinality(Ingests(n)')
    BY <1>4, <2>4, FS_Subset
  <2> QED BY <2>5, <2>6 DEF Count
<1> QED BY <1>5, <1>6

(* What a statement does to the count of a row. *)
LEMMA StatementsCount ==
    ASSUME NEW r \in Row \cup {NoRow}
    PROVE  /\ Ensured(r).reports = IF r = NoRow THEN 0 ELSE r.reports
           /\ Hidden(r) = NoRow \/ (r # NoRow /\ Hidden(r).reports = r.reports)
           /\ \A name \in Names \cup {NoName} :
                /\ Merged(r, name).reports = IF r = NoRow THEN 1 ELSE r.reports
                /\ Crawled(r, name).reports \in
                     IF r = NoRow THEN {1} ELSE {r.reports, r.reports + 1}
           /\ \A name \in Names \cup {NoName}, k \in Nat : Reported(r, name, k).reports = k
<1>1. CASE r = NoRow
  BY <1>1, RowTypes DEF Ensured, Reported, Merged, Crawled, Hidden, BlankRow
<1>2. CASE r \in Row
  <2>1. r # NoRow
    BY <1>2, RowTypes
  <2>2. Ensured(r).reports = r.reports
    BY <2>1 DEF Ensured
  <2>3. \A name \in Names \cup {NoName}, k \in Nat : Reported(r, name, k).reports = k
    BY <1>2, <2>1 DEF Reported, Row
  <2>4. \A name \in Names \cup {NoName} :
          /\ Merged(r, name).reports = r.reports
          /\ Crawled(r, name).reports \in {r.reports, r.reports + 1}
    BY <1>2, <2>1 DEF Merged, Crawled, Row
  <2>5. Hidden(r).reports = r.reports
    BY <1>2, <2>1, Zenon DEF Hidden, Row
  <2> QED BY <2>1, <2>2, <2>3, <2>4, <2>5
<1> QED BY <1>1, <1>2

LEMMA PublishedCount ==
    ASSUME NEW r \in Row \cup {NoRow}, NEW name, NEW votes, NEW business
    PROVE  \/ Published(r, name, votes, business) = NoRow
           \/ r # NoRow /\ Published(r, name, votes, business).reports = r.reports
<1> DEFINE v == r.verified \/ (business /\ votes >= 3)
           new == [r EXCEPT !.name = name, !.confidence = Level(votes), !.verified = v]
<1>1. Published(r, name, votes, business) = IF r = NoRow \/ r.private THEN r ELSE new
  BY DEF Published
<1> HIDE DEF v
<1>2. CASE r \in Row
  <2>1. new.reports = r.reports
    BY <1>2 DEF Row
  <2> QED BY <1>1, <1>2, <2>1, RowTypes
<1> QED BY <1>1, <1>2

LEMMA CountStep ==
    ASSUME EarnedInv, CountInv, NEW p \in Requests, Act(p)
    PROVE  CountInv'
<1> USE DEF tables, locals, history
<1>0. TypeOK /\ Written
  BY EarnedParts DEF CountInv
<1>1. \A n : Count(n) \in Nat /\ Count(n)' \in Nat /\ Count(n) <= Count(n)'
  BY <1>0, IngestsGrow
<1>2. \A n \in Numbers : numbers[n] \in Row \cup {NoRow}
  BY <1>0 DEF TypeOK, TablesTypeOK
<1>3. \A r \in Row : r.reports \in Nat
  BY DEF Row
<1>4. ASSUME NEW n \in Numbers, numbers'[n] = numbers[n] PROVE RowCounted(n)'
  <2>1. numbers[n] # NoRow => numbers[n].reports \in Nat /\ numbers[n].reports <= Count(n)
    BY <1>2, <1>3 DEF CountInv, RowCounted
  <2> QED BY <1>1, <1>4, <2>1 DEF RowCounted
<1>5. ASSUME NEW n \in Numbers, NEW new, Writes(p, new), n = Number(p)
      PROVE  RowCounted(n)'
  <2> DEFINE r == numbers[n]
             k == (IF row[p] = NoRow THEN BlankRow ELSE row[p]).reports + 1
  <2>1. RowOf(p) = r /\ numbers'[n] = new /\ Write(p, new) /\ r \in Row \cup {NoRow}
    BY <1>0, <1>2, <1>5, WriteIsLocal DEF Writes, RowOf
  <2>2. r \in Row => r.reports \in Nat /\ r.reports <= Count(n)
    BY <1>3, RowTypes DEF CountInv, RowCounted
  <2>3. k \in Nat /\ (pc[p] = "upsert" => k <= Count(n) + 1)
    <3>1. row[p] \in Row \cup {NoRow} /\ BlankRow.reports = 0
      BY <1>0 DEF TypeOK, RequestsTypeOK, BlankRow
    <3>2. pc[p] = "upsert" /\ row[p] # NoRow => row[p].reports <= Count(n)
      BY <1>5 DEF CountInv, ReadCounted
    <3> QED BY <1>1, <1>3, <3>1, <3>2
  <2>4. /\ pc[p] \in {"upsert", "merge"} /\ applied' = applied \cup {ThisId(p)}
        => Count(n) + 1 <= Count(n)'
    <3>1. pc[p] \in {"upsert", "merge"} => Kind(p) # "contribute"
      BY <1>0, KindOfStep DEF TypeOK
    <3>2. pc[p] \in {"upsert", "merge"} => ThisId(p) \notin applied
      BY <1>0 DEF Written, Unwritten, ThisId
    <3> QED BY <1>0, <1>5, <3>1, <3>2, IngestsGrow
  <2> HIDE DEF r, k
  <2>5. CASE new = Ensured(r)
    <3>1. new.reports = IF r = NoRow THEN 0 ELSE r.reports
      BY <2>1, <2>5, StatementsCount
    <3> QED BY <1>1, <2>1, <2>2, <3>1 DEF RowCounted
  <2>6. CASE \E name \in Names, votes \in Nat \ {0}, business \in BOOLEAN :
               new = Published(r, name, votes, business)
    <3>1. PICK name \in Names, votes \in Nat \ {0}, business \in BOOLEAN :
            new = Published(r, name, votes, business)
      BY <2>6
    <3>2. new = NoRow \/ (r # NoRow /\ new.reports = r.reports)
      BY <2>1, <3>1, PublishedCount
    <3> QED BY <1>1, <2>1, <2>2, <3>2 DEF RowCounted
  <2>7. CASE /\ pc[p] = "upsert" /\ applied' = applied \cup {ThisId(p)}
             /\ \E name \in Names \cup {NoName} : new = Reported(r, name, k)
    <3>1. PICK name \in Names \cup {NoName} : new = Reported(r, name, k)
      BY <2>7
    <3>2. Reported(r, name, k).reports = k
      BY <2>1, <2>3, StatementsCount
    <3> QED BY <1>1, <2>1, <2>3, <2>4, <2>7, <3>1, <3>2 DEF RowCounted
  <2>8. CASE /\ pc[p] = "merge" /\ applied' = applied \cup {ThisId(p)}
             /\ \E name \in Names \cup {NoName} : new = Merged(r, name) \/ new = Crawled(r, name)
    <3>1. PICK name \in Names \cup {NoName} : new = Merged(r, name) \/ new = Crawled(r, name)
      BY <2>8
    <3>2. r \in Row \cup {NoRow}
      BY <2>1
    <3>3. /\ Merged(r, name).reports = IF r = NoRow THEN 1 ELSE r.reports
          /\ Crawled(r, name).reports \in IF r = NoRow THEN {1} ELSE {r.reports, r.reports + 1}
      BY <3>2, StatementsCount
    <3>4. new.reports \in IF r = NoRow THEN {1} ELSE {r.reports, r.reports + 1}
      BY <3>1, <3>3
    <3> QED BY <1>1, <2>1, <2>2, <2>4, <2>8, <3>4 DEF RowCounted
  <2>9. CASE new = Hidden(r)
    <3>1. new = NoRow \/ (r # NoRow /\ new.reports = r.reports)
      BY <2>1, <2>9, StatementsCount
    <3> QED BY <1>1, <2>1, <2>2, <3>1 DEF RowCounted
  <2> QED BY <2>1, <2>5, <2>6, <2>7, <2>8, <2>9 DEF Write, k
<1>6. ASSUME NEW q \in Requests PROVE ReadCounted(q)'
  <2> SUFFICES ASSUME pc'[q] = "upsert", row'[q] # NoRow
               PROVE  row'[q].reports <= Count(Number(q))'
    BY DEF ReadCounted
  <2>1. CASE q # p
    <3>1. /\ pc[q] = "upsert" /\ row[q] \in Row /\ row'[q] = row[q] /\ Number(q)' = Number(q)
          /\ row[q].reports <= Count(Number(q))
      BY <1>0, <2>1, OneMoves DEF CountInv, ReadCounted, TypeOK, RequestsTypeOK
    <3>2. PICK n : n = Number(q)
      OBVIOUS
    <3>3. row[q].reports <= Count(n)'
      BY <1>1, <1>3, <3>1, <3>2
    <3> QED BY <3>1, <3>2, <3>3 DEF Count, Ingests
  <2>2. CASE q = p
    <3>1. /\ ReportRead(p) /\ Number(p)' = Number(p) /\ Number(p) \in Numbers
      BY <1>0, <2>2, PathsIn, CurrentItem DEF Openings, TypeOK
    <3>2. row'[p] = numbers[Number(p)]
      BY <1>0, <3>1 DEF ReportRead, RowOf, TypeOK, RequestsTypeOK
    <3>3. PICK n : n = Number(p)
      OBVIOUS
    <3>4. row'[p].reports \in Nat /\ row'[p].reports <= Count(n)
      BY <1>2, <1>3, <2>2, <3>1, <3>2, <3>3 DEF CountInv, RowCounted
    <3>5. row'[p].reports <= Count(n)'
      BY <1>1, <3>4
    <3> QED BY <2>2, <3>1, <3>3, <3>5 DEF Count, Ingests
  <2> QED BY <2>1, <2>2
<1>7. \A n \in Numbers : RowCounted(n)'
  BY <1>0, <1>4, <1>5, NumbersMove, WriteIsLocal
<1> QED BY <1>0, <1>6, <1>7, WrittenStep DEF CountInv

(* ReportCountNeverInflated: lost reports there may be, invented ones never. *)
THEOREM ReportsNeverInflated == Spec => []ReportCountNeverInflated
<1>1. Init => CountInv
  BY FS_EmptySet DEF Init, TablesInit, CountInv, Written, RowCounted, ReadCounted
<1>2. EarnedInv /\ CountInv /\ [Next]_vars => CountInv'
  <2>1. EarnedInv /\ CountInv /\ UNCHANGED vars => CountInv'
    BY DEF vars, tables, locals, history, CountInv, Written, RowCounted, ReadCounted, Count,
           Ingests, Subject, Number, This, Kind
  <2> QED BY <2>1, CountStep DEF Next, Act
<1>3. CountInv => ReportCountNeverInflated
  BY DEF CountInv, RowCounted, Count, ReportCountNeverInflated
<1> QED BY <1>1, <1>2, <1>3, EarnedAlways, PTL DEF Spec

-----------------------------------------------------------------------------
(* Sums of votes.  TotalVotes is a fold that takes the elements of a set as they
   are chosen: the function it is defined by exists, and the sum does not depend
   on the choice.  Induction over a finite set is by its smallest subset for
   which a claim fails.                                                      *)
(* The function by which the fold is defined, on the subsets of S. *)
One(S) == CHOOSE s \in S : TRUE
Sums(f, S) == f = [T \in SUBSET S |-> IF T = {} THEN 0
                                      ELSE One(T).votes + f[T \ {One(T)}]]

LEMMA TotalIsFold == ASSUME NEW S PROVE TotalVotes(S) = (CHOOSE f : Sums(f, S))[S]
BY Zenon DEF TotalVotes, MapThenSumSet, MapThenFoldSet, Sums, One

(* A set of subsets of a finite set has a least one: induction over finite
   sets, by the smallest counterexample.                                   *)
LEMMA Smallest ==
    ASSUME NEW S, IsFiniteSet(S), NEW B, B \subseteq SUBSET S, B # {}
    PROVE  \E T \in B : \A U \in SUBSET T : U # T => U \notin B
<1>1. IsWellFoundedOn(StrictSubsetOrdering(S), SUBSET S)
  BY FS_StrictSubsetOrderingWellFounded, FS_FiniteSubsetsOfFinite
<1>2. \E T \in B : \A U \in B : ~ (<<U, T>> \in StrictSubsetOrdering(S))
  BY <1>1, WFMin, Zenon
<1> QED BY <1>2 DEF StrictSubsetOrdering

LEMMA OneOf == ASSUME NEW S, S # {} PROVE One(S) \in S
  BY DEF One

LEMMA SumsAgree ==
    ASSUME NEW S, IsFiniteSet(S), NEW f, Sums(f, S), NEW T \in SUBSET S, NEW g, Sums(g, T)
    PROVE  f[T] = g[T]
<1> DEFINE B == {U \in SUBSET T : f[U] # g[U]}
<1>1. SUFFICES ASSUME B # {} PROVE FALSE
  OBVIOUS
<1>2. PICK U \in B : \A V \in SUBSET U : V # U => V \notin B
  <2>1. IsFiniteSet(T) /\ B \subseteq SUBSET T
    BY FS_Subset
  <2> HIDE DEF B
  <2> QED BY <1>1, <2>1, Smallest, Zenon
<1>3. /\ f[U] = IF U = {} THEN 0 ELSE One(U).votes + f[U \ {One(U)}]
      /\ g[U] = IF U = {} THEN 0 ELSE One(U).votes + g[U \ {One(U)}]
  <2>1. U \in SUBSET S /\ U \in SUBSET T
    OBVIOUS
  <2> HIDE DEF B
  <2>2. f[U] = IF U = {} THEN 0 ELSE One(U).votes + f[U \ {One(U)}]
    BY <2>1 DEF Sums
  <2>3. g[U] = IF U = {} THEN 0 ELSE One(U).votes + g[U \ {One(U)}]
    BY <2>1 DEF Sums
  <2> QED BY <2>2, <2>3
<1>4. U # {}
  BY <1>3
<1>5. U \ {One(U)} \in SUBSET U /\ U \ {One(U)} # U
  BY <1>4, OneOf
<1>6. f[U \ {One(U)}] = g[U \ {One(U)}]
  BY <1>2, <1>5
<1> QED BY <1>2, <1>3, <1>6

LEMMA SumsExist ==
    ASSUME NEW S, IsFiniteSet(S)
    PROVE  \E f : Sums(f, S)
<1> DEFINE B == {T \in SUBSET S : ~ \E f : Sums(f, T)}
<1>1. SUFFICES ASSUME B # {} PROVE FALSE
  OBVIOUS
<1>2. PICK T \in B : \A U \in SUBSET T : U # T => U \notin B
  <2>1. B \subseteq SUBSET S
    OBVIOUS
  <2> HIDE DEF B
  <2> QED BY <1>1, <2>1, Smallest, Zenon
<1>3. \A U \in SUBSET T : U # T => \E f : Sums(f, U)
  BY <1>2
<1> DEFINE g == [U \in SUBSET T |-> IF U = {} THEN 0
                                    ELSE One(U).votes + TotalVotes(U \ {One(U)})]
<1>4. ASSUME NEW U \in SUBSET T, U # T PROVE g[U] = TotalVotes(U)
  <2>1. PICK f : f = (CHOOSE h : Sums(h, U)) /\ Sums(f, U)
    BY <1>3, <1>4
  <2>2. TotalVotes(U) = f[U]
    BY <2>1, TotalIsFold
  <2>3. f[U] = IF U = {} THEN 0 ELSE One(U).votes + f[U \ {One(U)}]
    BY <2>1 DEF Sums
  <2>4. ASSUME U # {} PROVE f[U \ {One(U)}] = TotalVotes(U \ {One(U)})
    <3> DEFINE V == U \ {One(U)}
    <3>1. V \in SUBSET U /\ V \in SUBSET T /\ V # T
      BY <1>4
    <3>2. PICK k : k = (CHOOSE h : Sums(h, V)) /\ Sums(k, V)
      BY <1>3, <3>1
    <3>3. IsFiniteSet(U)
      BY <1>2, FS_Subset
    <3> QED BY <2>1, <3>1, <3>2, <3>3, SumsAgree, TotalIsFold
  <2> QED BY <2>2, <2>3, <2>4
<1>5. Sums(g, T)
  <2> SUFFICES ASSUME NEW U \in SUBSET T, U # {}
               PROVE  g[U \ {One(U)}] = TotalVotes(U \ {One(U)})
    BY DEF Sums
  <2>1. U \ {One(U)} \in SUBSET T /\ U \ {One(U)} # T
    BY OneOf
  <2> HIDE DEF g
  <2> QED BY <1>4, <2>1
<1> QED BY <1>2, <1>5

LEMMA TotalStep ==
    ASSUME NEW S, IsFiniteSet(S)
    PROVE  TotalVotes(S) = IF S = {} THEN 0 ELSE One(S).votes + TotalVotes(S \ {One(S)})
<1>1. PICK f : f = (CHOOSE h : Sums(h, S)) /\ Sums(f, S)
  BY SumsExist
<1>2. TotalVotes(S) = f[S]
  BY <1>1, TotalIsFold
<1>3. f[S] = IF S = {} THEN 0 ELSE One(S).votes + f[S \ {One(S)}]
  BY <1>1 DEF Sums
<1>4. f[S \ {One(S)}] = TotalVotes(S \ {One(S)})
  <2> DEFINE V == S \ {One(S)}
  <2>1. V \in SUBSET S /\ IsFiniteSet(V)
    BY FS_Subset
  <2>2. PICK k : k = (CHOOSE h : Sums(h, V)) /\ Sums(k, V)
    BY <2>1, SumsExist
  <2> QED BY <1>1, <2>1, <2>2, SumsAgree, TotalIsFold
<1> QED BY <1>2, <1>3, <1>4

LEMMA TotalType ==
    ASSUME NEW S, IsFiniteSet(S), \A s \in S : s.votes \in Nat
    PROVE  TotalVotes(S) \in Nat
<1> DEFINE B == {T \in SUBSET S : TotalVotes(T) \notin Nat}
<1>1. SUFFICES ASSUME B # {} PROVE FALSE
  OBVIOUS
<1>2. PICK T \in B : \A U \in SUBSET T : U # T => U \notin B
  <2>1. B \subseteq SUBSET S
    OBVIOUS
  <2> HIDE DEF B
  <2> QED BY <1>1, <2>1, Smallest, Zenon
<1>3. TotalVotes(T) = IF T = {} THEN 0 ELSE One(T).votes + TotalVotes(T \ {One(T)})
  BY <1>2, FS_Subset, TotalStep
<1>4. T # {} => One(T) \in T /\ One(T).votes \in Nat /\ TotalVotes(T \ {One(T)}) \in Nat
  BY <1>2, OneOf
<1> QED BY <1>2, <1>3, <1>4

(* Whichever element is taken out, its votes are what the sum loses. *)
LEMMA TotalWithout ==
    ASSUME NEW S, IsFiniteSet(S), \A s \in S : s.votes \in Nat, NEW x \in S
    PROVE  TotalVotes(S) = x.votes + TotalVotes(S \ {x})
<1> DEFINE B == {T \in SUBSET S : \E y \in T : TotalVotes(T) # y.votes + TotalVotes(T \ {y})}
<1>1. SUFFICES ASSUME B # {} PROVE FALSE
  OBVIOUS
<1>2. PICK T \in B : \A U \in SUBSET T : U # T => U \notin B
  <2>1. B \subseteq SUBSET S
    OBVIOUS
  <2> HIDE DEF B
  <2> QED BY <1>1, <2>1, Smallest, Zenon
<1>3. PICK y \in T : TotalVotes(T) # y.votes + TotalVotes(T \ {y})
  BY <1>2
<1> DEFINE z == One(T)
<1>4. z \in T /\ TotalVotes(T) = z.votes + TotalVotes(T \ {z}) /\ z # y
  BY <1>2, <1>3, FS_Subset, OneOf, TotalStep
<1> HIDE DEF z
<1>5. /\ TotalVotes(T \ {z}) = y.votes + TotalVotes((T \ {z}) \ {y})
      /\ TotalVotes(T \ {y}) = z.votes + TotalVotes((T \ {y}) \ {z})
  BY <1>2, <1>3, <1>4
<1>6. (T \ {z}) \ {y} = (T \ {y}) \ {z}
  OBVIOUS
<1>7. /\ y.votes \in Nat /\ z.votes \in Nat
      /\ TotalVotes((T \ {z}) \ {y}) \in Nat
  <2>1. (T \ {z}) \ {y} \in SUBSET S
    BY <1>2
  <2> QED BY <1>2, <1>3, <1>4, <2>1, FS_Subset, TotalType
<1> DEFINE a == y.votes
           b == z.votes
           c == TotalVotes((T \ {z}) \ {y})
<1>8. TotalVotes(T) = b + (a + c) /\ TotalVotes(T \ {y}) = b + c
  BY <1>4, <1>5, <1>6
<1>9. a \in Nat /\ b \in Nat /\ c \in Nat
  BY <1>7
<1> HIDE DEF a, b, c, B
<1> QED BY <1>3, <1>8, <1>9 DEF a


-----------------------------------------------------------------------------
(* VotesAccounted.  A cluster is of the number and the call that inserted it,
   alone with its id and with its spelling; one found before is still there
   when it is voted for, unless its number was delisted meanwhile.           *)
Cast(s) ==
    /\ s.id \in applied /\ Kind(s.id[1]) = "contribute"
    /\ s.number = Subject(s.id)

Twins(s, t) ==
    s.id = t.id \/ (s.number = t.number /\ Normal[s.name] = Normal[t.name])

MatchFits(q) ==
    pc[q] = "vote" /\ match[q] # NoId =>
        /\ match[q] \in applied /\ Subject(match[q]) = Number(q)
        /\ Number(q) \in delisted \/ \E s \in suggestions : s.id = match[q]

ClustersInv ==
    /\ IsFiniteSet(suggestions)
    /\ \A s \in suggestions : Cast(s)
    /\ \A s, t \in suggestions : Twins(s, t) => s = t
    /\ \A q \in Requests : MatchFits(q)

VoteInv == ClustersInv /\ VotesAccounted

(* Only a vote and a purge write suggestions, and only a vote is a ballot. *)
LEMMA SuggestionsMove ==
    ASSUME TypeOK, NEW p \in Requests, Act(p)
    PROVE  /\ \/ /\ suggestions' = suggestions
                 /\ applied' = applied \/ Kind(p) # "contribute"
              \/ ContributeVote(p)
              \/ DelistPurge(p)
           /\ \A q \in Requests \ {p} : match'[q] = match[q]
<1> USE DEF tables, locals, history
<1>1. CASE Contribute(p)
  BY <1>1
  DEF Contribute, ContributeSkip, ContributeCheck, ContributeEnsure, ContributeCluster,
      ContributeVote, ContributeLead, ContributeNoLead, ContributePublish, NextItem,
      TypeOK, RequestsTypeOK
<1>2. CASE Report(p)
  <2>1. pc[p] \in {"read", "upsert", "record"}
    BY <1>2 DEF Report, ReportRead, ReportUpsert, ReportRecord
  <2>2. Kind(p) # "contribute"
    BY <2>1, KindOfStep DEF TypeOK
  <2> QED
    BY <1>2, <2>2
    DEF Report, ReportRead, ReportUpsert, ReportRecord, NextItem, TypeOK, RequestsTypeOK
<1>3. CASE Delist(p)
  BY <1>3 DEF Delist, DelistRegister, DelistHide, DelistPurge, NextItem, TypeOK, RequestsTypeOK
<1>4. CASE Federation(p)
  BY <1>4
  DEF Federation, FederationSkip, FederationCheck, FederationMerge, FederationStamp, NextItem,
      TypeOK, RequestsTypeOK
<1>5. CASE Crawl(p)
  BY <1>5
  DEF Crawl, CrawlSkip, CrawlCheck, CrawlCheckFails, CrawlUpsert, CrawlUpsertFails, NextItem,
      TypeOK, RequestsTypeOK
<1>6. CASE Lookup(p)
  BY <1>6
  DEF Lookup, LookupDelisted, LookupCheck, LookupRow, LookupNameless, LookupHint, NextItem,
      TypeOK, RequestsTypeOK
<1>7. CASE Start(p) \/ Fail(p)
  BY <1>7 DEF Start, Fail
<1> QED BY <1>1, <1>2, <1>3, <1>4, <1>5, <1>6, <1>7 DEF Act

(* A number gains a ballot with each vote for it, and in no other way. *)
LEMMA BallotsGrow ==
    ASSUME TypeOK, Written, NEW p \in Requests, Act(p), NEW n
    PROVE  /\ Cardinality(Ballots(n)) \in Nat
           /\ Cardinality(Ballots(n)') =
                IF applied' # applied /\ Kind(p) = "contribute" /\ n = Number(p)
                THEN Cardinality(Ballots(n)) + 1 ELSE Cardinality(Ballots(n))
<1> DEFINE b == ThisId(p)
<1>1. \A c \in applied : job'[c[1]] = job[c[1]]
  BY OneMoves DEF Written, TypeOK, RequestsTypeOK, Ids
<1>2. b[1] = p /\ b[2] = at[p]
  BY DEF ThisId
<1> HIDE DEF b
<1>3. IsFiniteSet(Ballots(n)) /\ Cardinality(Ballots(n)) \in Nat
  BY FS_Subset, FS_CardinalityType DEF Written, Ballots
<1>4. CASE applied' = applied
  <2>1. Ballots(n)' = Ballots(n)
    BY <1>1, <1>4 DEF Ballots, Kind, Subject
  <2> QED BY <1>3, <1>4, <2>1
<1>5. CASE applied' # applied
  <2>1. applied' = applied \cup {b} /\ b \notin applied /\ job' = job
    BY <1>5, WrittenStep, HistoriesGrow, OneMoves DEF b
  <2>2. CASE Kind(p) = "contribute" /\ n = Number(p)
    <3>1. Ballots(n)' = Ballots(n) \cup {b} /\ b \notin Ballots(n)
      BY <1>2, <2>1, <2>2 DEF Ballots, Kind, Subject, Number, This
    <3> QED BY <1>3, <1>5, <2>2, <3>1, FS_AddElement
  <2>3. CASE ~(Kind(p) = "contribute" /\ n = Number(p))
    <3>1. Ballots(n)' = Ballots(n)
      BY <1>2, <2>1, <2>3 DEF Ballots, Kind, Subject, Number, This
    <3> QED BY <1>3, <2>3, <3>1
  <2> QED BY <2>2, <2>3
<1> QED BY <1>3, <1>4, <1>5

(* One vote for one cluster. *)
Voted(s) == [s EXCEPT !.votes = @ + 1]

LEMMA VotedFields ==
    ASSUME NEW s \in Suggestion
    PROVE  /\ Voted(s) \in Suggestion
           /\ Voted(s).id = s.id /\ Voted(s).number = s.number /\ Voted(s).name = s.name
           /\ Voted(s).votes = s.votes + 1 /\ s.votes \in Nat
  BY DEF Voted, Suggestion

LEMMA OneVote ==
    ASSUME TypeOK, NEW s \in suggestions
    PROVE  Increment({s}) = (suggestions \ {s}) \cup {Voted(s)}
  BY DEF Increment, Voted

(* What a vote does: an UPDATE of one cluster of the number, which is gone only
   if the number is delisted, or the INSERT of a new one.                    *)
LEMMA VoteForms ==
    ASSUME TypeOK, ClustersInv, NEW p \in Requests, ContributeVote(p)
    PROVE  \/ suggestions' = suggestions /\ Number(p) \in delisted
           \/ \E s \in suggestions :
                s.number = Number(p) /\ suggestions' = (suggestions \ {s}) \cup {Voted(s)}
           \/ \E new \in Suggestion :
                /\ new.id = ThisId(p) /\ new.number = Number(p) /\ new.votes = 1
                /\ \A s \in SuggestionsFor(Number(p)) : Normal[s.name] # Normal[new.name]
                /\ suggestions' = suggestions \cup {new}
<1>0. /\ suggestions \subseteq Suggestion /\ Number(p) \in Numbers /\ ThisId(p) \in Ids
      /\ This(p).name \in Names
  <2>1. pc[p] = "vote" /\ RequestsTypeOK /\ Kind(p) = "contribute"
    BY KindOfStep DEF ContributeVote, TypeOK
  <2> QED BY <2>1, CurrentItem DEF TypeOK, TablesTypeOK, ItemsOf
<1>1. CASE match[p] # NoId
  <2> DEFINE chosen == {s \in suggestions : s.id = match[p]}
  <2>1. suggestions' = Increment(chosen)
    BY <1>1 DEF ContributeVote, VoteForCluster
  <2>2. CASE chosen = {}
    <3>1. suggestions' = suggestions
      BY <2>1, <2>2 DEF Increment
    <3>2. Number(p) \in delisted
      BY <1>1, <2>2 DEF ClustersInv, MatchFits, ContributeVote
    <3> QED BY <3>1, <3>2
  <2>3. ASSUME NEW s \in chosen
        PROVE  s.number = Number(p) /\ suggestions' = (suggestions \ {s}) \cup {Voted(s)}
    <3>1. chosen = {s}
      BY DEF ClustersInv, Twins
    <3>2. s.number = Number(p)
      BY <1>1 DEF ClustersInv, MatchFits, Cast, ContributeVote
    <3> QED BY <2>1, <3>1, <3>2, OneVote
  <2> QED BY <2>2, <2>3
<1>2. CASE match[p] = NoId
  <2> DEFINE name == This(p).name
             same == {s \in SuggestionsFor(Number(p)) : Normal[s.name] = Normal[name]}
             new  == [id |-> ThisId(p), number |-> Number(p), name |-> name, votes |-> 1]
  <2>1. suggestions' = IF same = {} THEN suggestions \cup {new} ELSE Increment(same)
    BY <1>2 DEF ContributeVote, InsertSuggestion
  <2>2. CASE same = {}
    <3>1. new \in Suggestion
      BY <1>0 DEF Suggestion
    <3> QED BY <2>1, <2>2, <3>1
  <2>3. ASSUME NEW s \in same
        PROVE  s.number = Number(p) /\ suggestions' = (suggestions \ {s}) \cup {Voted(s)}
    <3>1. same = {s} /\ s.number = Number(p) /\ s \in suggestions
      BY DEF ClustersInv, Twins, SuggestionsFor
    <3> QED BY <2>1, <3>1, OneVote
  <2> QED BY <2>2, <2>3, <1>0 DEF SuggestionsFor
<1> QED BY <1>1, <1>2

(* What that does to the sum of a number's votes. *)
For(S, n) == {s \in S : s.number = n}

LEMMA VoteAdds ==
    ASSUME NEW S \in SUBSET Suggestion, IsFiniteSet(S), NEW s \in S, Voted(s) \notin S,
           NEW T, T = (S \ {s}) \cup {Voted(s)}, NEW n
    PROVE  TotalVotes(For(T, n)) = TotalVotes(For(S, n)) + IF n = s.number THEN 1 ELSE 0
<1>0. /\ IsFiniteSet(For(S, n)) /\ IsFiniteSet(For(T, n))
      /\ T \subseteq Suggestion
  <2>1. IsFiniteSet(S \ {s}) /\ IsFiniteSet(T)
    BY FS_RemoveElement, FS_AddElement
  <2>2. For(S, n) \in SUBSET S /\ For(T, n) \in SUBSET T
    BY DEF For
  <2>3. T \subseteq Suggestion
    BY VotedFields
  <2> QED BY <2>1, <2>2, <2>3, FS_Subset
<1>1. \A t \in Suggestion : t.votes \in Nat
  BY DEF Suggestion
<1>2. TotalVotes(For(S, n)) \in Nat
  BY <1>0, <1>1, TotalType DEF For
<1>3. CASE n # s.number
  <2>1. For(T, n) = For(S, n)
    BY <1>3, VotedFields DEF For
  <2> QED BY <1>2, <1>3, <2>1
<1>4. CASE n = s.number
  <2>1. s \in For(S, n) /\ Voted(s) \in For(T, n)
    BY <1>4, VotedFields DEF For
  <2>2. For(T, n) \ {Voted(s)} = For(S, n) \ {s}
    BY <1>4 DEF For
  <2>3. /\ TotalVotes(For(S, n)) = s.votes + TotalVotes(For(S, n) \ {s})
        /\ TotalVotes(For(T, n)) = Voted(s).votes + TotalVotes(For(T, n) \ {Voted(s)})
    BY <1>0, <1>1, <2>1, TotalWithout DEF For
  <2>4. TotalVotes(For(S, n) \ {s}) \in Nat
    <3>1. IsFiniteSet(For(S, n) \ {s})
      BY <1>0, FS_RemoveElement
    <3> QED BY <1>1, <3>1, TotalType DEF For
  <2> DEFINE a == s.votes
             c == TotalVotes(For(S, n) \ {s})
  <2>5. /\ TotalVotes(For(S, n)) = a + c /\ TotalVotes(For(T, n)) = (a + 1) + c
        /\ a \in Nat /\ c \in Nat
    BY <2>2, <2>3, <2>4, VotedFields
  <2> HIDE DEF a, c
  <2> QED BY <1>4, <2>5
<1> QED BY <1>3, <1>4

LEMMA InsertAdds ==
    ASSUME NEW S \in SUBSET Suggestion, IsFiniteSet(S), NEW new \in Suggestion, new \notin S,
           new.votes = 1, NEW n
    PROVE  TotalVotes(For(S \cup {new}, n)) =
             TotalVotes(For(S, n)) + IF n = new.number THEN 1 ELSE 0
<1> DEFINE T == S \cup {new}
<1>0. IsFiniteSet(For(S, n)) /\ IsFiniteSet(For(T, n))
  <2>1. IsFiniteSet(T)
    BY FS_AddElement
  <2>2. For(S, n) \in SUBSET S /\ For(T, n) \in SUBSET T
    BY DEF For
  <2> HIDE DEF T
  <2> QED BY <2>1, <2>2, FS_Subset
<1>1. \A t \in Suggestion : t.votes \in Nat
  BY DEF Suggestion
<1>2. TotalVotes(For(S, n)) \in Nat
  BY <1>0, <1>1, TotalType DEF For
<1>3. CASE n # new.number
  <2>1. For(T, n) = For(S, n)
    BY <1>3 DEF For
  <2> QED BY <1>2, <1>3, <2>1
<1>4. CASE n = new.number
  <2>1. new \in For(T, n) /\ For(T, n) \ {new} = For(S, n)
    BY <1>4 DEF For
  <2>2. TotalVotes(For(T, n)) = new.votes + TotalVotes(For(T, n) \ {new})
    BY <1>0, <1>1, <2>1, TotalWithout DEF For
  <2>3. TotalVotes(For(T, n)) = 1 + TotalVotes(For(S, n))
    BY <2>1, <2>2
  <2> DEFINE c == TotalVotes(For(S, n))
  <2>4. c \in Nat /\ TotalVotes(For(T, n)) = 1 + c
    BY <1>2, <2>3
  <2> HIDE DEF c
  <2> QED BY <1>4, <2>4 DEF c
<1> QED BY <1>3, <1>4

(* A request that is about to vote finds what it matched. *)
LEMMA MatchStep ==
    ASSUME EarnedInv, Written, ClustersInv, NEW p \in Requests, Act(p)
    PROVE  \A q \in Requests : MatchFits(q)'
<1> USE DEF tables, locals, history
<1>0. TypeOK /\ applied \subseteq applied' /\ delisted \subseteq delisted'
  <2>1. TypeOK
    BY EarnedParts
  <2> QED BY <2>1, HistoriesGrow
<1>1. \A b \in applied : Subject(b)' = Subject(b)
  <2>1. \A b \in applied : job'[b[1]] = job[b[1]]
    BY <1>0, OneMoves DEF Written, TypeOK, RequestsTypeOK, Ids
  <2> QED BY <2>1 DEF Subject
<1>2. ASSUME NEW s \in suggestions, s.number \notin delisted
      PROVE  \E t \in suggestions' : t.id = s.id
  <2>1. CASE suggestions' = suggestions
    BY <2>1
  <2>2. CASE DelistPurge(p)
    <3>1. Number(p) \in delisted
      BY <2>2, Zenon DEF EarnedInv, CarriedReadsHold, DelistedFirst, DelistPurge
    <3> QED BY <1>2, <2>2, <3>1 DEF DelistPurge, PurgeSuggestions, SuggestionsFor
  <2>3. CASE ContributeVote(p)
    <3>1. \A t \in suggestions : Voted(t).id = t.id
      BY <1>0, VotedFields DEF TypeOK, TablesTypeOK
    <3> QED BY <1>0, <2>3, <3>1, VoteForms
  <2> QED BY <1>0, <2>1, <2>2, <2>3, SuggestionsMove
<1>3. ASSUME NEW q \in Requests, pc'[q] = "vote", match'[q] # NoId
      PROVE  /\ match'[q] \in applied' /\ Subject(match[q])' = Number(q)'
             /\ Number(q)' \in delisted' \/ \E s \in suggestions' : s.id = match'[q]
  <2>1. CASE q # p
    <3>1. pc[q] = "vote" /\ match'[q] = match[q] /\ Number(q)' = Number(q)
      BY <1>0, <1>3, <2>1, OneMoves, SuggestionsMove
    <3>2. /\ match[q] \in applied /\ Subject(match[q]) = Number(q)
          /\ Number(q) \in delisted \/ \E s \in suggestions : s.id = match[q]
      BY <1>3, <3>1 DEF ClustersInv, MatchFits
    <3>3. \A s \in suggestions : s.id = match[q] => s.number = Number(q)
      BY <3>2 DEF ClustersInv, Cast
    <3>4. Subject(match[q])' = Subject(match[q])
      BY <1>1, <3>1, <3>2 DEF Subject
    <3> QED BY <1>0, <1>2, <3>1, <3>2, <3>3, <3>4
  <2>2. CASE q = p
    <3>1. ContributeCluster(p) /\ Number(p)' = Number(p)
      BY <1>0, <1>3, <2>2, PathsIn
      DEF Openings, ContributeEnsure, ContributeVote, ContributeLead, ContributeCheck,
          FederationCheck, CrawlCheck, CrawlCheckFails, ReportRead, ReportUpsert,
          DelistRegister, DelistHide
    <3>2. PICK s \in SuggestionsFor(Number(p)) : match'[p] = s.id
      <4> DEFINE found == Clusters(Number(p), This(p).name)
      <4>1. PICK id \in IF found = {} THEN {NoId} ELSE {s.id : s \in found} :
              match' = [match EXCEPT ![p] = id]
        BY <3>1 DEF ContributeCluster
      <4>2. match'[p] = id /\ id # NoId
        BY <1>0, <1>3, <2>2, <4>1 DEF TypeOK, RequestsTypeOK
      <4>3. id \in {s.id : s \in found}
        BY <4>1, <4>2
      <4> QED BY <4>2, <4>3 DEF Clusters
    <3>3. s \in suggestions /\ Cast(s) /\ s.number = Number(p)
      BY <3>2 DEF SuggestionsFor, ClustersInv
    <3>4. suggestions' = suggestions /\ job' = job
      BY <3>1 DEF ContributeCluster
    <3> QED BY <1>0, <2>2, <3>1, <3>2, <3>3, <3>4 DEF Cast, Subject
  <2> QED BY <2>1, <2>2
<1> QED BY <1>3 DEF MatchFits, Subject

LEMMA ClustersStep ==
    ASSUME EarnedInv, Written, ClustersInv, NEW p \in Requests, Act(p)
    PROVE  ClustersInv'
<1> USE DEF tables, locals, history
<1>0. TypeOK /\ suggestions \subseteq Suggestion /\ applied \subseteq applied'
  <2>1. TypeOK
    BY EarnedParts
  <2> QED BY <2>1, HistoriesGrow DEF TypeOK, TablesTypeOK
<1>1. \A b \in applied : Subject(b)' = Subject(b) /\ Kind(b[1])' = Kind(b[1])
  <2>1. \A b \in applied : job'[b[1]] = job[b[1]]
    <3>1. \A b \in applied : b[1] \in Requests /\ pc[b[1]] # "new"
      BY <1>0 DEF Written, TypeOK, RequestsTypeOK, Ids
    <3> QED BY <1>0, <3>1, OneMoves
  <2> QED BY <2>1 DEF Subject, Kind
<1>2. ASSUME NEW s \in suggestions, NEW t, t.id = s.id, t.number = s.number
      PROVE  Cast(t)'
  BY <1>0, <1>1, <1>2 DEF ClustersInv, Cast
<1>3. CASE suggestions' \subseteq suggestions
  <2>1. IsFiniteSet(suggestions')
    BY <1>3, FS_Subset DEF ClustersInv
  <2>2. \A s, t \in suggestions' : Twins(s, t) => s = t
    BY <1>3 DEF ClustersInv
  <2>3. \A s \in suggestions' : Cast(s)'
    BY <1>2, <1>3
  <2> QED BY <2>1, <2>2, <2>3, MatchStep DEF ClustersInv, Twins
<1>4. ASSUME NEW s \in suggestions, suggestions' = (suggestions \ {s}) \cup {Voted(s)}
      PROVE  ClustersInv'
  <2>0. s \in Suggestion
    BY <1>0
  <2>1. IsFiniteSet(suggestions')
    BY <1>4, FS_RemoveElement, FS_AddElement DEF ClustersInv
  <2>2. \A t, u \in suggestions' : Twins(t, u) => t = u
    BY <1>4, <2>0, VotedFields DEF ClustersInv, Twins
  <2>3. \A t \in suggestions' : Cast(t)'
    BY <1>2, <1>4, <2>0, VotedFields
  <2> QED BY <2>1, <2>2, <2>3, MatchStep DEF ClustersInv, Twins
<1>5. ASSUME ContributeVote(p), NEW new \in Suggestion,
             new.id = ThisId(p), new.number = Number(p),
             \A s \in SuggestionsFor(Number(p)) : Normal[s.name] # Normal[new.name],
             suggestions' = suggestions \cup {new}
      PROVE  ClustersInv'
  <2>1. IsFiniteSet(suggestions')
    BY <1>5, FS_AddElement DEF ClustersInv
  <2>2. \A s \in suggestions : ~Twins(s, new) /\ ~Twins(new, s)
    <3>1. \A s \in suggestions : s.id # new.id
      BY <1>5 DEF ClustersInv, Cast, Written, Unwritten, ContributeVote, ThisId
    <3>2. \A s \in suggestions : s.number = new.number => Normal[s.name] # Normal[new.name]
      BY <1>5 DEF SuggestionsFor
    <3> QED BY <3>1, <3>2 DEF Twins
  <2>3. \A s, t \in suggestions' : Twins(s, t) => s = t
    BY <1>5, <2>2 DEF ClustersInv
  <2>4. Cast(new)'
    <3>1. ThisId(p) \in applied' /\ job' = job /\ Kind(p) = "contribute"
      BY <1>0, <1>5, KindOfStep DEF ContributeVote, Apply, TypeOK
    <3> QED BY <1>5, <3>1 DEF Cast, ThisId, Subject, Kind, Number, This
  <2>5. \A s \in suggestions' : Cast(s)'
    BY <1>2, <1>5, <2>4
  <2> QED BY <2>1, <2>3, <2>5, MatchStep DEF ClustersInv, Twins
<1>6. CASE DelistPurge(p)
  BY <1>3, <1>6 DEF DelistPurge, PurgeSuggestions
<1>7. CASE ContributeVote(p)
  BY <1>0, <1>3, <1>4, <1>5, <1>7, VoteForms
<1> QED BY <1>0, <1>3, <1>6, <1>7, SuggestionsMove

LEMMA VotesAsTotals ==
    VotesAccounted <=> \A n \in Numbers \ delisted :
                         TotalVotes(For(suggestions, n)) = Cardinality(Ballots(n))
  BY DEF VotesAccounted, SuggestionsFor, For

LEMMA VotesStep ==
    ASSUME EarnedInv, Written, VoteInv, NEW p \in Requests, Act(p)
    PROVE  VoteInv'
<1> USE DEF tables, locals, history
<1>0. /\ TypeOK /\ suggestions \subseteq Suggestion /\ IsFiniteSet(suggestions)
      /\ ClustersInv /\ delisted \subseteq delisted'
  <2>1. TypeOK
    BY EarnedParts
  <2> QED BY <2>1, HistoriesGrow DEF TypeOK, TablesTypeOK, VoteInv, ClustersInv
<1>1. ASSUME NEW n \in Numbers \ delisted'
      PROVE  TotalVotes(For(suggestions', n)) = Cardinality(Ballots(n)')
  <2>1. TotalVotes(For(suggestions, n)) = Cardinality(Ballots(n)) /\ n \notin delisted
    BY <1>0, VotesAsTotals DEF VoteInv
  <2>2. /\ Cardinality(Ballots(n)) \in Nat
        /\ Cardinality(Ballots(n)') =
             IF applied' # applied /\ Kind(p) = "contribute" /\ n = Number(p)
             THEN Cardinality(Ballots(n)) + 1 ELSE Cardinality(Ballots(n))
    BY <1>0, BallotsGrow
  <2>3. CASE suggestions' = suggestions /\ (applied' = applied \/ Kind(p) # "contribute")
    BY <2>1, <2>2, <2>3
  <2>4. CASE DelistPurge(p)
    <3>1. Number(p) \in delisted /\ applied' = applied
      BY <2>4, Zenon DEF EarnedInv, CarriedReadsHold, DelistedFirst, DelistPurge
    <3>2. For(suggestions', n) = For(suggestions, n)
      BY <2>1, <2>4, <3>1 DEF DelistPurge, PurgeSuggestions, SuggestionsFor, For
    <3> QED BY <2>1, <2>2, <3>1, <3>2
  <2>5. CASE ContributeVote(p)
    <3>1. applied' # applied /\ Kind(p) = "contribute"
      <4>1. ThisId(p) \in applied' /\ ThisId(p) \notin applied
        BY <2>5 DEF ContributeVote, Apply, Written, Unwritten, ThisId
      <4> QED BY <1>0, <2>5, <4>1, KindOfStep DEF ContributeVote, TypeOK
    <3>2. TotalVotes(For(suggestions', n)) =
            TotalVotes(For(suggestions, n)) + IF n = Number(p) THEN 1 ELSE 0
      <4>1. CASE suggestions' = suggestions /\ Number(p) \in delisted
        BY <2>1, <2>2, <4>1
      <4>2. ASSUME NEW s \in suggestions, s.number = Number(p),
                   suggestions' = (suggestions \ {s}) \cup {Voted(s)}
            PROVE  TotalVotes(For(suggestions', n)) =
                     TotalVotes(For(suggestions, n)) + IF n = Number(p) THEN 1 ELSE 0
        <5>1. Voted(s) \notin suggestions
          <6>1. Voted(s).id = s.id /\ Voted(s).votes = s.votes + 1 /\ s.votes \in Nat
            BY <1>0, VotedFields
          <6>2. Voted(s) # s
            BY <6>1
          <6> QED BY <1>0, <6>1, <6>2 DEF ClustersInv, Twins
        <5> QED BY <1>0, <4>2, <5>1, VoteAdds
      <4>3. ASSUME NEW new \in Suggestion,
                   new.id = ThisId(p), new.number = Number(p), new.votes = 1,
                   suggestions' = suggestions \cup {new}
            PROVE  TotalVotes(For(suggestions', n)) =
                     TotalVotes(For(suggestions, n)) + IF n = Number(p) THEN 1 ELSE 0
        <5>1. new \notin suggestions
          BY <1>0, <2>5, <4>3
          DEF ClustersInv, Cast, Written, Unwritten, ContributeVote, ThisId
        <5> QED BY <1>0, <4>3, <5>1, InsertAdds
      <4> QED BY <1>0, <2>5, <4>1, <4>2, <4>3, VoteForms
    <3> QED BY <2>1, <2>2, <3>1, <3>2
  <2> QED BY <1>0, <2>3, <2>4, <2>5, SuggestionsMove
<1>2. VotesAccounted'
  BY <1>1 DEF VotesAccounted, SuggestionsFor, For
<1> QED BY <1>0, <1>2, ClustersStep DEF VoteInv

(* VotesAccounted: the votes of a number's clusters are its contributions, each
   counted once, whatever the handlers' reads and inserts overtake.          *)
THEOREM VotesAlwaysAccounted == Spec => []VotesAccounted
<1>1. Init => Written /\ VoteInv
  <2> SUFFICES ASSUME Init PROVE Written /\ VoteInv
    OBVIOUS
  <2>1. Written /\ ClustersInv
    BY FS_EmptySet DEF Init, TablesInit, Written, ClustersInv, MatchFits
  <2>2. \A n : For(suggestions, n) = {} /\ Ballots(n) = {}
    BY DEF Init, TablesInit, For, Ballots
  <2>3. VotesAccounted
    BY <2>2, VotesAsTotals, FS_EmptySet, TotalStep
  <2> QED BY <2>1, <2>3 DEF VoteInv
<1>2. EarnedInv /\ Written /\ VoteInv /\ [Next]_vars => Written' /\ VoteInv'
  <2>1. EarnedInv /\ Written /\ VoteInv /\ UNCHANGED vars => Written' /\ VoteInv'
    BY DEF vars, tables, locals, history, Written, VoteInv, ClustersInv, Cast, Twins, MatchFits,
           VotesAccounted, SuggestionsFor, Ballots, Subject, Number, This, Kind
  <2>2. EarnedInv => TypeOK
    BY EarnedParts
  <2> QED BY <2>1, <2>2, WrittenStep, VotesStep DEF Next, Act
<1>3. VoteInv => VotesAccounted
  BY DEF VoteInv
<1> QED BY <1>1, <1>2, <1>3, EarnedAlways, PTL DEF Spec
=============================================================================

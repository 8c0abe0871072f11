------------------------ MODULE NumberRegistry_proofs ------------------------
(* Theorems about NumberRegistry, for every value of its constants: its state
   stays well typed, and a published confidence is earned.                     *)
EXTENDS NumberRegistry, TLAPS

LEMMA SeqOfFunction ==
    ASSUME NEW S, NEW k \in Nat, NEW f \in [1..k -> S]
    PROVE  f \in Seq(S) /\ Len(f) = k
  OBVIOUS

LEMMA RowTypes ==
    /\ BlankRow \in Row
    /\ \A r \in Row : r # NoRow
    /\ \A a, b \in Names \cup {NoName} : Coalesce(a, b) \in Names \cup {NoName}
    /\ \A v \in Nat : Level(v) \in 1..3
    /\ \A v \in Nat \ {0} : Level(v) <= v
  BY RowAssumption, NamesAssumption DEF BlankRow, Row, Coalesce, Level

(* Each statement belongs to the handler that runs it. *)
LEMMA StepsByKind ==
    ASSUME NEW kind \in OpKinds
    PROVE  /\ First(kind) \in StepsOf(kind)
           /\ StepsOf(kind) \subseteq Steps
           /\ kind = "federation" => "stamp" \in StepsOf(kind)
           /\ "new" \notin StepsOf(kind)
<1>1. StepsOf(kind) \subseteq Steps
  BY DEF Steps
<1> QED
  BY <1>1 DEF StepsOf, First, OpKinds

LEMMA KindOfStep ==
    ASSUME RequestsTypeOK, NEW p \in Requests
    PROVE  /\ pc[p] \in {"ensure", "cluster", "vote", "lead", "publish"} => Kind(p) = "contribute"
           /\ pc[p] \in {"read", "upsert", "record"} => Kind(p) = "report"
           /\ pc[p] \in {"register", "hide", "purge"} => Kind(p) = "delist"
           /\ pc[p] = "stamp" => Kind(p) = "federation"
           /\ pc[p] = "merge" => Kind(p) \in {"federation", "crawl"}
           /\ pc[p] \in {"row", "hint"} => Kind(p) = "lookup"
           /\ pc[p] = "check" => Kind(p) \in {"contribute", "federation", "crawl", "lookup"}
<1>1. CASE pc[p] \in {"new", "done", "failed"}
  BY <1>1
<1>2. CASE pc[p] \notin {"new", "done", "failed"}
  <2>1. pc[p] \in StepsOf(Kind(p)) /\ Kind(p) \in OpKinds
    BY <1>2 DEF RequestsTypeOK, Job, Kind
  <2> QED BY <2>1 DEF StepsOf, OpKinds
<1> QED BY <1>1, <1>2

(* The item a running handler is at. *)
LEMMA CurrentItem ==
    ASSUME RequestsTypeOK, NEW p \in Requests, pc[p] # "new"
    PROVE  /\ job[p] \in Job
           /\ at[p] \in 1..MaxItems
           /\ at[p] \in 1..Len(job[p].items)
           /\ Len(job[p].items) \in Nat
           /\ This(p) \in Item
           /\ This(p) \in ItemsOf(Kind(p))
           /\ This(p).name \in Names \cup {NoName}
           /\ This(p).business \in BOOLEAN
           /\ Number(p) \in Numbers
           /\ ThisId(p) \in Ids
<1>1. /\ job[p] \in Job
      /\ at[p] \in 1..MaxItems
      /\ at[p] \in 1..Len(job[p].items)
  BY DEF RequestsTypeOK
<1>2. job[p].items \in Seq(Item)
  BY <1>1 DEF Job
<1>3. This(p) \in Item
  BY <1>1, <1>2 DEF This
<1>4. This(p) \in ItemsOf(Kind(p))
  BY <1>1 DEF This, RequestsTypeOK
<1> QED
  BY <1>1, <1>2, <1>3, <1>4 DEF Item, Number, ThisId, Ids

(* What moving on leaves well typed: to another statement, to another item. *)
LEMMA GotoTypes ==
    ASSUME RequestsTypeOK, NEW p \in Requests, pc[p] # "new",
           NEW step \in StepsOf(Kind(p)) \cup {"done", "failed"}, Goto(p, step),
           UNCHANGED <<job, at>>,
           match' \in [Requests -> Ids \cup {NoId}],
           top' \in [Requests -> Top \cup {NoTop}],
           row' \in [Requests -> Row \cup {NoRow}],
           answer' \in [Requests -> Answer],
           applied' \subseteq Ids,
           overtaken' \subseteq Ids /\ unasked' \subseteq Ids
    PROVE  RequestsTypeOK'
<1>1. job[p] \in Job /\ Kind(p) \in OpKinds
  BY DEF RequestsTypeOK, Kind, Job
<1>2. step \in Steps
  BY <1>1, StepsByKind DEF Steps
<1>3. pc' \in [Requests -> Steps] /\ pc'[p] = step /\ \A q \in Requests \ {p} : pc'[q] = pc[q]
  BY <1>2 DEF RequestsTypeOK, Goto
<1>4. job' = job /\ at' = at /\ \A q \in Requests : Kind(q)' = Kind(q)
  BY DEF Kind
<1> QED
  BY <1>3, <1>4 DEF RequestsTypeOK

LEMMA NextItemTypes ==
    ASSUME RequestsTypeOK, NEW p \in Requests, pc[p] # "new", NextItem(p),
           UNCHANGED job,
           answer' \in [Requests -> Answer],
           applied' \subseteq Ids,
           overtaken' \subseteq Ids /\ unasked' \subseteq Ids
    PROVE  RequestsTypeOK'
<1>1. /\ job[p] \in Job
      /\ at[p] \in 1..Len(job[p].items)
      /\ Len(job[p].items) \in Nat
      /\ Len(job[p].items) \in Lengths(Kind(p))
      /\ Len(job[p].items) <= MaxItems
  <2>1. Len(job[p].items) \in Lengths(Kind(p))
    BY DEF RequestsTypeOK
  <2>2. Len(job[p].items) <= MaxItems
    BY <2>1, ItemsAssumption DEF Lengths
  <2> QED BY <2>1, <2>2, CurrentItem
<1>2. /\ match' \in [Requests -> Ids \cup {NoId}]
      /\ top' \in [Requests -> Top \cup {NoTop}]
      /\ row' \in [Requests -> Row \cup {NoRow}]
  BY DEF RequestsTypeOK, NextItem
<1>3. /\ at' \in [Requests -> 1..MaxItems]
      /\ at'[p] \in 1..Len(job[p].items)
      /\ \A q \in Requests \ {p} : at'[q] = at[q]
  <2>1. at \in [Requests -> 1..MaxItems] /\ MaxItems \in Nat
    BY ItemsAssumption DEF RequestsTypeOK
  <2>2. CASE at[p] < Len(job[p].items)
    <3>1. at' = [at EXCEPT ![p] = at[p] + 1]
      BY <2>2 DEF NextItem
    <3>2. at[p] + 1 \in 1..MaxItems /\ at[p] + 1 \in 1..Len(job[p].items)
      BY <1>1, <2>1, <2>2
    <3> QED BY <2>1, <3>1, <3>2
  <2>3. CASE ~(at[p] < Len(job[p].items))
    BY <1>1, <2>1, <2>3 DEF NextItem
  <2> QED BY <2>2, <2>3
<1>4. job' = job /\ \A q \in Requests : Kind(q)' = Kind(q)
  BY DEF Kind
<1>5. Kind(p) \in OpKinds
  BY <1>1 DEF Kind, Job
<1>6. /\ pc' \in [Requests -> Steps]
      /\ pc'[p] \in StepsOf(Kind(p)) \cup {"done", "failed"}
      /\ \A q \in Requests \ {p} : pc'[q] = pc[q]
  <2>1. PICK step \in StepsOf(Kind(p)) \cup {"done", "failed"} : Goto(p, step)
    BY <1>5, StepsByKind DEF NextItem
  <2>2. step \in Steps
    BY <1>5, <2>1, StepsByKind DEF Steps
  <2> QED BY <2>1, <2>2 DEF RequestsTypeOK, Goto
<1>7. ASSUME NEW q \in Requests, pc'[q] # "new"
      PROVE  /\ job'[q] \in Job
             /\ at'[q] \in 1..Len(job'[q].items)
             /\ Len(job'[q].items) \in Lengths(Kind(q)')
             /\ job'[q].items \in Seq(ItemsOf(Kind(q)'))
             /\ pc'[q] \in StepsOf(Kind(q)') \cup {"done", "failed"}
  <2>1. CASE q = p
    BY <2>1, <1>1, <1>3, <1>4, <1>6 DEF RequestsTypeOK
  <2>2. CASE q # p
    BY <2>2, <1>3, <1>4, <1>6, <1>7 DEF RequestsTypeOK
  <2> QED BY <2>1, <2>2
<1> QED
  BY <1>2, <1>3, <1>4, <1>6, <1>7 DEF RequestsTypeOK

-----------------------------------------------------------------------------
(* The statements keep the tables well typed. *)
LEMMA RowStatements ==
    ASSUME NEW r \in Row \cup {NoRow}, NEW name \in Names \cup {NoName},
           NEW count \in Nat, NEW business \in BOOLEAN
    PROVE  /\ Ensured(r) \in Row
           /\ Published(r, name, count, business) \in Row \cup {NoRow}
           /\ Reported(r, name, count) \in Row
           /\ Merged(r, name) \in Row
           /\ Crawled(r, name) \in Row
           /\ Hidden(r) \in Row \cup {NoRow}
<1>1. BlankRow \in Row
  BY RowTypes
<1>2. ASSUME r = NoRow
      PROVE  /\ [BlankRow EXCEPT !.name = name, !.reports = count] \in Row
             /\ [BlankRow EXCEPT !.name = name, !.reports = 1] \in Row
  BY <1>1 DEF Row
<1>3. ASSUME r \in Row
      PROVE  /\ [r EXCEPT !.name = name, !.confidence = Level(count),
                          !.verified = @ \/ (business /\ count >= 3)] \in Row
             /\ [r EXCEPT !.name = Coalesce(@, name), !.reports = count] \in Row
             /\ [r EXCEPT !.name = Coalesce(@, name)] \in Row
             /\ [r EXCEPT !.name = Coalesce(@, name), !.reports = @ + 1] \in Row
             /\ [r EXCEPT !.name = NoName, !.private = TRUE, !.confidence = 0] \in Row
  <2>1. Coalesce(r.name, name) \in Names \cup {NoName} /\ Level(count) \in 0..3
    BY <1>3, RowTypes DEF Row
  <2>2. (r.verified \/ (business /\ count >= 3)) \in BOOLEAN
    OBVIOUS
  <2>3. \A v \in BOOLEAN : \A c \in 0..3 :
          [r EXCEPT !.name = name, !.confidence = c, !.verified = v] \in Row
    BY <1>3 DEF Row
  <2>4. [r EXCEPT !.name = name, !.confidence = Level(count),
                  !.verified = @ \/ (business /\ count >= 3)] \in Row
    <3> DEFINE v == r.verified \/ (business /\ count >= 3)
    <3> HIDE DEF v
    <3>1. v \in BOOLEAN
      BY <2>2 DEF v
    <3>2. [r EXCEPT !.name = name, !.confidence = Level(count), !.verified = v] \in Row
      BY <2>1, <2>3, <3>1
    <3> QED BY <3>2 DEF v
  <2>5. \A m \in Names \cup {NoName} : [r EXCEPT !.name = m] \in Row
    BY <1>3 DEF Row
  <2>6. \A m \in Names \cup {NoName} : \A k \in Nat :
          [r EXCEPT !.name = m, !.reports = k] \in Row
    BY <1>3 DEF Row
  <2>7. [r EXCEPT !.name = NoName, !.private = TRUE, !.confidence = 0] \in Row
    <3>1. \A m \in Names \cup {NoName} : \A b \in BOOLEAN : \A c \in 0..3 :
            [r EXCEPT !.name = m, !.private = b, !.confidence = c] \in Row
      BY <1>3 DEF Row
    <3>2. NoName \in Names \cup {NoName} /\ TRUE \in BOOLEAN /\ 0 \in 0..3
      OBVIOUS
    <3> QED BY <3>1, <3>2
  <2>8. r.reports + 1 \in Nat
    BY <1>3 DEF Row
  <2>9. [r EXCEPT !.name = Coalesce(@, name)] \in Row
    BY <2>1, <2>5
  <2>10. /\ [r EXCEPT !.name = Coalesce(@, name), !.reports = count] \in Row
         /\ [r EXCEPT !.name = Coalesce(@, name), !.reports = @ + 1] \in Row
    BY <2>1, <2>6, <2>8
  <2> QED BY <2>4, <2>7, <2>9, <2>10
<1>4. r = NoRow \/ (r \in Row /\ r # NoRow)
  BY RowTypes
<1> QED
  BY <1>1, <1>2, <1>3, <1>4 DEF Ensured, Published, Reported, Merged, Crawled, Hidden

LEMMA SuggestionsTypes ==
    ASSUME TablesTypeOK, NEW n \in Numbers, NEW name \in Names, NEW id \in Ids,
           NEW any,
           \/ VoteForCluster(any)
           \/ InsertSuggestion(id, n, name)
           \/ PurgeSuggestions(n)
    PROVE  suggestions' \subseteq Suggestion
<1>1. suggestions \subseteq Suggestion
  BY DEF TablesTypeOK
<1>2. \A chosen : Increment(chosen) \subseteq Suggestion
  BY <1>1 DEF Increment, Suggestion
<1>3. CASE VoteForCluster(any)
  BY <1>2, <1>3 DEF VoteForCluster
<1>4. CASE InsertSuggestion(id, n, name)
  BY <1>1, <1>2, <1>4 DEF InsertSuggestion, Suggestion
<1>5. CASE PurgeSuggestions(n)
  BY <1>1, <1>5 DEF PurgeSuggestions
<1> QED BY <1>3, <1>4, <1>5
-----------------------------------------------------------------------------
(* PutRow with the result of a statement keeps numbers well typed. *)
LEMMA PutRowTypes ==
    ASSUME TablesTypeOK, NEW p \in Requests, Number(p) \in Numbers,
           NEW r \in Row \cup {NoRow}, PutRow(p, r)
    PROVE  numbers' \in [Numbers -> Row \cup {NoRow}]
  BY DEF TablesTypeOK, PutRow

LEMMA StartTypes ==
    ASSUME TypeOK, NEW p \in Requests, Start(p)
    PROVE  TypeOK'
<1>1. PICK kind \in Ops, user \in Users : \E len \in Lengths(kind) :
         \E items \in [1..len -> ItemsOf(kind)] :
            job' = [job EXCEPT ![p] = [kind |-> kind, user |-> user, items |-> items]]
  BY DEF Start
<1>2. PICK len \in Lengths(kind) : \E items \in [1..len -> ItemsOf(kind)] :
            job' = [job EXCEPT ![p] = [kind |-> kind, user |-> user, items |-> items]]
  BY <1>1
<1>3. PICK items \in [1..len -> ItemsOf(kind)] :
            job' = [job EXCEPT ![p] = [kind |-> kind, user |-> user, items |-> items]]
  BY <1>2
<1>4. kind \in OpKinds /\ len \in 1..MaxItems /\ ItemsOf(kind) \subseteq Item
  BY <1>2, OpsAssumption, ItemsAssumption DEF Lengths, ItemsOf, OpKinds
<1>5. items \in Seq(Item) /\ items \in Seq(ItemsOf(kind)) /\ Len(items) = len
  BY <1>3, <1>4, SeqOfFunction, ItemsAssumption
<1>6. /\ job'[p] \in Job /\ Kind(p)' = kind /\ job'[p].items = items
      /\ job' \in [Requests -> Job \cup {NoJob}]
      /\ \A q \in Requests \ {p} : job'[q] = job[q]
  <2> DEFINE new == [kind |-> kind, user |-> user, items |-> items]
  <2>1. new \in Job /\ new.kind = kind /\ new.items = items
    BY <1>1, <1>4, <1>5 DEF Job
  <2>2. job' = [job EXCEPT ![p] = new]
    BY <1>3
  <2> HIDE DEF new
  <2> QED BY <2>1, <2>2 DEF TypeOK, RequestsTypeOK, Kind
<1>7. /\ pc' \in [Requests -> Steps] /\ pc'[p] \in StepsOf(kind)
      /\ \A q \in Requests \ {p} : pc'[q] = pc[q]
  BY <1>4, <1>6, StepsByKind DEF Start, TypeOK, RequestsTypeOK, Kind
<1>8. /\ at' \in [Requests -> 1..MaxItems] /\ at'[p] = 1
      /\ \A q \in Requests \ {p} : at'[q] = at[q]
  BY ItemsAssumption DEF Start, TypeOK, RequestsTypeOK
<1>9. ASSUME NEW q \in Requests, pc'[q] # "new"
      PROVE  /\ job'[q] \in Job
             /\ at'[q] \in 1..Len(job'[q].items)
             /\ Len(job'[q].items) \in Lengths(Kind(q)')
             /\ job'[q].items \in Seq(ItemsOf(Kind(q)'))
             /\ pc'[q] \in StepsOf(Kind(q)') \cup {"done", "failed"}
  <2>1. CASE q = p
    BY <2>1, <1>4, <1>5, <1>6, <1>7, <1>8, ItemsAssumption
  <2>2. CASE q # p
    <3>1. job'[q] = job[q] /\ pc'[q] = pc[q] /\ at'[q] = at[q] /\ Kind(q)' = Kind(q)
      BY <2>2, <1>6, <1>7, <1>8 DEF Kind
    <3> QED BY <3>1, <1>9 DEF TypeOK, RequestsTypeOK
  <2> QED BY <2>1, <2>2
<1>10. TablesTypeOK'
  BY DEF Start, tables, TypeOK, TablesTypeOK
<1> QED
  BY <1>6, <1>7, <1>8, <1>9, <1>10
  DEF Start, locals, history, TypeOK, RequestsTypeOK

(* What a running handler may rely on. *)
LEMMA Running ==
    ASSUME TypeOK, NEW p \in Requests, pc[p] # "new"
    PROVE  /\ TablesTypeOK /\ RequestsTypeOK
           /\ Kind(p) \in OpKinds
           /\ This(p).name \in Names \cup {NoName}
           /\ This(p).business \in BOOLEAN
           /\ Number(p) \in Numbers
           /\ ThisId(p) \in Ids
           /\ Kind(p) = "contribute" => This(p).name \in Names
           /\ RowOf(p) \in Row \cup {NoRow}
           /\ top[p] \in Top \cup {NoTop}
           /\ row[p] \in Row \cup {NoRow}
           /\ match \in [Requests -> Ids \cup {NoId}]
           /\ top \in [Requests -> Top \cup {NoTop}]
           /\ row \in [Requests -> Row \cup {NoRow}]
           /\ answer \in [Requests -> Answer]
           /\ applied \subseteq Ids
           /\ overtaken \subseteq Ids /\ unasked \subseteq Ids
<1>1. TablesTypeOK /\ RequestsTypeOK
  BY DEF TypeOK
<1>2. /\ This(p) \in ItemsOf(Kind(p)) /\ Number(p) \in Numbers /\ ThisId(p) \in Ids
      /\ This(p).name \in Names \cup {NoName} /\ This(p).business \in BOOLEAN
      /\ Kind(p) \in OpKinds
  BY <1>1, CurrentItem DEF Kind, Job
<1>3. Kind(p) = "contribute" => This(p).name \in Names
  BY <1>2 DEF ItemsOf, Item
<1> QED
  BY <1>1, <1>2, <1>3 DEF TablesTypeOK, RequestsTypeOK, RowOf

LEMMA ContributeTypes ==
    ASSUME TypeOK, NEW p \in Requests, Contribute(p)
    PROVE  TypeOK'
<1> USE DEF tables, locals, history
<1>1. pc[p] # "new" /\ Kind(p) = "contribute"
  BY KindOfStep
  DEF Contribute, ContributeSkip, ContributeCheck, ContributeEnsure, ContributeCluster,
      ContributeVote, ContributeLead, ContributeNoLead, ContributePublish, TypeOK
<1>2. {"ensure", "cluster", "vote", "lead", "publish"} \subseteq StepsOf(Kind(p))
  BY <1>1 DEF StepsOf
<1>3. CASE ContributeSkip(p) \/ ContributeNoLead(p)
  <2>1. RequestsTypeOK'
    BY <1>1, <1>3, Running, NextItemTypes DEF ContributeSkip, ContributeNoLead
  <2> QED BY <1>3, <2>1 DEF ContributeSkip, ContributeNoLead, TypeOK, TablesTypeOK
<1>4. CASE ContributeCheck(p)
  <2>1. RequestsTypeOK'
    BY <1>1, <1>2, <1>4, Running, GotoTypes DEF ContributeCheck
  <2> QED BY <1>4, <2>1 DEF ContributeCheck, TypeOK, TablesTypeOK
<1>5. CASE ContributeEnsure(p)
  <2>1. numbers' \in [Numbers -> Row \cup {NoRow}]
    <3>1. Ensured(RowOf(p)) \in Row
      BY <1>1, Running, RowTypes DEF Ensured
    <3> QED BY <1>1, <1>5, <3>1, Running, PutRowTypes DEF ContributeEnsure
  <2>2. RequestsTypeOK'
    BY <1>1, <1>2, <1>5, Running, GotoTypes DEF ContributeEnsure
  <2> QED BY <1>5, <2>1, <2>2 DEF ContributeEnsure, TypeOK, TablesTypeOK
<1>6. CASE ContributeCluster(p)
  <2>1. match' \in [Requests -> Ids \cup {NoId}]
    <3>1. \A s \in Clusters(Number(p), This(p).name) : s.id \in Ids
      BY <1>1, Running DEF Clusters, SuggestionsFor, TablesTypeOK, Suggestion
    <3>2. PICK id \in Ids \cup {NoId} : match' = [match EXCEPT ![p] = id]
      BY <1>6, <3>1 DEF ContributeCluster
    <3> QED BY <1>1, <3>2, Running
  <2>2. RequestsTypeOK'
    BY <1>1, <1>2, <1>6, <2>1, Running, GotoTypes DEF ContributeCluster
  <2> QED BY <1>6, <2>2 DEF ContributeCluster, TypeOK, TablesTypeOK
<1>7. CASE ContributeVote(p)
  <2>1. suggestions' \subseteq Suggestion
    BY <1>1, <1>7, Running, SuggestionsTypes DEF ContributeVote
  <2>2. applied' \subseteq Ids
    BY <1>1, <1>7, Running DEF ContributeVote, Apply
  <2>3. RequestsTypeOK'
    BY <1>1, <1>2, <1>7, <2>2, Running, GotoTypes DEF ContributeVote
  <2> QED BY <1>7, <2>1, <2>3 DEF ContributeVote, TypeOK, TablesTypeOK
<1>8. CASE ContributeLead(p)
  <2>1. top' \in [Requests -> Top \cup {NoTop}]
    BY <1>1, <1>8, Running
    DEF ContributeLead, TopSuggestions, SuggestionsFor, TablesTypeOK, Suggestion, Top
  <2>2. RequestsTypeOK'
    BY <1>1, <1>2, <1>8, <2>1, Running, GotoTypes DEF ContributeLead
  <2> QED BY <1>8, <2>2 DEF ContributeLead, TypeOK, TablesTypeOK
<1>9. CASE ContributePublish(p)
  <2>1. numbers' \in [Numbers -> Row \cup {NoRow}]
    <3>1. top[p].name \in Names \cup {NoName} /\ top[p].votes \in Nat
      BY <1>1, Running DEF Top, NoTop
    <3>2. Published(RowOf(p), top[p].name, top[p].votes, This(p).business) \in Row \cup {NoRow}
      BY <1>1, <3>1, Running, RowStatements
    <3> QED BY <1>1, <1>9, <3>2, Running, PutRowTypes DEF ContributePublish
  <2>2. RequestsTypeOK'
    BY <1>1, <1>9, Running, NextItemTypes DEF ContributePublish
  <2> QED BY <1>9, <2>1, <2>2 DEF ContributePublish, TypeOK, TablesTypeOK
<1> QED
  BY <1>3, <1>4, <1>5, <1>6, <1>7, <1>8, <1>9 DEF Contribute

LEMMA ReportTypes ==
    ASSUME TypeOK, NEW p \in Requests, Report(p)
    PROVE  TypeOK'
<1> USE DEF tables, locals, history
<1>1. pc[p] # "new" /\ Kind(p) = "report"
  BY KindOfStep DEF Report, ReportRead, ReportUpsert, ReportRecord, TypeOK
<1>2. {"upsert", "record"} \subseteq StepsOf(Kind(p))
  BY <1>1 DEF StepsOf
<1>3. CASE ReportRead(p)
  <2>1. row' \in [Requests -> Row \cup {NoRow}]
    BY <1>1, <1>3, Running DEF ReportRead
  <2>2. RequestsTypeOK'
    BY <1>1, <1>2, <1>3, <2>1, Running, GotoTypes DEF ReportRead
  <2> QED BY <1>3, <2>2 DEF ReportRead, TypeOK, TablesTypeOK
<1>4. CASE ReportUpsert(p)
  <2> DEFINE known == IF row[p] = NoRow THEN BlankRow ELSE row[p]
             name  == Coalesce(This(p).name, known.name)
             count == known.reports + 1
  <2>1. known \in Row
    BY <1>1, Running, RowTypes
  <2>2. name \in Names \cup {NoName} /\ count \in Nat
    <3>1. known.name \in Names \cup {NoName} /\ known.reports \in Nat
      BY <2>1 DEF Row
    <3> HIDE DEF known
    <3> QED BY <1>1, <3>1, Running, RowTypes
  <2>3. PutRow(p, Reported(RowOf(p), name, count))
    BY <1>4 DEF ReportUpsert
  <2> HIDE DEF known, name, count
  <2>4. Reported(RowOf(p), name, count) \in Row \cup {NoRow}
    BY <1>1, <2>2, Running, RowStatements
  <2>5. numbers' \in [Numbers -> Row \cup {NoRow}]
    BY <1>1, <2>3, <2>4, Running, PutRowTypes
  <2>6. applied' \subseteq Ids /\ unasked' \subseteq Ids
    BY <1>1, <1>4, Running DEF ReportUpsert, Apply, GoUnasked
  <2>7. RequestsTypeOK'
    BY <1>1, <1>2, <1>4, <2>6, Running, GotoTypes DEF ReportUpsert
  <2> QED BY <1>4, <2>5, <2>7 DEF ReportUpsert, TypeOK, TablesTypeOK
<1>5. CASE ReportRecord(p)
  <2>1. RequestsTypeOK'
    BY <1>1, <1>5, Running, NextItemTypes DEF ReportRecord
  <2>2. reports' \subseteq [id : Requests, number : Numbers]
    BY <1>1, <1>5, Running DEF ReportRecord, InsertReport, TablesTypeOK
  <2> QED BY <1>5, <2>1, <2>2 DEF ReportRecord, TypeOK, TablesTypeOK
<1> QED BY <1>3, <1>4, <1>5 DEF Report

LEMMA DelistTypes ==
    ASSUME TypeOK, NEW p \in Requests, Delist(p)
    PROVE  TypeOK'
<1> USE DEF tables, locals, history
<1>1. pc[p] # "new" /\ Kind(p) = "delist"
  BY KindOfStep DEF Delist, DelistRegister, DelistHide, DelistPurge, TypeOK
<1>2. {"hide", "purge"} \subseteq StepsOf(Kind(p))
  BY <1>1 DEF StepsOf
<1>3. CASE DelistRegister(p)
  <2>1. overtaken' \subseteq Ids /\ delisted' \subseteq Numbers
    <3>1. ASSUME NEW q \in Requests, pc[q] \in PastCheck PROVE ThisId(q) \in Ids
      BY <3>1, Running DEF PastCheck
    <3> QED BY <1>1, <1>3, <3>1, Running DEF DelistRegister, InsertDelisted, TablesTypeOK
  <2>2. RequestsTypeOK'
    BY <1>1, <1>2, <1>3, <2>1, Running, GotoTypes DEF DelistRegister
  <2> QED BY <1>3, <2>1, <2>2 DEF DelistRegister, TypeOK, TablesTypeOK
<1>4. CASE DelistHide(p)
  <2>1. Hidden(RowOf(p)) \in Row \cup {NoRow}
    <3>1. NoName \in Names \cup {NoName} /\ 0 \in Nat /\ TRUE \in BOOLEAN
      OBVIOUS
    <3> QED BY <1>1, <3>1, Running, RowStatements
  <2>2. numbers' \in [Numbers -> Row \cup {NoRow}]
    BY <1>1, <1>4, <2>1, Running, PutRowTypes DEF DelistHide
  <2>3. RequestsTypeOK'
    BY <1>1, <1>2, <1>4, Running, GotoTypes DEF DelistHide
  <2> QED BY <1>4, <2>2, <2>3 DEF DelistHide, TypeOK, TablesTypeOK
<1>5. CASE DelistPurge(p)
  <2>1. suggestions' \subseteq Suggestion
    BY <1>1, <1>5, Running DEF DelistPurge, PurgeSuggestions, TablesTypeOK
  <2>2. RequestsTypeOK'
    BY <1>1, <1>5, Running, NextItemTypes DEF DelistPurge
  <2> QED BY <1>5, <2>1, <2>2 DEF DelistPurge, TypeOK, TablesTypeOK
<1> QED BY <1>3, <1>4, <1>5 DEF Delist

LEMMA FederationTypes ==
    ASSUME TypeOK, NEW p \in Requests, Federation(p)
    PROVE  TypeOK'
<1> USE DEF tables, locals, history
<1>1. pc[p] # "new" /\ Kind(p) = "federation"
  BY KindOfStep
  DEF Federation, FederationSkip, FederationCheck, FederationMerge, FederationStamp, TypeOK
<1>2. "merge" \in StepsOf(Kind(p))
  BY <1>1 DEF StepsOf
<1>3. CASE FederationSkip(p)
  <2>1. RequestsTypeOK'
    BY <1>1, <1>3, Running, NextItemTypes DEF FederationSkip
  <2> QED BY <1>3, <2>1 DEF FederationSkip, TypeOK, TablesTypeOK
<1>4. CASE FederationCheck(p) \/ FederationStamp(p)
  <2>1. RequestsTypeOK'
    BY <1>1, <1>2, <1>4, Running, GotoTypes DEF FederationCheck, FederationStamp
  <2> QED BY <1>4, <2>1 DEF FederationCheck, FederationStamp, TypeOK, TablesTypeOK
<1>5. CASE FederationMerge(p)
  <2>1. Merged(RowOf(p), This(p).name) \in Row \cup {NoRow}
    <3>1. 0 \in Nat /\ TRUE \in BOOLEAN
      OBVIOUS
    <3> QED BY <1>1, <3>1, Running, RowStatements
  <2>2. numbers' \in [Numbers -> Row \cup {NoRow}]
    BY <1>1, <1>5, <2>1, Running, PutRowTypes DEF FederationMerge
  <2>3. applied' \subseteq Ids
    BY <1>1, <1>5, Running DEF FederationMerge, Apply
  <2>4. RequestsTypeOK'
    BY <1>1, <1>5, <2>3, Running, NextItemTypes DEF FederationMerge
  <2> QED BY <1>5, <2>2, <2>4 DEF FederationMerge, TypeOK, TablesTypeOK
<1> QED BY <1>3, <1>4, <1>5 DEF Federation

LEMMA CrawlTypes ==
    ASSUME TypeOK, NEW p \in Requests, Crawl(p)
    PROVE  TypeOK'
<1> USE DEF tables, locals, history
<1>1. pc[p] # "new" /\ Kind(p) = "crawl"
  BY DEF Crawl, CrawlSkip, CrawlCheck, CrawlCheckFails, CrawlUpsert, CrawlUpsertFails
<1>2. "merge" \in StepsOf(Kind(p))
  BY <1>1 DEF StepsOf
<1>3. CASE CrawlSkip(p) \/ CrawlUpsertFails(p)
  <2>1. RequestsTypeOK'
    BY <1>1, <1>3, Running, NextItemTypes DEF CrawlSkip, CrawlUpsertFails
  <2> QED BY <1>3, <2>1 DEF CrawlSkip, CrawlUpsertFails, TypeOK, TablesTypeOK
<1>4. CASE CrawlCheck(p) \/ CrawlCheckFails(p)
  <2>1. unasked' \subseteq Ids
    BY <1>1, <1>4, Running DEF CrawlCheck, CrawlCheckFails, GoUnasked
  <2>2. RequestsTypeOK'
    BY <1>1, <1>2, <1>4, <2>1, Running, GotoTypes DEF CrawlCheck, CrawlCheckFails
  <2> QED BY <1>4, <2>2 DEF CrawlCheck, CrawlCheckFails, TypeOK, TablesTypeOK
<1>5. CASE CrawlUpsert(p)
  <2>1. Crawled(RowOf(p), This(p).name) \in Row \cup {NoRow}
    <3>1. 0 \in Nat /\ TRUE \in BOOLEAN
      OBVIOUS
    <3> QED BY <1>1, <3>1, Running, RowStatements
  <2>2. numbers' \in [Numbers -> Row \cup {NoRow}]
    BY <1>1, <1>5, <2>1, Running, PutRowTypes DEF CrawlUpsert
  <2>3. applied' \subseteq Ids
    BY <1>1, <1>5, Running DEF CrawlUpsert, Apply
  <2>4. RequestsTypeOK'
    BY <1>1, <1>5, <2>3, Running, NextItemTypes DEF CrawlUpsert
  <2> QED BY <1>5, <2>2, <2>4 DEF CrawlUpsert, TypeOK, TablesTypeOK
<1> QED BY <1>3, <1>4, <1>5 DEF Crawl

LEMMA LookupTypes ==
    ASSUME TypeOK, NEW p \in Requests, Lookup(p)
    PROVE  TypeOK'
<1> USE DEF tables, locals, history
<1>1. pc[p] # "new" /\ Kind(p) = "lookup"
  BY KindOfStep
  DEF Lookup, LookupDelisted, LookupCheck, LookupRow, LookupNameless, LookupHint, TypeOK
<1>2. {"row", "hint"} \subseteq StepsOf(Kind(p))
  BY <1>1 DEF StepsOf
<1>3. ASSUME NEW name \in Names \cup {NoName}, NEW c \in 0..3, Respond(p, name, c)
      PROVE  answer' \in [Requests -> Answer]
  BY <1>1, <1>3, Running DEF Respond, Answer
<1>4. CASE LookupCheck(p)
  <2>1. RequestsTypeOK'
    BY <1>1, <1>2, <1>4, Running, GotoTypes DEF LookupCheck
  <2> QED BY <1>4, <2>1 DEF LookupCheck, TypeOK, TablesTypeOK
<1>5. CASE LookupNameless(p)
  <2>1. row' \in [Requests -> Row \cup {NoRow}]
    BY <1>1, <1>5, Running DEF LookupNameless
  <2>2. RequestsTypeOK'
    BY <1>1, <1>2, <1>5, <2>1, Running, GotoTypes DEF LookupNameless
  <2> QED BY <1>5, <2>2 DEF LookupNameless, TypeOK, TablesTypeOK
<1>6. CASE LookupDelisted(p) \/ LookupRow(p) \/ LookupHint(p)
  <2>1. answer' \in [Requests -> Answer]
    <3>1. CASE LookupDelisted(p)
      BY <3>1, <1>3 DEF LookupDelisted
    <3>2. CASE LookupRow(p)
      <4>1. RowOf(p) \in Row
        BY <1>1, <3>2, Running DEF LookupRow, Settled
      <4> QED BY <3>2, <4>1, <1>3 DEF LookupRow, Row
    <3>3. CASE LookupHint(p)
      <4>1. \A s \in TopSuggestions(Number(p)) : s.name \in Names /\ Level(s.votes) \in 0..3
        BY <1>1, Running, RowTypes DEF TopSuggestions, SuggestionsFor, TablesTypeOK, Suggestion
      <4>2. row[p] # NoRow => row[p].confidence \in 0..3
        BY <1>1, Running DEF Row
      <4> QED BY <3>3, <4>1, <4>2, <1>3 DEF LookupHint
    <3> QED BY <1>6, <3>1, <3>2, <3>3
  <2>2. RequestsTypeOK'
    BY <1>1, <1>6, <2>1, Running, NextItemTypes DEF LookupDelisted, LookupRow, LookupHint
  <2> QED BY <1>6, <2>2 DEF LookupDelisted, LookupRow, LookupHint, TypeOK, TablesTypeOK
<1> QED BY <1>4, <1>5, <1>6 DEF Lookup

(* The tables and the locals of every handler stay well typed.  Every other
   theorem rests on it.                                                     *)
THEOREM TypeCorrect == Spec => []TypeOK
<1>1. Init => TypeOK
  BY ItemsAssumption, RowTypes
  DEF Init, TablesInit, TypeOK, TablesTypeOK, RequestsTypeOK, NoTop, NoAnswer, Answer, Steps
<1>2. TypeOK /\ [Next]_vars => TypeOK'
  <2> SUFFICES ASSUME TypeOK, [Next]_vars PROVE TypeOK'
    OBVIOUS
  <2>1. CASE UNCHANGED vars
    BY <2>1
    DEF vars, tables, locals, history, TypeOK, TablesTypeOK, RequestsTypeOK, Kind
  <2>2. ASSUME NEW p \in Requests, Fail(p) PROVE TypeOK'
    <3>1. pc[p] # "new"
      BY <2>2 DEF Fail, InFlight
    <3>2. RequestsTypeOK'
      BY <2>2, <3>1, Running, GotoTypes DEF Fail, locals, history
    <3> QED BY <2>2, <3>2 DEF Fail, tables, TypeOK, TablesTypeOK
  <2> QED
    BY <2>1, <2>2, StartTypes, ContributeTypes, ReportTypes, DelistTypes, FederationTypes,
       CrawlTypes, LookupTypes DEF Next
<1> QED BY <1>1, <1>2, PTL DEF Spec

-----------------------------------------------------------------------------
(* A published confidence is earned, for every number of requests, numbers and
   names: ConfidenceBacked, NoConfidenceWithoutName and AnswerBacked.  They are
   inductive only together, and only with what the handlers carry across their
   awaits (CarriedReadsHold).                                                *)
EarnedInv ==
    /\ TypeOK
    /\ CarriedReadsHold
    /\ ConfidenceBacked
    /\ NoConfidenceWithoutName
    /\ AnswerBacked

-----------------------------------------------------------------------------
(* A row that has a confidence has a name and is public. *)
SoundRow(r) == r # NoRow /\ r.confidence > 0 => r.name # NoName /\ ~r.private

(* Row new claims no more than row r did. *)
Inherits(r, new) ==
    /\ new.confidence > 0 => /\ r # NoRow
                             /\ new.confidence = r.confidence
                             /\ new.name = r.name
                             /\ ~r.private
                             /\ ~new.private
    /\ new.verified => r # NoRow /\ r.verified

(* The suggestions for n only gain votes in this step. *)
Kept(n) ==
    \A s \in SuggestionsFor(n) : \E t \in suggestions' :
        t.number = n /\ t.name = s.name /\ t.votes >= s.votes

LEMMA StatementsInherit ==
    ASSUME NEW r \in Row \cup {NoRow}, SoundRow(r), NEW name \in Names \cup {NoName},
           NEW count \in Nat
    PROVE  /\ Inherits(r, Ensured(r))
           /\ Inherits(r, Reported(r, name, count))
           /\ Inherits(r, Merged(r, name))
           /\ Inherits(r, Crawled(r, name))
           /\ Hidden(r) # NoRow => Inherits(r, Hidden(r))
<1>1. CASE r = NoRow
  BY <1>1 DEF Inherits, Ensured, Reported, Merged, Crawled, Hidden, BlankRow
<1>2. CASE r \in Row /\ r # NoRow
  <2>1. Inherits(r, Ensured(r))
    BY <1>2 DEF Inherits, Ensured, SoundRow
  <2>2. Inherits(r, Reported(r, name, count))
    BY <1>2 DEF Inherits, Reported, SoundRow, Coalesce, Row
  <2>3. Inherits(r, Merged(r, name))
    BY <1>2 DEF Inherits, Merged, SoundRow, Coalesce, Row
  <2>4. Inherits(r, Crawled(r, name))
    BY <1>2 DEF Inherits, Crawled, SoundRow, Coalesce, Row
  <2>5. Inherits(r, Hidden(r))
    BY <1>2 DEF Inherits, Hidden, Row
  <2> QED BY <2>1, <2>2, <2>3, <2>4, <2>5
<1> QED BY <1>1, <1>2

(* Publishing gives the level of the votes it was handed, on a public row. *)
LEMMA PublishedClaims ==
    ASSUME NEW r \in Row, NEW name \in Names, NEW votes \in Nat \ {0},
           NEW business \in BOOLEAN
    PROVE  LET new == Published(r, name, votes, business) IN
           \/ r.private /\ new = r
           \/ /\ ~r.private /\ ~new.private
              /\ new.name = name
              /\ new.confidence <= votes
              /\ new.verified => r.verified \/ votes >= 3
<1>1. r # NoRow /\ Level(votes) <= votes
  BY RowTypes
<1>2. CASE r.private
  BY <1>2 DEF Published
<1>3. CASE ~r.private
  <2> DEFINE v == r.verified \/ (business /\ votes >= 3)
             new == [r EXCEPT !.name = name, !.confidence = Level(votes), !.verified = v]
  <2>1. Published(r, name, votes, business) = new
    BY <1>1, <1>3 DEF Published
  <2> HIDE DEF v
  <2>2. new.name = name /\ new.confidence = Level(votes) /\ new.private = r.private
        /\ new.verified = v
    BY DEF Row
  <2>3. v => r.verified \/ votes >= 3
    BY DEF v
  <2> QED BY <1>1, <1>3, <2>1, <2>2, <2>3
<1> QED BY <1>2, <1>3
-----------------------------------------------------------------------------
(* EarnedInv, taken apart: what it says of a number's row, and of a request. *)
RowSound(n) ==
    /\ SoundRow(numbers[n])
    /\ n \notin delisted /\ numbers[n] # NoRow => RowBacked(n, numbers[n])

CarriedBy(q) ==
    /\ pc[q] \in {"hide", "purge"} => Number(q) \in delisted
    /\ pc[q] = "publish" =>
         /\ top[q] # NoTop
         /\ Number(q) \notin delisted => Backed(Number(q), top[q].name, top[q].votes)
    /\ pc[q] = "hint" => row[q] = NoRow \/ row[q].confidence = 0
    /\ answer[q].confidence > 0 =>
         /\ pc[q] = "done"
         /\ answer[q].name # NoName
         /\ Number(q) \notin delisted =>
              Backed(Number(q), answer[q].name, answer[q].confidence)

LEMMA EarnedParts ==
    EarnedInv <=> /\ TypeOK
                  /\ \A n \in Numbers : RowSound(n)
                  /\ \A q \in Requests : CarriedBy(q)
  BY DEF EarnedInv, CarriedReadsHold, DelistedFirst, LeadIsEarned, HintIsNameless,
         AnswerIsFinal, ConfidenceBacked, NoConfidenceWithoutName, AnswerBacked, RowSound,
         SoundRow, CarriedBy

LEMMA BackedStays ==
    ASSUME TypeOK, TypeOK', NEW n \in Numbers, Kept(n), NEW name, NEW level \in Nat,
           Backed(n, name, level)
    PROVE  Backed(n, name, level)'
<1>1. PICK s \in SuggestionsFor(n) : s.name = name /\ s.votes >= level
  BY DEF Backed
<1>2. PICK t \in suggestions' : t.number = n /\ t.name = s.name /\ t.votes >= s.votes
  BY DEF Kept
<1>3. s.votes \in Nat /\ t.votes \in Nat
  BY DEF SuggestionsFor, TypeOK, TablesTypeOK, Suggestion
<1>4. t \in SuggestionsFor(n)' /\ t.name = name /\ t.votes >= level
  BY <1>1, <1>2, <1>3 DEF SuggestionsFor
<1> QED BY <1>4 DEF Backed

(* A row that claims no more than before stays sound. *)
LEMMA RowStaysSound ==
    ASSUME TypeOK, TypeOK', delisted \subseteq delisted', NEW n \in Numbers,
           n \notin delisted => Kept(n),
           RowSound(n), numbers'[n] # NoRow => Inherits(numbers[n], numbers'[n])
    PROVE  RowSound(n)'
<1>1. SUFFICES ASSUME numbers'[n] # NoRow PROVE RowSound(n)'
  BY DEF RowSound, SoundRow
<1> PICK r, new : r = numbers[n] /\ new = numbers'[n]
  OBVIOUS
<1>2. new \in Row /\ r \in Row \cup {NoRow}
  BY <1>1 DEF TypeOK, TablesTypeOK
<1>3. SoundRow(new)
  BY <1>2 DEF RowSound, SoundRow, Inherits
<1>4. ASSUME n \notin delisted' PROVE RowBacked(n, numbers[n])'
  <2>1. Kept(n) /\ n \notin delisted
    BY <1>4
  <2>2. ASSUME new.confidence > 0 PROVE Backed(n, new.name, new.confidence)'
    <3>1. r # NoRow /\ new.confidence = r.confidence /\ new.name = r.name
      BY <2>2, <1>1 DEF Inherits
    <3>2. Backed(n, new.name, new.confidence)
      BY <2>1, <2>2, <3>1 DEF RowSound, RowBacked
    <3>3. new.confidence \in Nat
      BY <1>2 DEF Row
    <3> QED BY <2>1, <3>2, <3>3, BackedStays
  <2>3. ASSUME new.verified PROVE \E t \in SuggestionsFor(n)' : t.votes >= 3
    <3>1. PICK s \in SuggestionsFor(n) : s.votes >= 3
      BY <1>1, <2>1, <2>3 DEF RowSound, RowBacked, Inherits
    <3>2. Backed(n, s.name, 3)
      BY <3>1 DEF Backed
    <3>3. Backed(n, s.name, 3)'
      BY <2>1, <3>2, BackedStays
    <3> QED BY <3>3 DEF Backed
  <2> QED BY <2>2, <2>3 DEF RowBacked
<1> QED BY <1>1, <1>3, <1>4 DEF RowSound, SoundRow

(* A request that does not move keeps what it carries. *)
LEMMA BystanderCarries ==
    ASSUME TypeOK, TypeOK', delisted \subseteq delisted',
           \A n \in Numbers \ delisted : Kept(n),
           NEW q \in Requests, CarriedBy(q), UNCHANGED job,
           pc'[q] = pc[q], at'[q] = at[q], top'[q] = top[q], row'[q] = row[q],
           answer'[q] = answer[q]
    PROVE  CarriedBy(q)'
<1>1. Number(q)' = Number(q)
  BY DEF Number, This
<1>2. CASE pc[q] = "new"
  BY <1>2 DEF CarriedBy
<1>3. CASE pc[q] # "new"
  <2>1. Number(q) \in Numbers /\ top[q] \in Top \cup {NoTop} /\ answer[q] \in Answer
    BY <1>3, Running DEF Answer
  <2>2. PICK n, lead, told : n = Number(q) /\ lead = top[q] /\ told = answer[q]
    OBVIOUS
  <2>3. /\ Number(q)' = n /\ top'[q] = lead /\ answer'[q] = told
        /\ n \in Numbers
        /\ told.confidence \in Nat
    BY <1>1, <2>1, <2>2 DEF Answer
  <2>4. ASSUME pc[q] = "publish", n \notin delisted'
        PROVE  Backed(n, lead.name, lead.votes)'
    <3>1. Backed(n, lead.name, lead.votes) /\ lead.votes \in Nat
      BY <2>1, <2>2, <2>4 DEF CarriedBy, Top
    <3> QED BY <2>3, <2>4, <3>1, BackedStays
  <2>5. ASSUME told.confidence > 0, n \notin delisted'
        PROVE  Backed(n, told.name, told.confidence)'
    <3>1. Backed(n, told.name, told.confidence)
      BY <2>2, <2>5 DEF CarriedBy
    <3> QED BY <2>3, <2>5, <3>1, BackedStays
  <2>6. /\ pc'[q] = "publish" /\ Number(q)' \notin delisted' =>
             Backed(Number(q), top[q].name, top[q].votes)'
        /\ answer'[q].confidence > 0 /\ Number(q)' \notin delisted' =>
             Backed(Number(q), answer[q].name, answer[q].confidence)'
    BY <2>3, <2>4, <2>5
  <2>7. /\ pc'[q] \in {"hide", "purge"} => Number(q)' \in delisted'
        /\ pc'[q] = "publish" => top'[q] # NoTop
        /\ pc'[q] = "hint" => row'[q] = NoRow \/ row'[q].confidence = 0
        /\ answer'[q].confidence > 0 => pc'[q] = "done" /\ answer'[q].name # NoName
    BY <1>1 DEF CarriedBy
  <2> QED BY <2>6, <2>7 DEF CarriedBy
<1> QED BY <1>2, <1>3

(* A request that answered nothing and carries nothing on has nothing to keep. *)
LEMMA QuietStep ==
    ASSUME TypeOK, NEW p \in Requests, CarriedBy(p), pc[p] # "done",
           answer'[p] = answer[p], pc'[p] \notin {"hide", "purge", "publish", "hint"}
    PROVE  CarriedBy(p)'
<1>1. answer[p].confidence \in 0..3
  BY DEF TypeOK, RequestsTypeOK, Answer
<1>2. ~(answer'[p].confidence > 0)
  BY <1>1 DEF CarriedBy
<1> QED BY <1>2 DEF CarriedBy
-----------------------------------------------------------------------------
(* The statements on suggestions only add votes, but for the purge. *)
LEMMA SameSuggestionsKeep ==
    ASSUME TypeOK, NEW n, UNCHANGED suggestions
    PROVE  Kept(n)
<1>1. \A s \in SuggestionsFor(n) : s \in suggestions /\ s.number = n /\ s.votes \in Nat
  BY DEF SuggestionsFor, TypeOK, TablesTypeOK, Suggestion
<1> QED BY <1>1 DEF Kept

LEMMA VotesKeep ==
    ASSUME TypeOK, NEW n, NEW any, NEW id, NEW m, NEW name,
           VoteForCluster(any) \/ InsertSuggestion(id, m, name)
    PROVE  Kept(n)
<1>1. \A s \in SuggestionsFor(n) :
        s \in suggestions /\ s \in Suggestion /\ s.number = n /\ s.votes \in Nat
  BY DEF SuggestionsFor, TypeOK, TablesTypeOK, Suggestion
<1>2. ASSUME NEW chosen, suggestions' = Increment(chosen) PROVE Kept(n)
  <2>1. SUFFICES ASSUME NEW s \in SuggestionsFor(n)
                 PROVE \E t \in suggestions' :
                         t.number = n /\ t.name = s.name /\ t.votes >= s.votes
    BY DEF Kept
  <2>2. CASE s \in chosen
    <3> DEFINE t == [s EXCEPT !.votes = @ + 1]
    <3>1. t \in suggestions'
      BY <1>1, <1>2, <2>2 DEF Increment
    <3>2. t.number = n /\ t.name = s.name /\ t.votes >= s.votes
      BY <1>1 DEF Suggestion
    <3> QED BY <3>1, <3>2
  <2>3. CASE s \notin chosen
    <3>1. s \in suggestions'
      BY <1>1, <1>2, <2>3 DEF Increment
    <3> QED BY <1>1, <3>1
  <2> QED BY <2>2, <2>3
<1>3. ASSUME NEW new, suggestions' = suggestions \cup {new} PROVE Kept(n)
  BY <1>1, <1>3 DEF Kept
<1> QED BY <1>2, <1>3 DEF VoteForCluster, InsertSuggestion

LEMMA PurgeKeepsOthers ==
    ASSUME TypeOK, NEW n, NEW m, n # m, PurgeSuggestions(m)
    PROVE  Kept(n)
<1>1. \A s \in SuggestionsFor(n) : s \in suggestions' /\ s.number = n /\ s.votes \in Nat
  BY DEF PurgeSuggestions, SuggestionsFor, TypeOK, TablesTypeOK, Suggestion
<1> QED BY <1>1 DEF Kept

(* Rows: those a step leaves alone, and the one it puts. *)
LEMMA SameRowsSound ==
    ASSUME EarnedInv, TypeOK', delisted \subseteq delisted', UNCHANGED numbers,
           \A n \in Numbers \ delisted : Kept(n)
    PROVE  \A n \in Numbers : RowSound(n)'
<1>1. SUFFICES ASSUME NEW n \in Numbers PROVE RowSound(n)'
  OBVIOUS
<1>2. TypeOK /\ RowSound(n)
  BY EarnedParts
<1>3. numbers'[n] # NoRow => Inherits(numbers[n], numbers'[n])
  BY <1>2 DEF RowSound, SoundRow, Inherits, TypeOK, TablesTypeOK, Row
<1> QED BY <1>2, <1>3, RowStaysSound

LEMMA PutRowSound ==
    ASSUME EarnedInv, TypeOK', delisted \subseteq delisted',
           \A n \in Numbers \ delisted : Kept(n),
           NEW p \in Requests, NEW new, PutRow(p, new),
           new # NoRow => Inherits(RowOf(p), new)
    PROVE  \A n \in Numbers : RowSound(n)'
<1>1. SUFFICES ASSUME NEW n \in Numbers PROVE RowSound(n)'
  OBVIOUS
<1>2. TypeOK /\ RowSound(n)
  BY EarnedParts
<1>3. numbers'[n] # NoRow => Inherits(numbers[n], numbers'[n])
  <2>1. CASE n = Number(p)
    BY <1>2, <2>1 DEF PutRow, RowOf, TypeOK, TablesTypeOK
  <2>2. CASE n # Number(p)
    BY <1>2, <2>2 DEF PutRow, RowSound, SoundRow, Inherits, TypeOK, TablesTypeOK, Row
  <2> QED BY <2>1, <2>2
<1> QED BY <1>2, <1>3, RowStaysSound

(* A step of p that moves nobody else. *)
LEMMA StepEarned ==
    ASSUME EarnedInv, TypeOK', NEW p \in Requests, UNCHANGED job,
           delisted \subseteq delisted',
           \A n \in Numbers \ delisted : Kept(n),
           \A q \in Requests \ {p} : /\ pc'[q] = pc[q] /\ at'[q] = at[q]
                                     /\ top'[q] = top[q] /\ row'[q] = row[q]
                                     /\ answer'[q] = answer[q],
           \A n \in Numbers : RowSound(n)',
           CarriedBy(p)'
    PROVE  EarnedInv'
<1>1. ASSUME NEW q \in Requests PROVE CarriedBy(q)'
  <2>1. CASE q = p
    BY <2>1
  <2>2. CASE q # p
    BY <2>2, EarnedParts, BystanderCarries
  <2> QED BY <2>1, <2>2
<1> QED
  BY <1>1
  DEF EarnedInv, CarriedReadsHold, DelistedFirst, LeadIsEarned, HintIsNameless,
      AnswerIsFinal, ConfidenceBacked, NoConfidenceWithoutName, AnswerBacked, RowSound,
      SoundRow, CarriedBy

LEMMA GotoMovesOne ==
    ASSUME TypeOK, NEW p \in Requests, NEW step, Goto(p, step)
    PROVE  pc'[p] = step /\ \A q \in Requests \ {p} : pc'[q] = pc[q]
  BY DEF Goto, TypeOK, RequestsTypeOK

LEMMA NextItemMovesOne ==
    ASSUME TypeOK, NEW p \in Requests, NextItem(p)
    PROVE  /\ pc'[p] \notin {"hide", "purge", "publish", "hint"}
           /\ \A q \in Requests \ {p} : /\ pc'[q] = pc[q] /\ at'[q] = at[q]
                                        /\ top'[q] = top[q] /\ row'[q] = row[q]
<1>1. \A kind : First(kind) \in {"read", "register", "check"}
  BY DEF First
<1>2. PICK step \in {"read", "register", "check", "stamp", "done"} : Goto(p, step)
  BY <1>1 DEF NextItem
<1> QED BY <1>2, GotoMovesOne DEF NextItem, TypeOK, RequestsTypeOK
-----------------------------------------------------------------------------
(* The handlers, one lemma each. *)
LEMMA StartEarned ==
    ASSUME EarnedInv, TypeOK', NEW p \in Requests, Start(p)
    PROVE  EarnedInv'
<1> USE DEF tables, locals, history
<1>1. TypeOK /\ CarriedBy(p) /\ pc[p] = "new"
  BY EarnedParts DEF Start
<1>2. \A q \in Requests \ {p} : job'[q] = job[q] /\ pc'[q] = pc[q] /\ at'[q] = at[q]
  BY <1>1 DEF Start, TypeOK, RequestsTypeOK
<1>3. \A n \in Numbers : Kept(n) /\ RowSound(n)'
  BY <1>1, SameSuggestionsKeep, SameRowsSound DEF Start
<1>4. CarriedBy(p)'
  <2>1. \A kind : First(kind) \in {"read", "register", "check"}
    BY DEF First
  <2>2. pc'[p] \in {"read", "register", "check"}
    BY <1>1, <2>1 DEF Start, TypeOK, RequestsTypeOK
  <2> QED BY <1>1, <2>2, QuietStep DEF Start
<1>5. ASSUME NEW q \in Requests, q # p PROVE CarriedBy(q)'
  <2>1. CarriedBy(q)
    BY EarnedParts
  <2>2. /\ Number(q)' = Number(q) /\ pc'[q] = pc[q]
        /\ UNCHANGED <<suggestions, delisted, top, row, answer>>
    BY <1>2, <1>5 DEF Start, Number, This
  <2> QED BY <2>1, <2>2 DEF CarriedBy, Backed, SuggestionsFor
<1> QED
  BY <1>3, <1>4, <1>5
  DEF EarnedInv, CarriedReadsHold, DelistedFirst, LeadIsEarned, HintIsNameless,
      AnswerIsFinal, ConfidenceBacked, NoConfidenceWithoutName, AnswerBacked, RowSound,
      SoundRow, CarriedBy

(* The publishing UPDATE: what it claims, the leader read before it backs. *)
LEMMA PublishSound ==
    ASSUME EarnedInv, TypeOK', NEW p \in Requests, ContributePublish(p),
           \A n \in Numbers : Kept(n)
    PROVE  \A n \in Numbers : RowSound(n)'
<1> USE DEF tables, locals, history
<1>1. TypeOK /\ CarriedBy(p) /\ pc[p] = "publish" /\ UNCHANGED delisted
  BY EarnedParts DEF ContributePublish
<1> PICK m, r, lead, business :
      m = Number(p) /\ r = RowOf(p) /\ lead = top[p] /\ business = This(p).business
  OBVIOUS
<1>2. /\ m \in Numbers /\ r \in Row \cup {NoRow} /\ business \in BOOLEAN
      /\ lead \in Top /\ lead.name \in Names /\ lead.votes \in Nat \ {0}
      /\ m \notin delisted => Backed(m, lead.name, lead.votes)
  BY <1>1, Running DEF CarriedBy, Top
<1> DEFINE new == Published(r, lead.name, lead.votes, business)
<1>3. numbers' = [numbers EXCEPT ![m] = new]
  BY DEF ContributePublish, PutRow
<1>4. ASSUME NEW n \in Numbers PROVE RowSound(n)'
  <2>1. RowSound(n) /\ Kept(n) /\ RowSound(m)
    BY <1>2, EarnedParts
  <2>2. CASE n # m \/ new = r
    <3>1. numbers'[n] = numbers[n]
      BY <1>1, <1>3, <2>2 DEF RowOf, TypeOK, TablesTypeOK
    <3>2. numbers'[n] # NoRow => Inherits(numbers[n], numbers'[n])
      BY <1>1, <2>1, <3>1 DEF RowSound, SoundRow, Inherits, TypeOK, TablesTypeOK, Row
    <3> QED BY <1>1, <2>1, <3>2, RowStaysSound
  <2>3. CASE n = m /\ new # r /\ numbers'[n] # NoRow
    <3>1. r \in Row
      BY <1>2, <2>3 DEF Published
    <3> PICK after : after = new
      OBVIOUS
    <3>2. /\ ~after.private /\ after.name = lead.name /\ after.confidence <= lead.votes
          /\ after.verified => r.verified \/ lead.votes >= 3
      BY <1>2, <2>3, <3>1, PublishedClaims
    <3>3. numbers'[n] = after /\ after \in Row /\ numbers[n] = r
      <4>1. numbers'[n] = after /\ numbers[n] = r
        BY <1>1, <1>2, <1>3, <2>3 DEF RowOf, TypeOK, TablesTypeOK
      <4>2. after \in Row \cup {NoRow}
        BY <1>2, RowStatements
      <4> QED BY <2>3, <4>1, <4>2
    <3> HIDE DEF new
    <3>4. ASSUME n \notin delisted' PROVE RowBacked(n, numbers[n])'
      <4>1. n \notin delisted /\ Backed(n, lead.name, lead.votes)
        BY <1>1, <1>2, <2>3, <3>4
      <4>2. Backed(n, lead.name, lead.votes)'
        BY <1>1, <1>2, <2>1, <4>1, BackedStays
      <4>3. PICK t \in SuggestionsFor(n)' : t.name = lead.name /\ t.votes >= lead.votes
        BY <4>2 DEF Backed
      <4>4. t.votes \in Nat /\ after.confidence \in Nat
        BY <3>3, <4>3 DEF SuggestionsFor, TypeOK, TablesTypeOK, Suggestion, Row
      <4>5. Backed(n, after.name, after.confidence)'
        BY <1>2, <3>2, <4>3, <4>4 DEF Backed
      <4>6. ASSUME r.verified PROVE \E s \in SuggestionsFor(n)' : s.votes >= 3
        <5>1. PICK s \in SuggestionsFor(n) : s.votes >= 3
          BY <2>1, <3>1, <3>3, <4>1, <4>6, RowTypes DEF RowSound, RowBacked
        <5>2. Backed(n, s.name, 3)
          BY <5>1 DEF Backed
        <5>3. Backed(n, s.name, 3)'
          BY <1>1, <2>1, <5>2, BackedStays
        <5> QED BY <5>3 DEF Backed
      <4>7. ASSUME after.verified PROVE \E s \in SuggestionsFor(n)' : s.votes >= 3
        BY <1>2, <3>2, <4>3, <4>4, <4>6, <4>7
      <4> QED BY <3>3, <4>5, <4>7 DEF RowBacked
    <3>5. after.name # NoName
      BY <1>2, <3>2, NamesAssumption
    <3> QED BY <3>2, <3>3, <3>4, <3>5 DEF RowSound, SoundRow
  <2>4. CASE numbers'[n] = NoRow
    BY <2>4 DEF RowSound, SoundRow
  <2> QED BY <2>2, <2>3, <2>4
<1> QED BY <1>4

LEMMA ContributeEarned ==
    ASSUME EarnedInv, TypeOK', NEW p \in Requests, Contribute(p)
    PROVE  EarnedInv'
<1> USE DEF tables, locals, history
<1>1. TypeOK /\ CarriedBy(p)
  BY EarnedParts
<1>2. pc[p] \notin {"new", "done"} /\ Kind(p) = "contribute" /\ UNCHANGED <<job, delisted, answer>>
  BY <1>1, KindOfStep
  DEF Contribute, ContributeSkip, ContributeCheck, ContributeEnsure, ContributeCluster,
      ContributeVote, ContributeLead, ContributeNoLead, ContributePublish, TypeOK
<1>3. \A n \in Numbers : Kept(n)
  <2>1. \/ UNCHANGED suggestions
        \/ VoteForCluster(match[p])
        \/ InsertSuggestion(ThisId(p), Number(p), This(p).name)
    BY DEF Contribute, ContributeSkip, ContributeCheck, ContributeEnsure, ContributeCluster,
           ContributeVote, ContributeLead, ContributeNoLead, ContributePublish
  <2> QED BY <1>1, <2>1, SameSuggestionsKeep, VotesKeep
<1>4. CASE \/ ContributeSkip(p) \/ ContributeCheck(p) \/ ContributeCluster(p)
           \/ ContributeVote(p) \/ ContributeNoLead(p)
  <2>1. /\ pc'[p] \notin {"hide", "purge", "publish", "hint"}
        /\ \A q \in Requests \ {p} : /\ pc'[q] = pc[q] /\ at'[q] = at[q]
                                     /\ top'[q] = top[q] /\ row'[q] = row[q]
    BY <1>1, <1>4, GotoMovesOne, NextItemMovesOne
    DEF ContributeSkip, ContributeCheck, ContributeCluster, ContributeVote, ContributeNoLead
  <2>2. UNCHANGED numbers
    BY <1>4
    DEF ContributeSkip, ContributeCheck, ContributeCluster, ContributeVote, ContributeNoLead
  <2>3. CarriedBy(p)'
    BY <1>1, <1>2, <2>1, QuietStep
  <2> QED BY <1>1, <1>2, <1>3, <2>1, <2>2, <2>3, SameRowsSound, StepEarned
<1>5. CASE ContributeEnsure(p)
  <2>1. /\ pc'[p] = "cluster"
        /\ \A q \in Requests \ {p} : /\ pc'[q] = pc[q] /\ at'[q] = at[q]
                                     /\ top'[q] = top[q] /\ row'[q] = row[q]
    BY <1>1, <1>5, GotoMovesOne DEF ContributeEnsure
  <2>2. CarriedBy(p)'
    BY <1>1, <1>2, <2>1, QuietStep
  <2>3. Inherits(RowOf(p), Ensured(RowOf(p)))
    <3>1. RowOf(p) \in Row \cup {NoRow} /\ SoundRow(RowOf(p)) /\ NoName \in Names \cup {NoName}
      BY <1>1, <1>2, Running, EarnedParts DEF RowSound, RowOf
    <3> QED BY <3>1, 0 \in Nat, StatementsInherit
  <2>4. \A n \in Numbers : RowSound(n)'
    BY <1>2, <1>3, <1>5, <2>3, PutRowSound DEF ContributeEnsure
  <2> QED BY <1>1, <1>2, <1>3, <2>1, <2>2, <2>4, StepEarned
<1>6. CASE ContributeLead(p)
  <2>1. /\ pc'[p] = "publish" /\ at' = at
        /\ \A q \in Requests \ {p} : /\ pc'[q] = pc[q] /\ at'[q] = at[q]
                                     /\ top'[q] = top[q] /\ row'[q] = row[q]
    BY <1>1, <1>6, GotoMovesOne DEF ContributeLead, TypeOK, RequestsTypeOK
  <2>2. PICK s \in TopSuggestions(Number(p)) :
          top' = [top EXCEPT ![p] = [name |-> s.name, votes |-> s.votes]]
    BY <1>6 DEF ContributeLead
  <2>3. top'[p] = [name |-> s.name, votes |-> s.votes]
    BY <1>1, <2>2 DEF TypeOK, RequestsTypeOK
  <2>4. s \in suggestions /\ s.number = Number(p) /\ s.votes \in Nat \ {0}
    BY <1>1, <2>2 DEF TopSuggestions, SuggestionsFor, TypeOK, TablesTypeOK, Suggestion
  <2>5. UNCHANGED <<numbers, suggestions>> /\ Number(p)' = Number(p)
    BY <1>6, <2>1 DEF ContributeLead, Number, This
  <2>6. top'[p] # NoTop /\ top'[p].name = s.name /\ top'[p].votes = s.votes
    BY <2>3, <2>4 DEF NoTop
  <2>7. Backed(Number(p), top[p].name, top[p].votes)'
    BY <2>4, <2>5, <2>6 DEF Backed, SuggestionsFor
  <2>8. ~(answer'[p].confidence > 0)
    BY <1>1, <1>2 DEF CarriedBy, TypeOK, RequestsTypeOK, Answer
  <2>9. CarriedBy(p)'
    BY <2>1, <2>6, <2>7, <2>8 DEF CarriedBy
  <2> QED BY <1>1, <1>2, <1>3, <2>1, <2>5, <2>9, SameRowsSound, StepEarned
<1>7. CASE ContributePublish(p)
  <2>1. /\ pc'[p] \notin {"hide", "purge", "publish", "hint"}
        /\ \A q \in Requests \ {p} : /\ pc'[q] = pc[q] /\ at'[q] = at[q]
                                     /\ top'[q] = top[q] /\ row'[q] = row[q]
    BY <1>1, <1>7, NextItemMovesOne DEF ContributePublish
  <2>2. CarriedBy(p)'
    BY <1>1, <1>2, <2>1, QuietStep
  <2>3. \A n \in Numbers : RowSound(n)'
    BY <1>1, <1>2, <1>3, <1>7, PublishSound
  <2> QED BY <1>1, <1>2, <1>3, <2>1, <2>2, <2>3, StepEarned
<1> QED BY <1>4, <1>5, <1>6, <1>7 DEF Contribute

(* What the other handlers have in common: they add no vote and publish none. *)
LEMMA RowOfSound ==
    ASSUME EarnedInv, NEW p \in Requests, pc[p] # "new"
    PROVE  RowOf(p) \in Row \cup {NoRow} /\ SoundRow(RowOf(p))
  BY EarnedParts, Running DEF RowSound, RowOf

LEMMA ReportEarned ==
    ASSUME EarnedInv, TypeOK', NEW p \in Requests, Report(p)
    PROVE  EarnedInv'
<1> USE DEF tables, locals, history
<1>1. TypeOK /\ CarriedBy(p)
  BY EarnedParts
<1>2. /\ pc[p] \notin {"new", "done"}
      /\ UNCHANGED <<job, delisted, suggestions, answer>>
  BY DEF Report, ReportRead, ReportUpsert, ReportRecord
<1>3. \A n \in Numbers : Kept(n)
  BY <1>1, <1>2, SameSuggestionsKeep
<1>4. /\ pc'[p] \notin {"hide", "purge", "publish", "hint"}
      /\ \A q \in Requests \ {p} : /\ pc'[q] = pc[q] /\ at'[q] = at[q]
                                   /\ top'[q] = top[q] /\ row'[q] = row[q]
  <2>1. ReportRead(p) => \A q \in Requests \ {p} : row'[q] = row[q]
    BY <1>1 DEF ReportRead, TypeOK, RequestsTypeOK
  <2> QED
    BY <1>1, <2>1, GotoMovesOne, NextItemMovesOne
    DEF Report, ReportRead, ReportUpsert, ReportRecord
<1>5. CarriedBy(p)'
  BY <1>1, <1>2, <1>4, QuietStep
<1>6. CASE ReportRead(p) \/ ReportRecord(p)
  <2>1. UNCHANGED numbers
    BY <1>6 DEF ReportRead, ReportRecord
  <2> QED BY <1>1, <1>2, <1>3, <1>4, <1>5, <2>1, SameRowsSound, StepEarned
<1>7. CASE ReportUpsert(p)
  <2> DEFINE known == IF row[p] = NoRow THEN BlankRow ELSE row[p]
             name  == Coalesce(This(p).name, known.name)
             count == known.reports + 1
  <2>1. known \in Row
    BY <1>1, <1>2, Running, RowTypes
  <2>2. name \in Names \cup {NoName} /\ count \in Nat
    <3>1. known.name \in Names \cup {NoName} /\ known.reports \in Nat
      BY <2>1 DEF Row
    <3> HIDE DEF known
    <3> QED BY <1>1, <1>2, <3>1, Running, RowTypes
  <2>3. PutRow(p, Reported(RowOf(p), name, count))
    BY <1>7 DEF ReportUpsert
  <2> HIDE DEF known, name, count
  <2>4. Inherits(RowOf(p), Reported(RowOf(p), name, count))
    BY <1>2, <2>2, RowOfSound, StatementsInherit
  <2>5. \A n \in Numbers : RowSound(n)'
    BY <1>2, <1>3, <2>3, <2>4, PutRowSound
  <2> QED BY <1>2, <1>3, <1>4, <1>5, <2>5, StepEarned
<1> QED BY <1>6, <1>7 DEF Report

LEMMA FederationEarned ==
    ASSUME EarnedInv, TypeOK', NEW p \in Requests, Federation(p)
    PROVE  EarnedInv'
<1> USE DEF tables, locals, history
<1>1. TypeOK /\ CarriedBy(p)
  BY EarnedParts
<1>2. /\ pc[p] \notin {"new", "done"}
      /\ UNCHANGED <<job, delisted, suggestions, answer>>
  BY DEF Federation, FederationSkip, FederationCheck, FederationMerge, FederationStamp
<1>3. \A n \in Numbers : Kept(n)
  BY <1>1, <1>2, SameSuggestionsKeep
<1>4. /\ pc'[p] \notin {"hide", "purge", "publish", "hint"}
      /\ \A q \in Requests \ {p} : /\ pc'[q] = pc[q] /\ at'[q] = at[q]
                                   /\ top'[q] = top[q] /\ row'[q] = row[q]
  BY <1>1, GotoMovesOne, NextItemMovesOne
  DEF Federation, FederationSkip, FederationCheck, FederationMerge, FederationStamp
<1>5. CarriedBy(p)'
  BY <1>1, <1>2, <1>4, QuietStep
<1>6. CASE FederationSkip(p) \/ FederationCheck(p) \/ FederationStamp(p)
  <2>1. UNCHANGED numbers
    BY <1>6 DEF FederationSkip, FederationCheck, FederationStamp
  <2> QED BY <1>1, <1>2, <1>3, <1>4, <1>5, <2>1, SameRowsSound, StepEarned
<1>7. CASE FederationMerge(p)
  <2>1. Inherits(RowOf(p), Merged(RowOf(p), This(p).name))
    BY <1>1, <1>2, 0 \in Nat, Running, RowOfSound, StatementsInherit
  <2>2. \A n \in Numbers : RowSound(n)'
    BY <1>2, <1>3, <1>7, <2>1, PutRowSound DEF FederationMerge
  <2> QED BY <1>2, <1>3, <1>4, <1>5, <2>2, StepEarned
<1> QED BY <1>6, <1>7 DEF Federation

LEMMA CrawlEarned ==
    ASSUME EarnedInv, TypeOK', NEW p \in Requests, Crawl(p)
    PROVE  EarnedInv'
<1> USE DEF tables, locals, history
<1>1. TypeOK /\ CarriedBy(p)
  BY EarnedParts
<1>2. /\ pc[p] \notin {"new", "done"}
      /\ UNCHANGED <<job, delisted, suggestions, answer>>
  BY DEF Crawl, CrawlSkip, CrawlCheck, CrawlCheckFails, CrawlUpsert, CrawlUpsertFails
<1>3. \A n \in Numbers : Kept(n)
  BY <1>1, <1>2, SameSuggestionsKeep
<1>4. /\ pc'[p] \notin {"hide", "purge", "publish", "hint"}
      /\ \A q \in Requests \ {p} : /\ pc'[q] = pc[q] /\ at'[q] = at[q]
                                   /\ top'[q] = top[q] /\ row'[q] = row[q]
  BY <1>1, GotoMovesOne, NextItemMovesOne
  DEF Crawl, CrawlSkip, CrawlCheck, CrawlCheckFails, CrawlUpsert, CrawlUpsertFails
<1>5. CarriedBy(p)'
  BY <1>1, <1>2, <1>4, QuietStep
<1>6. CASE CrawlSkip(p) \/ CrawlCheck(p) \/ CrawlCheckFails(p) \/ CrawlUpsertFails(p)
  <2>1. UNCHANGED numbers
    BY <1>6 DEF CrawlSkip, CrawlCheck, CrawlCheckFails, CrawlUpsertFails
  <2> QED BY <1>1, <1>2, <1>3, <1>4, <1>5, <2>1, SameRowsSound, StepEarned
<1>7. CASE CrawlUpsert(p)
  <2>1. Inherits(RowOf(p), Crawled(RowOf(p), This(p).name))
    BY <1>1, <1>2, 0 \in Nat, Running, RowOfSound, StatementsInherit
  <2>2. \A n \in Numbers : RowSound(n)'
    BY <1>2, <1>3, <1>7, <2>1, PutRowSound DEF CrawlUpsert
  <2> QED BY <1>2, <1>3, <1>4, <1>5, <2>2, StepEarned
<1> QED BY <1>6, <1>7 DEF Crawl

(* Writing the registry first is what lets a delist hide and purge. *)
LEMMA DelistEarned ==
    ASSUME EarnedInv, TypeOK', NEW p \in Requests, Delist(p)
    PROVE  EarnedInv'
<1> USE DEF tables, locals, history
<1>1. TypeOK /\ CarriedBy(p)
  BY EarnedParts
<1>2. /\ pc[p] \notin {"new", "done"}
      /\ UNCHANGED <<job, answer>>
      /\ delisted \subseteq delisted'
  BY DEF Delist, DelistRegister, DelistHide, DelistPurge, InsertDelisted
<1>3. ~(answer'[p].confidence > 0)
  BY <1>1, <1>2 DEF CarriedBy, TypeOK, RequestsTypeOK, Answer
<1>4. CASE DelistRegister(p)
  <2>1. /\ pc'[p] = "hide" /\ at' = at
        /\ \A q \in Requests \ {p} : /\ pc'[q] = pc[q] /\ at'[q] = at[q]
                                     /\ top'[q] = top[q] /\ row'[q] = row[q]
    BY <1>1, <1>4, GotoMovesOne DEF DelistRegister
  <2>2. UNCHANGED <<numbers, suggestions>> /\ Number(p)' = Number(p)
    BY <1>2, <1>4, <2>1 DEF DelistRegister, Number, This
  <2>3. \A n \in Numbers : Kept(n)
    BY <1>1, <2>2, SameSuggestionsKeep
  <2>4. Number(p)' \in delisted'
    BY <1>4, <2>2 DEF DelistRegister, InsertDelisted
  <2>5. CarriedBy(p)'
    BY <1>3, <2>1, <2>4 DEF CarriedBy
  <2> QED BY <1>2, <2>1, <2>2, <2>3, <2>5, SameRowsSound, StepEarned
<1>5. CASE DelistHide(p)
  <2>1. /\ pc[p] = "hide" /\ pc'[p] = "purge" /\ at' = at
        /\ \A q \in Requests \ {p} : /\ pc'[q] = pc[q] /\ at'[q] = at[q]
                                     /\ top'[q] = top[q] /\ row'[q] = row[q]
    BY <1>1, <1>5, GotoMovesOne DEF DelistHide
  <2>2. UNCHANGED <<suggestions, delisted>> /\ Number(p)' = Number(p)
    BY <1>2, <1>5, <2>1 DEF DelistHide, Number, This
  <2>3. \A n \in Numbers : Kept(n)
    BY <1>1, <2>2, SameSuggestionsKeep
  <2>4. Hidden(RowOf(p)) # NoRow => Inherits(RowOf(p), Hidden(RowOf(p)))
    BY <1>2, 0 \in Nat, NoName \in Names \cup {NoName}, RowOfSound, StatementsInherit
  <2>5. \A n \in Numbers : RowSound(n)'
    BY <1>2, <1>5, <2>3, <2>4, PutRowSound DEF DelistHide
  <2>6. CarriedBy(p)'
    BY <1>1, <1>3, <2>1, <2>2 DEF CarriedBy
  <2> QED BY <1>2, <2>1, <2>3, <2>5, <2>6, StepEarned
<1>6. CASE DelistPurge(p)
  <2>1. /\ pc[p] = "purge" /\ pc'[p] \notin {"hide", "purge", "publish", "hint"}
        /\ \A q \in Requests \ {p} : /\ pc'[q] = pc[q] /\ at'[q] = at[q]
                                     /\ top'[q] = top[q] /\ row'[q] = row[q]
    BY <1>1, <1>6, NextItemMovesOne DEF DelistPurge
  <2>2. UNCHANGED numbers /\ PurgeSuggestions(Number(p))
    BY <1>6 DEF DelistPurge
  <2>3. \A n \in Numbers \ delisted : Kept(n)
    BY <1>1, <2>1, <2>2, PurgeKeepsOthers DEF CarriedBy
  <2>4. CarriedBy(p)'
    BY <1>1, <1>2, <2>1, QuietStep
  <2> QED BY <1>2, <2>1, <2>2, <2>3, <2>4, SameRowsSound, StepEarned
<1> QED BY <1>4, <1>5, <1>6 DEF Delist

(* A lookup is for one number: answering ends it. *)
LEMMA LookupAnswers ==
    ASSUME TypeOK, NEW p \in Requests, pc[p] # "new", Kind(p) = "lookup",
           NextItem(p), UNCHANGED job,
           NEW name, NEW level, Respond(p, name, level)
    PROVE  /\ pc'[p] = "done" /\ Number(p)' = Number(p)
           /\ answer'[p].name = name /\ answer'[p].confidence = level
           /\ \A q \in Requests \ {p} : answer'[q] = answer[q]
<1>1. Len(job[p].items) = 1 /\ at[p] = 1
  <2>1. Len(job[p].items) \in Lengths("lookup") /\ at[p] \in 1..Len(job[p].items)
    BY DEF TypeOK, RequestsTypeOK
  <2>2. Lengths("lookup") = {1}
    BY DEF Lengths
  <2>3. Len(job[p].items) = 1
    BY <2>1, <2>2
  <2>4. at[p] \in 1..1
    BY <2>1, <2>3
  <2> QED BY <2>3, <2>4
<1>2. at' = at /\ Goto(p, "done")
  BY <1>1 DEF NextItem
<1>3. pc'[p] = "done"
  BY <1>2, GotoMovesOne
<1>4. Number(p)' = Number(p)
  BY <1>2 DEF Number, This
<1> QED BY <1>3, <1>4 DEF Respond, TypeOK, RequestsTypeOK

LEMMA LookupEarned ==
    ASSUME EarnedInv, TypeOK', NEW p \in Requests, Lookup(p)
    PROVE  EarnedInv'
<1> USE DEF tables, locals, history
<1>1. TypeOK /\ CarriedBy(p)
  BY EarnedParts
<1>2. /\ pc[p] \notin {"new", "done"} /\ Kind(p) = "lookup"
      /\ UNCHANGED <<job, delisted, suggestions, numbers>>
  BY <1>1, KindOfStep
  DEF Lookup, LookupDelisted, LookupCheck, LookupRow, LookupNameless, LookupHint, TypeOK
<1>3. \A n \in Numbers : Kept(n)
  BY <1>1, <1>2, SameSuggestionsKeep
<1>4. \A n \in Numbers : RowSound(n)'
  BY <1>2, <1>3, SameRowsSound
<1>5. CASE LookupCheck(p) \/ LookupNameless(p)
  <2>1. /\ pc'[p] \in {"row", "hint"} /\ UNCHANGED answer
        /\ \A q \in Requests \ {p} : /\ pc'[q] = pc[q] /\ at'[q] = at[q]
                                     /\ top'[q] = top[q] /\ row'[q] = row[q]
    <3>1. LookupNameless(p) => \A q \in Requests \ {p} : row'[q] = row[q]
      BY <1>1 DEF LookupNameless, TypeOK, RequestsTypeOK
    <3> QED BY <1>1, <1>5, <3>1, GotoMovesOne DEF LookupCheck, LookupNameless
  <2>2. ~(answer'[p].confidence > 0)
    BY <1>1, <1>2, <2>1 DEF CarriedBy, TypeOK, RequestsTypeOK, Answer
  <2>3. pc'[p] = "hint" => row'[p] = NoRow \/ row'[p].confidence = 0
    <3>1. LookupCheck(p) => pc'[p] = "row"
      BY <1>1, GotoMovesOne DEF LookupCheck
    <3>2. CASE LookupNameless(p)
      <4>1. row'[p] = RowOf(p) /\ ~Settled(RowOf(p))
        BY <1>1, <3>2 DEF LookupNameless, TypeOK, RequestsTypeOK
      <4>2. RowOf(p) \in Row \cup {NoRow} /\ SoundRow(RowOf(p))
        BY <1>2, RowOfSound
      <4>3. RowOf(p) = NoRow \/ RowOf(p).confidence \in Nat
        BY <4>2 DEF Row
      <4> QED BY <4>1, <4>2, <4>3 DEF Settled, SoundRow
    <3> QED BY <1>5, <3>1, <3>2
  <2>4. CarriedBy(p)'
    BY <2>1, <2>2, <2>3 DEF CarriedBy
  <2> QED BY <1>2, <1>3, <1>4, <2>1, <2>4, StepEarned
<1>6. CASE LookupDelisted(p) \/ LookupRow(p) \/ LookupHint(p)
  <2>1. NextItem(p)
    BY <1>6 DEF LookupDelisted, LookupRow, LookupHint
  <2>2. PICK name, level :
          /\ Respond(p, name, level)
          /\ level > 0 => /\ name # NoName
                          /\ Number(p) \notin delisted => Backed(Number(p), name, level)
    <3>1. CASE LookupDelisted(p)
      BY <3>1 DEF LookupDelisted
    <3>2. CASE LookupRow(p)
      <4>1. PICK r : r = RowOf(p)
        OBVIOUS
      <4>2. /\ r \in Row /\ SoundRow(r) /\ Settled(r) /\ Number(p) \in Numbers
            /\ Respond(p, IF r.private THEN NoName ELSE r.name, r.confidence)
        BY <1>1, <1>2, <3>2, <4>1, RowOfSound, Running DEF LookupRow, Settled
      <4>3. r.confidence > 0 => ~r.private /\ r.name # NoName
        BY <4>2 DEF SoundRow, Settled
      <4>4. r.confidence > 0 /\ Number(p) \notin delisted =>
              Backed(Number(p), r.name, r.confidence)
        BY <4>1, <4>2, RowTypes, EarnedParts DEF RowSound, RowBacked, RowOf
      <4> QED BY <4>2, <4>3, <4>4
    <3>3. CASE LookupHint(p)
      <4>1. CASE \E s \in TopSuggestions(Number(p)) : Respond(p, s.name, Level(s.votes))
        <5>1. PICK s \in TopSuggestions(Number(p)) : Respond(p, s.name, Level(s.votes))
          BY <4>1
        <5>2. s \in SuggestionsFor(Number(p)) /\ s.name \in Names /\ s.votes \in Nat \ {0}
          BY <1>1, <5>1 DEF TopSuggestions, SuggestionsFor, TypeOK, TablesTypeOK, Suggestion
        <5>3. Level(s.votes) <= s.votes /\ s.name # NoName
          BY <5>2, RowTypes, NamesAssumption
        <5> QED BY <5>1, <5>2, <5>3 DEF Backed
      <4>2. CASE Respond(p, NoName, IF row[p] = NoRow THEN 0 ELSE row[p].confidence)
        <5>1. row[p] = NoRow \/ row[p].confidence = 0
          BY <1>1, <3>3 DEF LookupHint, CarriedBy
        <5>2. Respond(p, NoName, 0)
          BY <4>2, <5>1
        <5> QED BY <5>2
      <4> QED BY <3>3, <4>1, <4>2 DEF LookupHint
    <3> QED BY <1>6, <3>1, <3>2, <3>3
  <2>3. /\ pc'[p] = "done" /\ Number(p)' = Number(p)
        /\ answer'[p].name = name /\ answer'[p].confidence = level
        /\ \A q \in Requests \ {p} : answer'[q] = answer[q]
    BY <1>1, <1>2, <2>1, <2>2, LookupAnswers
  <2>4. \A q \in Requests \ {p} : /\ pc'[q] = pc[q] /\ at'[q] = at[q]
                                 /\ top'[q] = top[q] /\ row'[q] = row[q]
    BY <1>1, <2>1, NextItemMovesOne
  <2>5. CarriedBy(p)'
    BY <1>2, <2>2, <2>3 DEF CarriedBy, Backed, SuggestionsFor
  <2> QED BY <1>2, <1>3, <1>4, <2>3, <2>4, <2>5, StepEarned
<1> QED BY <1>5, <1>6 DEF Lookup

LEMMA FailEarned ==
    ASSUME EarnedInv, TypeOK', NEW p \in Requests, Fail(p)
    PROVE  EarnedInv'
<1> USE DEF tables, locals, history
<1>1. TypeOK /\ CarriedBy(p) /\ pc[p] # "done"
  BY EarnedParts DEF Fail, InFlight
<1>2. \A n \in Numbers : Kept(n)
  BY <1>1, SameSuggestionsKeep DEF Fail
<1>3. /\ pc'[p] = "failed"
      /\ \A q \in Requests \ {p} : pc'[q] = pc[q]
  BY <1>1, GotoMovesOne DEF Fail
<1>4. CarriedBy(p)'
  BY <1>1, <1>3, QuietStep DEF Fail
<1> QED BY <1>2, <1>3, <1>4, SameRowsSound, StepEarned DEF Fail
-----------------------------------------------------------------------------
(* The inductive invariant: rows, answers and what the handlers carry. *)
THEOREM EarnedAlways == Spec => []EarnedInv
<1>1. Init => EarnedInv
  <2> SUFFICES ASSUME Init PROVE EarnedInv
    OBVIOUS
  <2>1. TypeOK
    BY ItemsAssumption, RowTypes
    DEF Init, TablesInit, TypeOK, TablesTypeOK, RequestsTypeOK, NoTop, NoAnswer, Answer, Steps
  <2>2. \A n \in Numbers : RowSound(n)
    BY DEF Init, TablesInit, RowSound, SoundRow
  <2>3. \A q \in Requests : CarriedBy(q)
    BY DEF Init, CarriedBy, NoAnswer
  <2> QED BY <2>1, <2>2, <2>3, EarnedParts
<1>2. TypeOK' /\ EarnedInv /\ [Next]_vars => EarnedInv'
  <2> SUFFICES ASSUME TypeOK', EarnedInv, [Next]_vars PROVE EarnedInv'
    OBVIOUS
  <2>1. CASE UNCHANGED vars
    BY <2>1
    DEF vars, tables, locals, history, EarnedInv, CarriedReadsHold, DelistedFirst, LeadIsEarned,
        HintIsNameless, AnswerIsFinal, ConfidenceBacked, NoConfidenceWithoutName, AnswerBacked,
        RowBacked, Backed, SuggestionsFor, Number, This
  <2> QED
    BY <2>1, StartEarned, ContributeEarned, ReportEarned, DelistEarned, FederationEarned,
       CrawlEarned, LookupEarned, FailEarned DEF Next
<1> QED BY <1>1, <1>2, TypeCorrect, PTL DEF Spec

(* ConfidenceBacked: no row of a listed number claims more than its votes. *)
THEOREM ConfidenceAlwaysBacked == Spec => []ConfidenceBacked
<1>1. EarnedInv => ConfidenceBacked
  BY DEF EarnedInv
<1> QED BY <1>1, EarnedAlways, PTL

(* NoConfidenceWithoutName: no row and no answer vouches for a name it hides. *)
THEOREM ConfidenceIsNamed == Spec => []NoConfidenceWithoutName
<1>1. EarnedInv => NoConfidenceWithoutName
  BY DEF EarnedInv
<1> QED BY <1>1, EarnedAlways, PTL

(* AnswerBacked: the answer of a lookup stays earned after it was given. *)
THEOREM AnswersStayBacked == Spec => []AnswerBacked
<1>1. EarnedInv => AnswerBacked
  BY DEF EarnedInv
<1> QED BY <1>1, EarnedAlways, PTL

(* CarriedReadsHold: what a handler read before an await still holds after it. *)
THEOREM CarriedReadsAlwaysHold == Spec => []CarriedReadsHold
<1>1. EarnedInv => CarriedReadsHold
  BY DEF EarnedInv
<1> QED BY <1>1, EarnedAlways, PTL
=============================================================================

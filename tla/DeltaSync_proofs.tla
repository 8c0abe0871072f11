-------------------------- MODULE DeltaSync_proofs --------------------------
(* The delta sync for any set of numbers, LIMIT, clock skew of the phone and
   number of writes and failures.                                            *)
EXTENDS DeltaSync, TLAPS

-----------------------------------------------------------------------------
(* A page has one entry per number, and none newer than the index. *)
Proper(page) ==
    /\ page \subseteq Items
    /\ \A it, other \in page : it.n = other.n => it = other
    /\ \A it \in page : it.ver <= rows[it.n].ver

Pages ==
    /\ \A page, other \in edge : page = other
    /\ \A page \in edge : Proper(page)
    /\ Proper(reply)

Behind == \A n \in Numbers : local[n] <= rows[n].ver

(* No page on its way to the phone is older than what the phone has.  For a
   page at the edge that is so as long as the phone may be served from there. *)
Ahead(page) == \A it \in page : local[it.n] <= it.ver

NoneOlder ==
    /\ clock >= 2
    /\ cursor = 0 => \A page \in edge : Ahead(page)
    /\ stage = "answered" => Ahead(reply)
    /\ stage = "answered" /\ cursor = 0 =>
          \A page \in edge : \A it \in page, other \in reply :
              it.n = other.n => other.ver <= it.ver

ReplyStored == stage = "stored" => \A it \in reply : local[it.n] = it.ver

CopyInv == TypeOK /\ Pages /\ Behind /\ NoneOlder /\ ReplyStored /\ EtagIsStored

-----------------------------------------------------------------------------
LEMMA PageIsProper ==
    ASSUME TypeOK, NEW since
    PROVE  /\ Proper(Page(since))
           /\ \A it \in Page(since) : it.ver = rows[it.n].ver
<1> DEFINE Entry(n) == [n |-> n, ver |-> rows[n].ver, stamp |-> rows[n].stamp]
<1>1. \A it \in Page(since) : it.n \in Numbers /\ it = Entry(it.n)
  <2>1. \A it \in Page(since) : \E n \in Numbers : it = Entry(n)
    BY DEF Page, Changed
  <2> QED BY <2>1
<1>2. \A n \in Numbers : rows[n].ver \in Nat /\ rows[n].stamp \in Nat
  BY DEF TypeOK
<1>3. ASSUME NEW it \in Page(since)
      PROVE  it \in Items /\ it.ver = rows[it.n].ver /\ it.ver <= rows[it.n].ver
  BY <1>1, <1>2 DEF Items
<1>4. \A it, other \in Page(since) : it.n = other.n => it = other
  BY <1>1
<1> QED BY <1>3, <1>4 DEF Proper

LEMMA ServedIsAhead ==
    ASSUME CopyInv
    PROVE  Proper(Served) /\ Ahead(Served)
<1>1. CASE Shared /\ edge # {}
  <2>1. PICK page : page \in edge
    BY <1>1
  <2>2. UNION edge = page
    BY <2>1 DEF CopyInv, Pages
  <2> QED BY <1>1, <2>1, <2>2 DEF CopyInv, Pages, NoneOlder, Served, Shared
<1>2. CASE ~(Shared /\ edge # {})
  <2>1. Served = Page(cursor)
    BY <1>2 DEF Served
  <2>2. \A it \in Page(cursor) : it.n \in Numbers
    BY PageIsProper DEF CopyInv, Proper, Items
  <2> QED BY <2>1, <2>2, PageIsProper DEF CopyInv, Behind, Ahead
<1> QED BY <1>1, <1>2

(* A stored page: its entries, and what was there. *)
LEMMA StoredPage ==
    ASSUME TypeOK, NEW page, Proper(page)
    PROVE  /\ Stored(page) \in [Numbers -> Nat]
           /\ \A it \in page : Stored(page)[it.n] = it.ver
           /\ \A n \in Numbers : (\A it \in page : it.n # n) => Stored(page)[n] = local[n]
<1>1. \A it \in page : it.n \in Numbers /\ it.ver \in Nat
  BY DEF Proper, Items
<1>2. \A it \in page : Stored(page)[it.n] = it.ver
  <2> SUFFICES ASSUME NEW it \in page PROVE Stored(page)[it.n] = it.ver
    OBVIOUS
  <2>1. (CHOOSE other \in page : other.n = it.n) = it
    BY DEF Proper
  <2> QED BY <1>1, <2>1 DEF Stored
<1>3. \A n \in Numbers : (\A it \in page : it.n # n) => Stored(page)[n] = local[n]
  BY DEF Stored
<1>4. \A n \in Numbers : Stored(page)[n] \in Nat
  <2> SUFFICES ASSUME NEW n \in Numbers PROVE Stored(page)[n] \in Nat
    OBVIOUS
  <2>1. ASSUME NEW it \in page, it.n = n PROVE Stored(page)[n] \in Nat
    BY <1>1, <1>2, <2>1
  <2>2. local[n] \in Nat
    BY DEF TypeOK
  <2> QED BY <1>3, <2>1, <2>2
<1> QED BY <1>2, <1>3, <1>4 DEF Stored

(* Storing a page never replaces an entry by an older one. *)
LEMMA StoreGrows ==
    ASSUME CopyInv, Store
    PROVE  /\ local' = Stored(reply) /\ local' \in [Numbers -> Nat]
           /\ \A n \in Numbers : local[n] <= local'[n] /\ local'[n] <= rows[n].ver
<1> USE DEF CopyInv
<1>1. Proper(reply) /\ local' = Stored(reply) /\ Ahead(reply)
  BY DEF Pages, Store, NoneOlder
<1>2. ASSUME NEW n \in Numbers PROVE local[n] <= local'[n] /\ local'[n] <= rows[n].ver
  <2>1. ASSUME NEW it \in reply, it.n = n PROVE local[n] <= local'[n] /\ local'[n] <= rows[n].ver
    BY <1>1, <2>1, StoredPage DEF Ahead, Proper
  <2>2. CASE \A it \in reply : it.n # n
    <3>1. local'[n] = local[n]
      BY <1>1, <2>2, StoredPage
    <3>2. local[n] \in Nat /\ local[n] <= rows[n].ver
      BY DEF TypeOK, Behind
    <3> QED BY <3>1, <3>2
  <2> QED BY <2>1, <2>2
<1> QED BY <1>1, <1>2, StoredPage

-----------------------------------------------------------------------------
LEMMA TypesKept == ASSUME CopyInv, Next PROVE TypeOK'
<1> USE DEF CopyInv
<1>1. CASE Tick
  BY <1>1 DEF Tick, TypeOK, phone
<1>2. ASSUME NEW n \in Numbers, Begin(n) PROVE TypeOK'
  BY <1>2 DEF Begin, TypeOK, phone
<1>3. ASSUME NEW w \in writes, Commit(w) PROVE TypeOK'
  <2>1. w.n \in Numbers /\ w.stamp \in Nat /\ rows[w.n].ver \in Nat
    BY DEF TypeOK
  <2>2. rows' \in [Numbers -> [ver : Nat, stamp : Nat]]
    <3> DEFINE new == [ver |-> rows[w.n].ver + 1, stamp |-> w.stamp]
    <3>1. new \in [ver : Nat, stamp : Nat]
      BY <2>1
    <3>2. rows' = [rows EXCEPT ![w.n] = new]
      BY <1>3 DEF Commit
    <3> HIDE DEF new
    <3> QED BY <3>1, <3>2 DEF TypeOK
  <2>3. missed' \subseteq Numbers /\ writes' \subseteq writes
    BY <1>3, <2>1 DEF Commit, TypeOK
  <2> QED BY <1>3, <2>2, <2>3 DEF Commit, TypeOK, phone
<1>4. CASE OthersSync
  <2>1. Page(0) \subseteq Items
    BY PageIsProper DEF Proper
  <2> QED BY <1>4, <2>1 DEF OthersSync, TypeOK, phone, index
<1>5. CASE Expire
  BY <1>5 DEF Expire, TypeOK, phone, index
<1>6. CASE Sync
  BY <1>6 DEF Sync, TypeOK, phone, index, Stages
<1>7. CASE NotModified \/ Answer
  <2>1. Served \subseteq Items
    BY ServedIsAhead DEF Proper
  <2>2. edge' \in SUBSET SUBSET Items /\ missed' \subseteq Numbers
    BY <1>7, <2>1 DEF NotModified, Answer, Cached, TypeOK, Missing, Changed
  <2>3. CASE NotModified
    BY <2>2, <2>3 DEF NotModified, TypeOK, phone, index, Stages
  <2>4. CASE Answer
    BY <2>1, <2>2, <2>4 DEF Answer, TypeOK, phone, index, Stages
  <2> QED BY <1>7, <2>3, <2>4
<1>8. CASE Store
  BY <1>8, StoreGrows DEF Store, TypeOK, index, Stages
<1>9. CASE SaveEtag
  BY <1>9 DEF SaveEtag, TypeOK, index, Stages
<1>10. CASE SaveCursor
  BY <1>10, SkewsAssumption DEF SaveCursor, TypeOK, index, Stages
<1>11. CASE Reload
  BY <1>11 DEF Reload, TypeOK, index, Stages
<1>12. CASE ReloadFails
  BY <1>12 DEF ReloadFails, TypeOK, index, phone, Stages
<1>13. CASE CutShort
  BY <1>13 DEF CutShort, TypeOK, index, phone, Stages
<1> QED BY <1>1, <1>2, <1>3, <1>4, <1>5, <1>6, <1>7, <1>8, <1>9, <1>10, <1>11, <1>12, <1>13
        DEF Next, Writing, Committing, OnServer, OnPhone

(* Versions only grow, so what was no newer than the index stays so. *)
LEMMA CommitGrows ==
    ASSUME TypeOK, NEW w \in writes, Commit(w)
    PROVE  /\ \A n \in Numbers : rows[n].ver \in Nat /\ rows'[n].ver \in Nat
                                 /\ rows[n].ver <= rows'[n].ver
           /\ \A page : Proper(page) => Proper(page)'
<1>1. \A n \in Numbers : rows[n].ver \in Nat /\ rows'[n].ver \in Nat
                          /\ rows[n].ver <= rows'[n].ver
  BY DEF TypeOK, Commit
<1>2. ASSUME NEW page, Proper(page) PROVE Proper(page)'
  <2>1. \A it \in page : it.n \in Numbers /\ it.ver \in Nat
    BY <1>2 DEF Proper, Items
  <2> QED BY <1>1, <1>2, <2>1 DEF Proper, Items
<1> QED BY <1>1, <1>2

(* The steps that touch neither the tables, nor the pages, nor the ETag. *)
LEMMA QuietKeeps ==
    ASSUME CopyInv, TypeOK', UNCHANGED <<rows, edge, reply, local, etag, cursor>>,
           clock <= clock', stage' \notin {"answered", "stored"} \/ stage' = stage
    PROVE  CopyInv'
<1>1. clock' >= 2
  BY DEF CopyInv, NoneOlder, TypeOK
<1> QED BY <1>1 DEF CopyInv, Pages, Proper, Behind, NoneOlder, Ahead, ReplyStored, EtagIsStored

LEMMA ServerKeeps ==
    ASSUME CopyInv, TypeOK',
           \/ OthersSync \/ Expire \/ OnServer
           \/ \E w \in writes : Commit(w)
    PROVE  CopyInv'
<1> USE DEF CopyInv
<1>1. CASE \E w \in writes : Commit(w)
  <2>1. PICK w \in writes : Commit(w)
    BY <1>1
  <2>2. UNCHANGED <<clock, edge, stage, reply, local, etag, cursor>>
    BY <2>1 DEF Commit, phone
  <2>3. \A n \in Numbers : local[n] \in Nat
    BY DEF TypeOK
  <2>4. Behind'
    BY <2>1, <2>2, <2>3, CommitGrows DEF Behind
  <2>5. Pages'
    BY <2>1, <2>2, CommitGrows DEF Pages
  <2> QED BY <2>2, <2>4, <2>5 DEF NoneOlder, Ahead, ReplyStored, EtagIsStored
<1>2. CASE OthersSync
  <2>1. UNCHANGED <<clock, rows, stage, reply, local, etag, cursor>> /\ edge' = {Page(0)}
    BY <1>2 DEF OthersSync, index, phone
  <2>2. Proper(Page(0)) /\ \A it \in Page(0) : it.ver = rows[it.n].ver /\ it.n \in Numbers
    BY PageIsProper DEF Proper, Items
  <2>3. Ahead(Page(0))
    BY <2>2 DEF Ahead, Behind
  <2>4. \A it \in Page(0), other \in reply : it.n = other.n => other.ver <= it.ver
    BY <2>2 DEF Pages, Proper
  <2> QED BY <2>1, <2>2, <2>3, <2>4 DEF Pages, Proper, Behind, NoneOlder, Ahead, ReplyStored,
                                    EtagIsStored
<1>3. CASE Expire
  BY <1>3 DEF Expire, index, phone, Pages, Proper, Behind, NoneOlder, Ahead, ReplyStored,
              EtagIsStored
<1>4. CASE NotModified
  <2>1. UNCHANGED <<clock, rows, reply, local, etag, cursor>> /\ stage' = "idle"
        /\ (edge' = {Served} \/ edge' = edge)
    BY <1>4 DEF NotModified, Cached, index, phone
  <2> QED BY <2>1, ServedIsAhead DEF Pages, Proper, Behind, NoneOlder, Ahead, ReplyStored,
                                     EtagIsStored
<1>5. CASE Answer
  <2>1. UNCHANGED <<clock, rows, local, etag, cursor>> /\ stage' = "answered"
        /\ reply' = Served /\ (cursor = 0 => edge' = {Served})
        /\ (edge' = {Served} \/ edge' = edge)
    BY <1>5 DEF Answer, Cached, Shared, index, phone
  <2>2. \A it, other \in Served : it.n = other.n => other.ver <= it.ver
    BY ServedIsAhead DEF Proper, Items
  <2>3. Pages'
    BY <2>1, ServedIsAhead DEF Pages, Proper
  <2>4. NoneOlder'
    BY <2>1, <2>2, ServedIsAhead DEF NoneOlder, Ahead
  <2> QED BY <2>1, <2>3, <2>4 DEF Behind, ReplyStored, EtagIsStored
<1> QED BY <1>1, <1>2, <1>3, <1>4, <1>5 DEF OnServer

LEMMA PhoneKeeps ==
    ASSUME CopyInv, TypeOK', Store \/ SaveEtag \/ SaveCursor
    PROVE  CopyInv'
<1> USE DEF CopyInv
<1>1. CASE Store
  <2>1. UNCHANGED <<clock, rows, edge, reply, etag, cursor>> /\ stage' = "stored"
        /\ stage = "answered"
    BY <1>1 DEF Store, index
  <2>2. \A n \in Numbers : local[n] \in Nat /\ local'[n] \in Nat
    BY StoreGrows, <1>1 DEF TypeOK
  <2>3. Pages' /\ Behind'
    BY <1>1, <2>1, StoreGrows DEF Pages, Proper, Behind
  <2>4. \A it \in reply : local'[it.n] = it.ver
    BY <1>1, StoreGrows, StoredPage DEF Pages
  <2>5. ReplyStored'
    BY <2>1, <2>4 DEF ReplyStored
  <2>6. EtagIsStored'
    <3> SUFFICES ASSUME NEW page \in etag, NEW it \in page PROVE local'[it.n] >= it.ver
      BY <2>1 DEF EtagIsStored
    <3>1. it.n \in Numbers /\ it.ver \in Nat /\ local[it.n] >= it.ver
      BY DEF TypeOK, Items, EtagIsStored
    <3> QED BY <1>1, <2>2, <3>1, StoreGrows
  <2>7. ASSUME cursor = 0, NEW page \in edge PROVE Ahead(page)'
    <3> SUFFICES ASSUME NEW it \in page PROVE local'[it.n] <= it.ver
      BY <2>1 DEF Ahead
    <3>1. it.n \in Numbers /\ it.ver \in Nat /\ local[it.n] <= it.ver
      BY <2>7 DEF Pages, Proper, Items, NoneOlder, Ahead
    <3>2. ASSUME NEW other \in reply, other.n = it.n PROVE local'[it.n] <= it.ver
      BY <2>1, <2>4, <2>7, <3>2 DEF NoneOlder
    <3>3. CASE \A other \in reply : other.n # it.n
      BY <1>1, <3>1, <3>3, StoreGrows, StoredPage DEF Pages
    <3> QED BY <3>2, <3>3
  <2>8. NoneOlder'
    BY <2>1, <2>7 DEF NoneOlder
  <2> QED BY <2>3, <2>5, <2>6, <2>8
<1>2. CASE SaveEtag
  <2>1. UNCHANGED <<clock, rows, edge, reply, local, cursor>> /\ stage' = "tagged"
        /\ stage = "stored" /\ etag' = {reply}
    BY <1>2 DEF SaveEtag, index
  <2>2. \A it \in reply : it.n \in Numbers /\ it.ver \in Nat
    BY DEF Pages, Proper, Items
  <2>3. EtagIsStored'
    BY <2>1, <2>2 DEF EtagIsStored, ReplyStored
  <2> QED BY <2>1, <2>3 DEF Pages, Proper, Behind, NoneOlder, Ahead, ReplyStored
<1>3. CASE SaveCursor
  <2>1. UNCHANGED <<clock, rows, edge, local, etag>> /\ stage' = "moved" /\ reply' = {}
    BY <1>3 DEF SaveCursor, index
  <2>2. cursor' # 0
    <3>1. PICK skew \in Skews : cursor' = clock + skew
      BY <1>3 DEF SaveCursor
    <3>2. skew \in Int /\ skew >= -1 /\ clock \in Nat /\ clock >= 2
      BY SkewsAssumption DEF TypeOK, NoneOlder
    <3> QED BY <3>1, <3>2
  <2> QED BY <2>1, <2>2 DEF Pages, Proper, Behind, NoneOlder, Ahead, ReplyStored, EtagIsStored
<1> QED BY <1>1, <1>2, <1>3

LEMMA CopyInvKept == CopyInv /\ [Next]_vars => CopyInv'
<1> SUFFICES ASSUME CopyInv, [Next]_vars PROVE CopyInv'
  OBVIOUS
<1>1. CASE UNCHANGED vars
  BY <1>1 DEF vars, index, phone, CopyInv, TypeOK, Pages, Proper, Behind, NoneOlder, Ahead,
              ReplyStored, EtagIsStored
<1>2. ASSUME Next PROVE TypeOK'
  BY <1>2, TypesKept
<1>3. CASE Tick \/ Writing
  <2>1. UNCHANGED <<rows, edge, reply, local, etag, cursor, stage>> /\ clock <= clock'
    BY <1>3 DEF Tick, Writing, Begin, phone, CopyInv, TypeOK
  <2> QED BY <1>2, <1>3, <2>1, QuietKeeps DEF Next
<1>4. CASE Sync \/ Reload \/ ReloadFails
  <2>1. UNCHANGED <<clock, rows, edge, reply, local, etag, cursor>>
        /\ stage' \notin {"answered", "stored"}
    BY <1>4 DEF Sync, Reload, ReloadFails, phone, index
  <2>2. clock <= clock'
    BY <2>1 DEF CopyInv, TypeOK
  <2> QED BY <1>2, <1>4, <2>1, <2>2, QuietKeeps DEF Next, OnPhone
<1>5. CASE CutShort
  BY <1>2, <1>5 DEF CutShort, Next, index, phone, CopyInv, Pages, Proper, Behind, NoneOlder,
                    Ahead, ReplyStored, EtagIsStored
<1>6. CASE Committing \/ OthersSync \/ Expire \/ OnServer
  BY <1>2, <1>6, ServerKeeps DEF Next, Committing
<1>7. CASE Store \/ SaveEtag \/ SaveCursor
  BY <1>2, <1>7, PhoneKeeps DEF Next, OnPhone
<1> QED BY <1>1, <1>3, <1>4, <1>5, <1>6, <1>7 DEF Next, OnPhone

LEMMA CopyInvInit == Init => CopyInv
<1> SUFFICES ASSUME Init PROVE CopyInv
  OBVIOUS
<1>1. TypeOK
  <2>1. \A page, other \in etag : page = other
    BY DEF Init
  <2>2. rows \in [Numbers -> [ver : Nat, stamp : Nat]]
    BY DEF Init
  <2>3. local \in [Numbers -> Nat] /\ directory \in [Numbers -> Nat]
    BY DEF Init
  <2>4. edge \in SUBSET SUBSET Items /\ etag \in SUBSET SUBSET Items /\ reply \in SUBSET Items
    BY DEF Init
  <2>5. clock \in Nat /\ begun \in Nat /\ failures \in Nat /\ stage \in Stages
        /\ cursor \in Int /\ missed \subseteq Numbers /\ unloaded \in BOOLEAN
    <3>1. unloaded \in BOOLEAN
      BY Zenon DEF Init
    <3>2. clock = 2 /\ begun = 0 /\ failures = 0 /\ stage = "idle" /\ cursor = 0 /\ missed = {}
      BY Zenon DEF Init
    <3>3. clock \in Nat /\ begun \in Nat /\ failures \in Nat /\ stage \in Stages
          /\ cursor \in Int /\ missed \subseteq Numbers
      BY <3>2 DEF Stages
    <3> QED BY <3>1, <3>3
  <2>6. writes \subseteq [n : Numbers, stamp : Nat]
    BY DEF Init
  <2> QED BY <2>1, <2>2, <2>3, <2>4, <2>5, <2>6 DEF TypeOK
<1>2. Behind
  BY DEF Init, Behind
<1>3. Pages /\ NoneOlder /\ ReplyStored /\ EtagIsStored
  BY DEF Init, Pages, Proper, NoneOlder, ReplyStored, EtagIsStored
<1> QED BY <1>1, <1>2, <1>3 DEF CopyInv

(* The invariant: the order in which table, ETag and cursor are saved keeps
   every page the phone may still be told "not modified" of in its table.    *)
THEOREM CopyAlwaysSound == Spec => []CopyInv
  BY CopyInvInit, CopyInvKept, PTL DEF Spec

(* Every variable has its type. *)
THEOREM DeltaTypeCorrect == Spec => []TypeOK
<1>1. CopyInv => TypeOK
  BY DEF CopyInv
<1> QED BY <1>1, CopyAlwaysSound, PTL

(* A 304 hides nothing, after whatever sequence of syncs cut short. *)
THEOREM EtagAlwaysStored == Spec => []EtagIsStored
<1>1. CopyInv => EtagIsStored
  BY DEF CopyInv
<1> QED BY <1>1, CopyAlwaysSound, PTL

-----------------------------------------------------------------------------
(* Where an update may be that the phone does not have, at each stage. *)
Stale(n) == local[n] # rows[n].ver

Tracked ==
    /\ OnlyMissedIsStale
    /\ stage = "answered" =>
          \A n \in Numbers : Stale(n) =>
              n \in missed \/ \E it \in reply : it.n = n /\ it.ver = rows[n].ver
    /\ stage \in {"stored", "tagged"} => \A n \in Numbers : Stale(n) => n \in missed

LEMMA TrackedKept == CopyInv /\ Tracked /\ [Next]_vars => Tracked'
<1> SUFFICES ASSUME CopyInv, Tracked, [Next]_vars PROVE Tracked'
  OBVIOUS
<1> USE DEF Tracked, OnlyMissedIsStale, Stale, Changed
<1>1. ASSUME UNCHANGED <<rows, local, cursor, reply, missed>>,
             stage' \notin {"answered", "stored"} \/ stage' = stage,
             stage' = "tagged" => stage \in {"stored", "tagged"}
      PROVE  Tracked'
  BY <1>1
<1>2. CASE Tick \/ Writing \/ OthersSync \/ Expire \/ Sync \/ SaveEtag \/ Reload \/ ReloadFails
           \/ UNCHANGED vars
  BY <1>1, <1>2 DEF Tick, Writing, Begin, OthersSync, Expire, Sync, SaveEtag, Reload,
                    ReloadFails, vars, index, phone
<1>3. ASSUME NEW w \in writes, Commit(w) PROVE Tracked'
  <2>1. UNCHANGED <<local, cursor, reply, stage>> /\ missed \subseteq missed'
    BY <1>3 DEF Commit, phone
  <2>2. w.n \in Numbers /\ w.stamp \in Nat /\ cursor \in Int
    BY DEF CopyInv, TypeOK
  <2>3. \A n \in Numbers : n # w.n => rows'[n] = rows[n]
    BY <1>3 DEF Commit, CopyInv, TypeOK
  <2>4. rows'[w.n].stamp = w.stamp
    BY <1>3, <2>2 DEF Commit, CopyInv, TypeOK
  <2>5. w.n \in missed' \/ rows'[w.n].stamp > cursor
    BY <1>3, <2>2, <2>4 DEF Commit
  <2>6. stage \in {"answered", "stored", "tagged"} => w.n \in missed'
    BY <1>3 DEF Commit
  <2> QED BY <2>1, <2>3, <2>5, <2>6
<1>4. CASE NotModified \/ Answer
  <2>1. UNCHANGED <<rows, local, cursor>> /\ missed' = missed \cup Missing(Served, cursor)
        /\ stage' \notin {"stored", "tagged"} /\ (stage' = "answered" => reply' = Served)
    BY <1>4 DEF NotModified, Answer, index, phone
  <2> QED BY <2>1 DEF Missing
<1>5. CASE Store
  <2>1. UNCHANGED <<rows, cursor>> /\ stage' = "stored" /\ stage = "answered"
        /\ missed' = missed \ {n \in Numbers : local'[n] = rows[n].ver}
    BY <1>5 DEF Store, index
  <2>2. ASSUME NEW n \in Numbers, local'[n] # rows[n].ver PROVE n \in missed
    <3>1. ASSUME NEW it \in reply, it.n = n PROVE it.ver # rows[n].ver
      BY <1>5, <2>2, <3>1, StoreGrows, StoredPage DEF CopyInv, Pages
    <3>2. Stale(n)
      <4>1. local[n] \in Nat /\ local'[n] \in Nat /\ rows[n].ver \in Nat
            /\ local[n] <= local'[n] /\ local'[n] <= rows[n].ver
        BY <1>5, StoreGrows DEF CopyInv, TypeOK
      <4> QED BY <2>2, <4>1
    <3> QED BY <2>1, <3>1, <3>2
  <2> QED BY <2>1, <2>2
<1>6. CASE SaveCursor
  BY <1>6 DEF SaveCursor, index
<1>7. CASE CutShort
  BY <1>7 DEF CutShort, index, phone
<1> QED BY <1>2, <1>3, <1>4, <1>5, <1>6, <1>7 DEF Next, Committing, OnServer, OnPhone

(* Only the named causes lose an update: LIMIT, a page of the edge and a commit
   that the page or the cursor had passed.                                   *)
THEOREM OnlyMissedIsEverStale == Spec => []OnlyMissedIsStale
<1>1. Init => Tracked
  BY DEF Init, Tracked, OnlyMissedIsStale, Stale
<1>2. Tracked => OnlyMissedIsStale
  BY DEF Tracked
<1> QED BY <1>1, <1>2, CopyAlwaysSound, TrackedKept, PTL DEF Spec

(* The call directory is behind the table only while a sync is at work on it,
   or after one that did not get through its reload.                         *)
THEOREM DirectoryAlwaysFollows == Spec => []DirectoryFollows
<1> DEFINE Loaded == stage \in {"idle", "asking", "answered"} /\ directory # local => unloaded
<1>1. Init => Loaded
  BY DEF Init
<1>2. TypeOK /\ Loaded /\ [Next]_vars => Loaded'
  <2> SUFFICES ASSUME TypeOK, Loaded, [Next]_vars PROVE Loaded'
    OBVIOUS
  <2>1. CASE Tick \/ Writing \/ Committing \/ OthersSync \/ Expire \/ Sync \/ UNCHANGED vars
    BY <2>1 DEF Tick, Writing, Begin, Committing, Commit, OthersSync, Expire, Sync, vars,
                index, phone
  <2>2. CASE OnServer
    BY <2>2 DEF OnServer, NotModified, Answer, index, phone
  <2>3. CASE OnPhone
    BY <2>3 DEF OnPhone, Store, SaveEtag, SaveCursor, Reload, index
  <2>4. CASE ReloadFails \/ CutShort
    BY <2>4 DEF ReloadFails, CutShort, TypeOK, Stages, phone
  <2> QED BY <2>1, <2>2, <2>3, <2>4 DEF Next
<1>3. Loaded => DirectoryFollows
  BY DEF DirectoryFollows
<1> QED BY <1>1, <1>2, <1>3, DeltaTypeCorrect, PTL DEF Spec

-----------------------------------------------------------------------------
(* The phone's copy implements Mirror: a commit publishes, a stored page
   refreshes, and every other step is a stutter.                             *)
LEMMA StepMirrors == CopyInv /\ [Next]_vars => [Copy!Next]_<<[n \in Numbers |-> rows[n].ver], local>>
<1> SUFFICES ASSUME CopyInv, [Next]_vars
             PROVE  [Copy!Next]_<<[n \in Numbers |-> rows[n].ver], local>>
  OBVIOUS
<1>1. ASSUME UNCHANGED <<rows, local>> PROVE UNCHANGED <<[n \in Numbers |-> rows[n].ver], local>>
  BY <1>1
<1>2. ASSUME NEW w \in writes, Commit(w) PROVE Copy!Next
  <2>1. w.n \in Numbers /\ UNCHANGED local
    BY <1>2 DEF Commit, phone, CopyInv, TypeOK
  <2>2. \A n \in Numbers : rows'[n].ver = IF n = w.n THEN rows[n].ver + 1 ELSE rows[n].ver
    BY <1>2, <2>1 DEF Commit, CopyInv, TypeOK
  <2>3. Copy!Publish(w.n)
    BY <2>1, <2>2 DEF Copy!Publish
  <2> QED BY <2>1, <2>3 DEF Copy!Next
<1>3. CASE Store
  <2>1. UNCHANGED rows
    BY <1>3 DEF Store, index
  <2>2. Copy!Refresh
    BY <1>3, <2>1, StoreGrows DEF Copy!Refresh
  <2> QED BY <2>2 DEF Copy!Next
<1>4. CASE Tick \/ Writing \/ OthersSync \/ Expire \/ Sync \/ OnServer \/ SaveEtag \/ SaveCursor
           \/ Reload \/ ReloadFails \/ CutShort \/ UNCHANGED vars
  BY <1>1, <1>4 DEF Tick, Writing, Begin, OthersSync, Expire, Sync, OnServer, NotModified, Answer,
                    SaveEtag, SaveCursor, Reload, ReloadFails, CutShort, vars, index, phone
<1> QED BY <1>2, <1>3, <1>4 DEF Next, Committing, OnPhone

(* The refinement: an entry on the phone is one the index has published, and is
   never replaced by an older one.                                           *)
THEOREM PhoneMirrors == Spec => Mirrors
<1>1. Init => Copy!Init
  BY DEF Init, Copy!Init
<1> QED BY <1>1, CopyAlwaysSound, StepMirrors, PTL DEF Spec, Mirrors, Copy!Spec
=============================================================================

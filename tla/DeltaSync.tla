----------------------------- MODULE DeltaSync ------------------------------
(***************************************************************************)
(* How a phone follows the index: get_delta with its cursor, LIMIT and     *)
(* ETag, the edge cache in front of it, and performDeltaSync, which writes *)
(* a page, the ETag and the cursor in three steps and then reloads the iOS *)
(* call directory.  Beside them the handlers that write rows: each takes   *)
(* its time stamp when it starts and commits later.                        *)
(*                                                                         *)
(* One country and one phone.  A row is its version and updated_at: a page *)
(* is a set of such rows, the ETag of a page is the page.                  *)
(***************************************************************************)
EXTENDS Integers, FiniteSets

CONSTANTS
    Numbers,     \* e164 numbers, ordered
    Limit,       \* the LIMIT of a page
    Skews,       \* how far a phone's clock may be ahead of the database's
    MaxTime,     \* bound on the database's clock
    MaxWrites,   \* bound on writes
    MaxFailures  \* bound on syncs cut short

ASSUME NumbersAssumption == Numbers \subseteq Int
ASSUME SkewsAssumption == Skews \subseteq Int /\ \A skew \in Skews : skew >= -1
ASSUME BoundsAssumption ==
    Limit \in Nat /\ MaxTime \in Nat /\ MaxWrites \in Nat /\ MaxFailures \in Nat

VARIABLES
    clock,       \* the database's and the API's clock
    rows,        \* numbers: version and updated_at, version 0 for no row
    writes,      \* writes begun and not committed: the number and its stamp
    edge,        \* the page cached at the edge for a first sync, if any
    stage,       \* where performDeltaSync is
    reply,       \* the page on its way to the phone
    local,       \* local_numbers: the version of each row
    etag,        \* etag_<country>: the page it is the hash of, if any
    cursor,      \* last_sync_<country>, 0 if never set
    directory,   \* what the iOS call directory was last loaded with
    missed,      \* history: see Missing, Commit
    unloaded,    \* history: a reload after the last stores never succeeded
    begun, failures

index == <<clock, rows, writes, begun>>
phone == <<local, etag, cursor, directory>>
vars  == <<index, edge, stage, reply, phone, missed, unloaded, failures>>

Items  == [n : Numbers, ver : Nat, stamp : Nat]
Stages == {"idle", "asking", "answered", "stored", "tagged", "moved"}

-----------------------------------------------------------------------------
(* The rows a cursor asks for, and the page: the first Limit of them by
   number.  A row without a version does not exist, its stamp is 0.         *)
Changed(since) == {n \in Numbers : rows[n].stamp > since}

Page(since) ==
    {[n |-> n, ver |-> rows[n].ver, stamp |-> rows[n].stamp] :
        n \in {k \in Changed(since) :
                  Cardinality({m \in Changed(since) : m < k}) < Limit}}

(* Mutated: a number the phone has is left alone. *)
StoredIfNew(page) ==
    [n \in Numbers |->
        IF local[n] = 0 /\ \E it \in page : it.n = n
        THEN (CHOOSE it \in page : it.n = n).ver
        ELSE local[n]]

(* Mutated: the page is taken for the whole of the index. *)
StoredAsSnapshot(page) ==
    [n \in Numbers |->
        IF \E it \in page : it.n = n
        THEN (CHOOSE it \in page : it.n = n).ver
        ELSE 0]

(* The batch: insertOrReplace by number, in one transaction. *)
Stored(page) ==
    [n \in Numbers |->
        IF \E it \in page : it.n = n
        THEN (CHOOSE it \in page : it.n = n).ver
        ELSE local[n]]

(* Rows the cursor asks for that a page does not carry as they are now. *)
Missing(page, since) ==
    {n \in Changed(since) :
        ~ \E it \in page : it.n = n /\ it.ver = rows[n].ver}

Init ==
    /\ clock = 2 /\ begun = 0 /\ failures = 0
    /\ rows = [n \in Numbers |-> [ver |-> 0, stamp |-> 0]]
    /\ writes = {}
    /\ edge = {} /\ reply = {} /\ etag = {}
    /\ stage = "idle"
    /\ local = [n \in Numbers |-> 0]
    /\ directory = local
    /\ cursor = 0
    /\ missed = {} /\ unloaded = FALSE

-----------------------------------------------------------------------------
(* The index. *)
Tick ==
    /\ clock < MaxTime
    /\ clock' = clock + 1
    /\ UNCHANGED <<rows, writes, begun, edge, stage, reply, phone, missed,
                   unloaded, failures>>

(* A handler starts: updated_at will be now, whenever it gets to commit. *)
Begin(n) ==
    /\ begun < MaxWrites
    /\ begun' = begun + 1
    /\ writes' = writes \cup {[n |-> n, stamp |-> clock]}
    /\ UNCHANGED <<clock, rows, edge, stage, reply, phone, missed, unloaded, failures>>

(* Its statement commits.  The stamp is the handler's even if the row has a
   later one.  A sync that has read its page will move the cursor past it.  *)
Commit(w) ==
    /\ w \in writes
    /\ writes' = writes \ {w}
    /\ rows' = [rows EXCEPT ![w.n] = [ver |-> @.ver + 1, stamp |-> w.stamp]]
    /\ missed' = IF w.stamp <= cursor \/ stage \in {"answered", "stored", "tagged"}
                 THEN missed \cup {w.n} ELSE missed
    /\ UNCHANGED <<clock, begun, edge, stage, reply, phone, unloaded, failures>>

-----------------------------------------------------------------------------
(* The edge: a first sync has no since, so all phones share its URL.  Pages
   may be served from there for a while.                                    *)
OthersSync ==
    /\ edge = {}
    /\ edge' = {Page(0)}
    /\ UNCHANGED <<index, stage, reply, phone, missed, unloaded, failures>>

Expire ==
    /\ edge # {}
    /\ edge' = {}
    /\ UNCHANGED <<index, stage, reply, phone, missed, unloaded, failures>>

-----------------------------------------------------------------------------
(* performDeltaSync.  Its only caller runs one at a time. *)
Sync ==
    /\ stage = "idle"
    /\ stage' = "asking"
    /\ UNCHANGED <<index, edge, reply, phone, missed, unloaded, failures>>

(* What the request is answered with, and the edge left behind. *)
Shared == cursor = 0
Served == IF Shared /\ edge # {} THEN UNION edge ELSE Page(cursor)
Cached == IF Shared THEN {Served} ELSE edge

(* Mutated: the ETag is of the page's numbers alone. *)
NotModifiedByNumbers ==
    /\ stage = "asking"
    /\ \E page \in etag : {it.n : it \in page} = {it.n : it \in Served}
    /\ edge' = Cached
    /\ missed' = missed \cup Missing(Served, cursor)
    /\ stage' = "idle"
    /\ UNCHANGED <<index, reply, phone, unloaded, failures>>

(* 304: the phone returns at once, the cursor stays, nothing is reloaded. *)
NotModified ==
    /\ stage = "asking"
    /\ etag = {Served}
    /\ edge' = Cached
    /\ missed' = missed \cup Missing(Served, cursor)
    /\ stage' = "idle"
    /\ UNCHANGED <<index, reply, phone, unloaded, failures>>

(* Mutated: the ETag is kept as soon as it is seen. *)
AnswerKeepsEtag ==
    /\ stage = "asking"
    /\ etag # {Served}
    /\ reply' = Served
    /\ etag' = {Served}
    /\ edge' = Cached
    /\ missed' = missed \cup Missing(Served, cursor)
    /\ stage' = "answered"
    /\ UNCHANGED <<index, local, cursor, directory, unloaded, failures>>

Answer ==
    /\ stage = "asking"
    /\ etag # {Served}
    /\ reply' = Served
    /\ edge' = Cached
    /\ missed' = missed \cup Missing(Served, cursor)
    /\ stage' = "answered"
    /\ UNCHANGED <<index, phone, unloaded, failures>>

Store ==
    /\ stage = "answered"
    /\ local' = Stored(reply)
    /\ missed' = missed \ {n \in Numbers : local'[n] = rows[n].ver}
    /\ stage' = "stored"
    /\ UNCHANGED <<index, edge, reply, etag, cursor, directory, unloaded, failures>>

(* Mutated: the phone keeps every ETag it has seen. *)
SaveEtagToo ==
    /\ stage = "stored"
    /\ etag' = etag \cup {reply}
    /\ stage' = "tagged"
    /\ UNCHANGED <<index, edge, reply, local, cursor, directory, missed,
                   unloaded, failures>>

SaveEtag ==
    /\ stage = "stored"
    /\ etag' = {reply}
    /\ stage' = "tagged"
    /\ UNCHANGED <<index, edge, reply, local, cursor, directory, missed,
                   unloaded, failures>>

(* Mutated: the sync is over without a reload. *)
SaveCursorAndReturn ==
    /\ stage = "tagged"
    /\ \E skew \in Skews : cursor' = clock + skew
    /\ stage' = "idle"
    /\ reply' = {}
    /\ UNCHANGED <<index, edge, local, etag, directory, missed, unloaded, failures>>

(* The cursor is the phone's own clock, now. *)
SaveCursor ==
    /\ stage = "tagged"
    /\ \E skew \in Skews : cursor' = clock + skew
    /\ stage' = "moved"
    /\ reply' = {}
    /\ UNCHANGED <<index, edge, local, etag, directory, missed, unloaded, failures>>

(* The extension reads the whole table. *)
Reload ==
    /\ stage = "moved"
    /\ directory' = local
    /\ unloaded' = FALSE
    /\ stage' = "idle"
    /\ UNCHANGED <<index, edge, reply, local, etag, cursor, missed, failures>>

(* reloadCallDirectoryExtension answers false and the sync has succeeded. *)
ReloadFails ==
    /\ stage = "moved"
    /\ failures < MaxFailures
    /\ failures' = failures + 1
    /\ unloaded' = TRUE
    /\ stage' = "idle"
    /\ UNCHANGED <<index, edge, reply, phone, missed>>

(* The request or a step after it fails and is thrown on, or the app is
   killed.  What was missed and is still asked for will come.               *)
CutShort ==
    /\ stage # "idle"
    /\ failures < MaxFailures
    /\ failures' = failures + 1
    /\ stage' = "idle"
    /\ reply' = {}
    /\ missed' = missed \ Changed(cursor)
    /\ unloaded' = (unloaded \/ stage \in {"stored", "tagged", "moved"})
    /\ UNCHANGED <<index, edge, phone>>

-----------------------------------------------------------------------------
Writing   == \E n \in Numbers : Begin(n)
Committing == \E w \in writes : Commit(w)
OnServer  == NotModified \/ Answer
OnPhone   == Store \/ SaveEtag \/ SaveCursor \/ Reload

Next ==
    \/ Tick \/ Writing \/ Committing
    \/ OthersSync \/ Expire
    \/ Sync \/ OnServer \/ OnPhone
    \/ ReloadFails \/ CutShort

(* Requests are answered or time out, a sync that has its answer goes on, and
   the edge lets a page go.  Nobody is bound to write or to sync.           *)
Fairness == WF_vars(OnServer) /\ WF_vars(OnPhone) /\ WF_vars(Expire)

Spec == Init /\ [][Next]_vars
FairSpec == Spec /\ Fairness

-----------------------------------------------------------------------------
(* Every variable has its type. *)
TypeOK ==
    /\ clock \in Nat /\ begun \in Nat /\ failures \in Nat
    /\ rows \in [Numbers -> [ver : Nat, stamp : Nat]]
    /\ writes \subseteq [n : Numbers, stamp : Nat]
    /\ reply \in SUBSET Items
    /\ edge \in SUBSET SUBSET Items /\ etag \in SUBSET SUBSET Items
    /\ \A page, other \in etag : page = other
    /\ stage \in Stages
    /\ local \in [Numbers -> Nat] /\ directory \in [Numbers -> Nat]
    /\ cursor \in Int
    /\ missed \subseteq Numbers
    /\ unloaded \in BOOLEAN

(* A 304 hides nothing: whenever the stored ETag could match, every entry of
   its page is in the local table at that version or a later one, whatever
   step of an earlier sync was the last to complete (sync_service.dart:43-77,
   matches_if_none_match).                                                  *)
EtagIsStored ==
    \A page \in etag : \A it \in page : local[it.n] >= it.ver

(* An update behind the cursor that the phone does not have was committed
   after its page was read or with a stamp the cursor had passed, or was left
   off by LIMIT or by an old page at the edge; nothing else is lost, with
   crashes between any two steps (sync.rs:32-52, sync_service.dart:43-74).   *)
OnlyMissedIsStale ==
    \A n \in Numbers :
        local[n] # rows[n].ver => n \in Changed(cursor) \cup missed

(* Between syncs the call directory is the local table, unless a sync that had
   stored its page was cut short or its reload failed: a 304 reloads nothing, so
   that is not made good before the feed changes (sync_service.dart:31-34, 77). *)
DirectoryFollows ==
    stage = "idle" /\ directory # local => unloaded

(* The phone's copy behaves as Mirror promises. *)
Copy == INSTANCE Mirror WITH published <- [n \in Numbers |-> rows[n].ver],
                             copy <- local
Mirrors == Copy!Spec

(* Once writes end, a phone that goes on syncing has everything but what it
   missed, and for good (call_history_screen.dart:22-50 asks again and again
   with the cursor it kept).                                                *)
CatchesUp ==
    []<>(stage = "asking") =>
        <>[](\A n \in Numbers : local[n] = rows[n].ver \/ n \in missed)
=============================================================================

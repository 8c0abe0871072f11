--------------------------- MODULE BridgeSession ---------------------------
(***************************************************************************)
(* The WhatsApp bridge's session: how it connects, reconnects, gives up,   *)
(* keeps its credentials on disk and in Postgres, is reset from the        *)
(* pairing page, shut down and restarted.                                  *)
(*                                                                         *)
(* A line is one chain of control: connect(), the socket it makes, that    *)
(* socket's close handler, the timer the handler sets, connect() again.    *)
(* Start-up begins a line and so does a reset; nothing in the code joins   *)
(* or cancels lines, they only share the module's variables.  An action    *)
(* is the code between two awaits.                                         *)
(*                                                                         *)
(* Abstracted: QR codes, the status column (nothing reads it but the       *)
(* page), messages, delays.  Credentials are the number of the account     *)
(* they belong to, 0 before an account is linked, Empty for no file.       *)
(***************************************************************************)
EXTENDS Integers, FiniteSets

CONSTANTS
    Lines,        \* bounds the chains alive at a time
    NoLine,       \* sock = null
    MaxAttempts,  \* MAX_RECONNECT_ATTEMPTS
    MaxLogouts,   \* MAX_CONSECUTIVE_LOGOUTS
    MaxPairings,  \* bound on the accounts linked
    MaxWrites,    \* bound on writes of credentials under way when one is added
    MaxFaults     \* bound on resets, failures, crashes and redeploys

ASSUME NoLineAssumption == NoLine \notin Lines
ASSUME BoundsAssumption ==
    /\ MaxAttempts \in Nat /\ MaxLogouts \in Nat
    /\ MaxPairings \in Nat /\ MaxWrites \in Nat /\ MaxFaults \in Nat

VARIABLES
    up,                  \* the process runs
    shuttingDown,
    reconnectAttempts,
    consecutiveLogouts,
    sock,                \* the line whose socket was made last, or NoLine
    line,                \* where each chain is
    held,                \* the credentials a line's code or socket has
    greeting,            \* lines whose open handler awaits its status update
    storing,             \* <<line, credentials>> to be written to disk
    saving,              \* <<caller, credentials>> on their way to Postgres
    disk, db,            \* the credentials in authDir and in baileys_session
    paired,              \* accounts linked so far
    forgotten,           \* history: accounts linked before the last reset
    mishaps,             \* history: see Reset and LoadGarbled
    resetFailed,         \* history: this process's last reset answered 500
    tries,               \* history: timers since the last open or reset
    faults               \* history: disturbances so far

process     == <<up, shuttingDown>>
counters    == <<reconnectAttempts, consecutiveLogouts, tries>>
connections == <<sock, line, held>>
pending     == <<greeting, storing, saving>>
stores      == <<disk, db>>
past        == <<paired, forgotten, mishaps, faults, resetFailed>>
vars        == <<process, counters, connections, pending, stores, past>>

-----------------------------------------------------------------------------
Empty    == -1
Accounts == 1..MaxPairings
Creds    == {Empty, 0} \cup Accounts

Starting  == {"backing", "loading", "loaded"}         \* restoreAuthFromDb
Resetting == {"clearing", "noting"}                   \* resetSession
Joining   == {"reading", "fetching"}                  \* connect
Reasons   == {"restartRequired", "loggedOut", "dropped"}
Wire      == {"opening", "linked", "open"}
Stages    == {"idle", "waiting"} \cup Wire
             \cup Starting \cup Resetting \cup Joining \cup Reasons

(* Sockets that are on the wire, and lines that will act again. *)
Live == {c \in Lines : line[c] \in Wire}
Busy == {c \in Lines : line[c] # "idle"}

Move(c, stage) == line' = [line EXCEPT ![c] = stage]
Hold(c, creds) == held' = [held EXCEPT ![c] = creds]

(* What a line holds goes with the socket or the call that held it. *)
Holding == {"backing", "loaded", "fetching"} \cup Wire
Release == held' = [c \in Lines |-> IF line'[c] \in Holding THEN held[c] ELSE Empty]

Disturb == faults < MaxFaults /\ faults' = faults + 1
WritesLeft == Cardinality(storing) + Cardinality(saving) < MaxWrites

Init ==
    /\ up = FALSE /\ shuttingDown = FALSE
    /\ reconnectAttempts = 0 /\ consecutiveLogouts = 0 /\ tries = 0
    /\ sock = NoLine
    /\ line = [c \in Lines |-> "idle"]
    /\ held = [c \in Lines |-> Empty]
    /\ greeting = {} /\ storing = {} /\ saving = {}
    /\ disk = Empty /\ db = Empty
    /\ paired = 0 /\ forgotten = 0 /\ mishaps = {}
    /\ resetFailed = FALSE /\ faults = 0

-----------------------------------------------------------------------------
(* Mutated: the disk is backed up whether it holds files or not. *)
BootUnchecked(c) ==
    /\ ~up
    /\ up' = TRUE
    /\ Move(c, "backing")
    /\ Hold(c, disk)
    /\ UNCHANGED <<shuttingDown, counters, sock, pending, stores, past>>

(* Start-up: the disk is backed up if it holds files, else restored. *)
Boot(c) ==
    /\ ~up
    /\ up' = TRUE
    /\ Move(c, IF disk = Empty THEN "loading" ELSE "backing")
    /\ Hold(c, disk)
    /\ UNCHANGED <<shuttingDown, counters, sock, pending, stores, past>>

BootSaves(c) ==
    /\ line[c] = "backing"
    /\ db' = held[c]
    /\ Move(c, "reading")
    /\ Release
    /\ UNCHANGED <<process, counters, sock, pending, disk, past>>

Load(c) ==
    /\ line[c] = "loading"
    /\ Hold(c, db)
    /\ Move(c, "loaded")
    /\ UNCHANGED <<process, counters, sock, pending, stores, past>>

(* Credentials that do not decrypt count as none. *)
LoadGarbled(c) ==
    /\ line[c] = "loading"
    /\ db # Empty
    /\ Disturb
    /\ mishaps' = mishaps \cup {"key"}
    /\ Hold(c, Empty)
    /\ Move(c, "loaded")
    /\ UNCHANGED <<process, counters, sock, pending, stores, paired, forgotten, resetFailed>>

Restore(c) ==
    /\ line[c] = "loaded"
    /\ disk' = IF held[c] = Empty THEN disk ELSE held[c]
    /\ Move(c, "reading")
    /\ Release
    /\ UNCHANGED <<process, counters, sock, pending, db, past>>

-----------------------------------------------------------------------------
(* connect.  Reading the files queues behind the writes already asked for. *)
ReadAuthState(c) ==
    /\ line[c] = "reading"
    /\ storing = {}
    /\ Hold(c, IF disk = Empty THEN 0 ELSE disk)
    /\ Move(c, "fetching")
    /\ UNCHANGED <<process, counters, sock, pending, stores, past>>

(* The version is known: the socket is made and becomes the current one. *)
MakeSocket(c) ==
    /\ line[c] = "fetching"
    /\ sock' = c
    /\ Move(c, "opening")
    /\ UNCHANGED <<process, counters, held, pending, stores, past>>

(* A phone scans the code: the socket's credentials get an account.  WhatsApp
   then closes the socket, for the bridge to come back with them.            *)
Pair(c) ==
    /\ line[c] = "opening" /\ held[c] = 0
    /\ paired < MaxPairings
    /\ paired' = paired + 1
    /\ Hold(c, paired')
    /\ storing' = {w \in storing : w[1] # c} \cup {<<c, paired'>>}
    /\ Move(c, "linked")
    /\ UNCHANGED <<process, counters, sock, greeting, saving, stores,
                   forgotten, mishaps, resetFailed, faults>>

(* creds.update: keys change, the files are to be written.  A write takes the
   credentials as they are when its turn comes, so a line has at most one.   *)
CredsUpdate(c) ==
    /\ c \in Live
    /\ WritesLeft
    /\ storing' = storing \cup {<<c, held[c]>>}
    /\ UNCHANGED <<process, counters, connections, greeting, saving, stores, past>>

(* saveCreds is through; persistAuthToDb reads the files and goes on. *)
StoreCreds(w) ==
    /\ w \in storing
    /\ storing' = storing \ {w}
    /\ disk' = w[2]
    /\ saving' = saving \cup {<<"event", w[2]>>}
    /\ UNCHANGED <<process, counters, connections, greeting, db, past>>

(* The five connections of the pool may finish in any order. *)
SaveCredentials(w) ==
    /\ w \in saving
    /\ saving' = saving \ {w}
    /\ db' = w[2]
    /\ UNCHANGED <<process, counters, connections, greeting, storing, disk, past>>

(* Only the periodic backup survives an error; elsewhere it is a Crash. *)
SaveFails(w) ==
    /\ w \in saving /\ w[1] = "timer"
    /\ Disturb
    /\ saving' = saving \ {w}
    /\ UNCHANGED <<process, counters, connections, greeting, storing, stores,
                   paired, forgotten, mishaps, resetFailed>>

(* Mutated: the backup only runs while the socket is open. *)
PeriodicPersistWhenOpen ==
    /\ sock # NoLine /\ ~shuttingDown
    /\ sock \in Lines /\ line[sock] = "open"
    /\ WritesLeft
    /\ saving' = saving \cup {<<"timer", disk>>}
    /\ UNCHANGED <<process, counters, connections, greeting, storing, stores, past>>

PeriodicPersist ==
    /\ sock # NoLine /\ ~shuttingDown
    /\ WritesLeft
    /\ saving' = saving \cup {<<"timer", disk>>}
    /\ UNCHANGED <<process, counters, connections, greeting, storing, stores, past>>

(* connection === "open", up to the status update and after it. *)
Established(c) ==
    /\ line[c] = "opening" /\ held[c] \in Accounts
    /\ reconnectAttempts' = 0 /\ consecutiveLogouts' = 0 /\ tries' = 0
    /\ greeting' = greeting \cup {c}
    /\ Move(c, "open")
    /\ UNCHANGED <<process, sock, held, storing, saving, stores, past>>

Greeted(c) ==
    /\ c \in greeting
    /\ greeting' = greeting \ {c}
    /\ saving' = saving \cup {<<"event", disk>>}
    /\ UNCHANGED <<process, counters, connections, storing, stores, past>>

-----------------------------------------------------------------------------
(* connection === "close" *)
ClosedForShutdown(c) ==
    /\ c \in Live /\ shuttingDown
    /\ Move(c, "idle")
    /\ Release
    /\ UNCHANGED <<process, counters, sock, pending, stores, past>>

(* The handler runs up to its status update. *)
Closed(c, reason) ==
    /\ c \in Live /\ ~shuttingDown
    /\ Move(c, reason)
    /\ Release
    /\ UNCHANGED <<process, counters, sock, pending, stores, past>>

ReconnectAtOnce(c) ==
    /\ line[c] = "restartRequired"
    /\ Move(c, "reading")
    /\ UNCHANGED <<process, counters, sock, held, pending, stores, past>>

LoggedOut(c) ==
    /\ line[c] = "loggedOut"
    /\ consecutiveLogouts' = consecutiveLogouts + 1
    /\ IF consecutiveLogouts' > MaxLogouts
       THEN Move(c, "idle") /\ tries' = tries
       ELSE Move(c, "waiting") /\ tries' = tries + 1
    /\ UNCHANGED <<process, reconnectAttempts, sock, held, pending, stores, past>>

(* Mutated: one attempt too many. *)
DroppedOnceMore(c) ==
    /\ line[c] = "dropped"
    /\ reconnectAttempts <= MaxAttempts
    /\ consecutiveLogouts' = 0
    /\ reconnectAttempts' = reconnectAttempts + 1
    /\ tries' = tries + 1
    /\ Move(c, "waiting")
    /\ UNCHANGED <<process, sock, held, pending, stores, past>>

(* Mutated: attempts are only counted by the openings that follow. *)
DroppedUncounted(c) ==
    /\ line[c] = "dropped"
    /\ reconnectAttempts < MaxAttempts
    /\ consecutiveLogouts' = 0
    /\ reconnectAttempts' = reconnectAttempts
    /\ tries' = tries + 1
    /\ Move(c, "waiting")
    /\ UNCHANGED <<process, sock, held, pending, stores, past>>

Dropped(c) ==
    /\ line[c] = "dropped"
    /\ reconnectAttempts < MaxAttempts
    /\ consecutiveLogouts' = 0
    /\ reconnectAttempts' = reconnectAttempts + 1
    /\ tries' = tries + 1
    /\ Move(c, "waiting")
    /\ UNCHANGED <<process, sock, held, pending, stores, past>>

TimerFires(c) ==
    /\ line[c] = "waiting"
    /\ Move(c, "reading")
    /\ UNCHANGED <<process, counters, sock, held, pending, stores, past>>

-----------------------------------------------------------------------------
(* The process ends: what was in memory or under way is gone. *)
Die ==
    /\ up' = FALSE /\ shuttingDown' = FALSE
    /\ reconnectAttempts' = 0 /\ consecutiveLogouts' = 0 /\ tries' = 0
    /\ sock' = NoLine
    /\ line' = [c \in Lines |-> "idle"]
    /\ held' = [c \in Lines |-> Empty]
    /\ greeting' = {} /\ storing' = {} /\ saving' = {}
    /\ resetFailed' = FALSE

(* Mutated: the error is logged, the process does not exit. *)
DroppedForGood(c) ==
    /\ line[c] = "dropped"
    /\ reconnectAttempts >= MaxAttempts
    /\ consecutiveLogouts' = 0
    /\ Move(c, "idle")
    /\ UNCHANGED <<process, reconnectAttempts, tries, sock, held, pending, stores, past>>

(* process.exit(1) after too many attempts; the container restarts. *)
DroppedTooOften(c) ==
    /\ line[c] = "dropped"
    /\ reconnectAttempts >= MaxAttempts
    /\ Die
    /\ UNCHANGED <<stores, paired, forgotten, mishaps, faults>>

(* An error no handler catches, or a kill. *)
Crash ==
    /\ up
    /\ Disturb
    /\ Die
    /\ UNCHANGED <<stores, paired, forgotten, mishaps>>

(* SIGTERM: the current socket is closed, and 300 ms later the process exits. *)
Terminate ==
    /\ up /\ ~shuttingDown
    /\ Disturb
    /\ shuttingDown' = TRUE
    /\ saving' = IF sock = NoLine THEN saving ELSE saving \cup {<<"event", disk>>}
    /\ line' = [c \in Lines |-> IF c = sock /\ c \in Live THEN "idle" ELSE line[c]]
    /\ Release
    /\ UNCHANGED <<up, counters, sock, greeting, storing, stores,
                   paired, forgotten, mishaps, resetFailed>>

Exit ==
    /\ shuttingDown
    /\ Die
    /\ UNCHANGED <<stores, paired, forgotten, mishaps, faults>>

(* The container is redeployed on a new volume. *)
LoseDisk ==
    /\ ~up /\ disk # Empty
    /\ Disturb
    /\ disk' = Empty
    /\ UNCHANGED <<process, counters, connections, pending, db,
                   paired, forgotten, mishaps, resetFailed>>

-----------------------------------------------------------------------------
(* Mutated: the listeners of the old socket are not removed, so its close
   handler runs as for any other close.                                     *)
AfterResetListening(d) ==
    IF d = sock /\ d \in Live THEN "dropped" ELSE line[d]

(* The current socket is ended without its close handler; a line that is
   anywhere else than on the wire is not stopped.                           *)
AfterReset(d) == IF d = sock /\ d \in Live THEN "idle" ELSE line[d]

(* POST /reset, up to clearCredentials.  Mishaps: another line, or a write of
   credentials, is under way and will go on.                                *)
Reset(c) ==
    /\ up /\ line[c] = "idle"
    /\ Disturb
    /\ reconnectAttempts' = 0 /\ consecutiveLogouts' = 0 /\ tries' = 0
    /\ sock' = NoLine
    /\ line' = [d \in Lines |-> IF d = c THEN "clearing" ELSE AfterReset(d)]
    /\ disk' = Empty
    /\ mishaps' = mishaps
         \cup (IF Busy \subseteq Live \cap {sock} THEN {} ELSE {"line"})
         \cup (IF storing = {} /\ saving = {} THEN {} ELSE {"write"})
    /\ resetFailed' = FALSE
    /\ Release
    /\ UNCHANGED <<process, pending, db, paired, forgotten>>

(* Mutated: only the status is updated. *)
ResetLeavesDb(c) ==
    /\ line[c] = "clearing"
    /\ forgotten' = paired
    /\ Move(c, "noting")
    /\ UNCHANGED <<process, counters, sock, held, pending, stores,
                   paired, mishaps, resetFailed, faults>>

ResetClears(c) ==
    /\ line[c] = "clearing"
    /\ db' = Empty
    /\ forgotten' = paired
    /\ Move(c, "noting")
    /\ UNCHANGED <<process, counters, sock, held, pending, disk,
                   paired, mishaps, resetFailed, faults>>

ResetConnects(c) ==
    /\ line[c] = "noting"
    /\ Move(c, "reading")
    /\ UNCHANGED <<process, counters, sock, held, pending, stores, past>>

(* Either statement fails: the request is answered 500, nothing else. *)
ResetFails(c) ==
    /\ line[c] \in Resetting
    /\ Disturb
    /\ resetFailed' = TRUE
    /\ Move(c, "idle")
    /\ UNCHANGED <<process, counters, sock, held, pending, stores,
                   paired, forgotten, mishaps>>

-----------------------------------------------------------------------------
(* What the process, its timers and its database do of themselves. *)
Advance(c) ==
    \/ BootSaves(c) \/ Load(c) \/ Restore(c)
    \/ ReadAuthState(c) \/ MakeSocket(c)
    \/ ReconnectAtOnce(c) \/ LoggedOut(c) \/ Dropped(c) \/ DroppedTooOften(c)
    \/ TimerFires(c)
    \/ ResetClears(c) \/ ResetConnects(c)

Persist ==
    \/ \E c \in Lines : Greeted(c)
    \/ \E w \in storing : StoreCreds(w)
    \/ \E w \in saving : SaveCredentials(w)

(* What WhatsApp, the phone, the page's user, Docker and the database do. *)
Disturbance(c) ==
    \/ Pair(c) \/ CredsUpdate(c) \/ Established(c)
    \/ ClosedForShutdown(c) \/ \E reason \in Reasons : Closed(c, reason)
    \/ LoadGarbled(c) \/ Reset(c) \/ ResetFails(c)

Next ==
    \/ \E c \in Lines : Boot(c) \/ Advance(c) \/ Disturbance(c)
    \/ Persist \/ PeriodicPersist \/ \E w \in saving : SaveFails(w)
    \/ Crash \/ Terminate \/ Exit \/ LoseDisk

Spec == Init /\ [][Next]_vars
-----------------------------------------------------------------------------
(* Fairness: Docker starts the container again (restart: unless-stopped), an
   exit follows its 300 ms, timers fire, queries return and pending handlers
   run.  Nothing is assumed of WhatsApp, the phone or the users.             *)
Fairness ==
    /\ WF_vars(\E c \in Lines : Boot(c))
    /\ WF_vars(Exit)
    /\ WF_vars(PeriodicPersist)
    /\ \A c \in Lines :
         /\ WF_vars(Advance(c)) /\ WF_vars(Greeted(c))
         /\ \A creds \in Creds : WF_vars(StoreCreds(<<c, creds>>))
    /\ \A w \in {"event", "timer"} \X Creds : WF_vars(SaveCredentials(w))

FairSpec == Spec /\ Fairness
-----------------------------------------------------------------------------
TypeOK ==
    /\ up \in BOOLEAN /\ shuttingDown \in BOOLEAN
    /\ reconnectAttempts \in 0..MaxAttempts
    /\ consecutiveLogouts \in Nat /\ tries \in Nat
    /\ sock \in Lines \cup {NoLine}
    /\ line \in [Lines -> Stages]
    /\ held \in [Lines -> Creds]
    /\ greeting \subseteq Lines
    /\ storing \subseteq Lines \X Creds
    /\ saving \subseteq {"event", "timer"} \X Creds
    /\ disk \in Creds /\ db \in Creds
    /\ paired \in 0..MaxPairings /\ forgotten \in 0..MaxPairings
    /\ mishaps \subseteq {"line", "write", "key"}
    /\ resetFailed \in BOOLEAN
    /\ faults \in 0..MaxFaults
    /\ ~up => /\ Busy = {} /\ sock = NoLine /\ ~shuttingDown /\ ~resetFailed
              /\ greeting = {} /\ storing = {} /\ saving = {}

(* The bridge is never stranded: with nothing under way, neither a socket nor
   a timer nor a handler, it has given up on logouts, or a reset failed.  Every
   path of the close handler and of start-up must hand on to the next one.    *)
MayStop == consecutiveLogouts > MaxLogouts \/ resetFailed

NeverStranded == up /\ ~shuttingDown /\ Busy = {} => MayStop

(* One chain at a time: a second one can only come from a reset that did not
   stop the first, or that ran while the first had no socket to end.          *)
OneLine == "line" \notin mishaps => Cardinality(Busy) <= 1

(* What a reset forgot stays forgotten, on disk, in Postgres and on the wire,
   through crashes and restarts, unless the reset overtook a line or a write
   that was under way.                                                        *)
Forgotten ==
    mishaps \cap {"line", "write"} = {} =>
        /\ disk \notin 1..forgotten /\ db \notin 1..forgotten
        /\ \A c \in Lines : line[c] \in {"fetching"} \cup Wire =>
             held[c] \notin 1..forgotten

(* The two counters reset each other, yet between two openings (or resets or
   restarts) the bridge sets a bounded number of reconnect timers.            *)
RetriesBounded == tries <= MaxAttempts * (MaxLogouts + 1) + MaxLogouts

(* An account that is stored, on disk or in Postgres, is lost only through a
   reset, with the disk that alone held it, or by a mishap: a line or a write
   that a reset did not stop, or credentials that do not decrypt.  Crashes,
   restarts and shutdowns at any point, restores, periodic backups, late
   writes of older states and a disk lost after Postgres had the account do
   not lose it.  A reset is over when the bridge connects again; one that
   failed has emptied the disk and is not over as long as the process lives: a
   greeting still under way then backs up the emptied disk.                   *)
Stored(g) == g \in {disk, db}

DiskLost == ~up /\ ~up' /\ disk # Empty /\ disk' = Empty /\ db' = db

KeptStep ==
    \A g \in Accounts : Stored(g) /\ ~Stored(g)' =>
        \/ DiskLost
        \/ resetFailed
        \/ \E c \in Lines : "clearing" \in {line[c], line'[c]}

KeptUntilReset == [][mishaps' = {} => KeptStep]_vars

(* The backup catches up: when an account stays on disk in a process that
   runs on, Postgres gets and keeps it, late and reordered saves or not, and
   also after the bridge gave up.                                             *)
BackupConverges ==
    \A g \in Accounts :
        <>[](up /\ sock # NoLine /\ disk = g) => <>[](db = g)

(* The bridge gets a socket on the wire again and again, or stops for good
   because it may: no close, exit or restart ends in a wait nothing ends.     *)
KeepsTrying == []<>(Live # {}) \/ <>[](up /\ Busy = {} /\ MayStop)
=============================================================================

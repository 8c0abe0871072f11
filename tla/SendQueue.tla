----------------------------- MODULE SendQueue ------------------------------
(***************************************************************************)
(* The WhatsApp bridge's messages: the serial, rate-limited SendQueue that *)
(* all sends go through, the handler of messages.upsert that logs and      *)
(* answers what comes in, and the ids by which it tells the bridge's own   *)
(* messages from those a person typed.                                     *)
(*                                                                         *)
(* drain() is a chain, of which there should be one.  A send is a task,    *)
(* named as its message's id.  An upsert event is a batch of messages with *)
(* a handler of its own; handlers run beside each other and beside the     *)
(* HTTP requests.  Delays, typing indicators, labels, the cache for        *)
(* retries and the history backfill are left out: nothing waits on their   *)
(* results.                                                                *)
(***************************************************************************)
EXTENDS Integers, FiniteSets, SequencesExt

CONSTANTS
    Tasks,        \* sends, by message id
    Asks,         \* messages that may be answered
    Others,       \* messages that are only logged: standby, not allowed, typed
    Chains,       \* bounds the chains of drain()
    Handlers,     \* bounds the upsert events handled at a time
    NoTask,
    Interval,     \* minSendIntervalMs, in ticks
    MaxTracked,   \* MAX_TRACKED_SENT_IDS
    MaxFaults     \* bound on resets of the session

ASSUME BoundsAssumption == Interval \in Nat /\ MaxTracked \in Nat \ {0} /\ MaxFaults \in Nat
ASSUME NamesAssumption ==
    /\ NoTask \notin Tasks
    /\ Tasks \cap Asks = {} /\ Tasks \cap Others = {} /\ Asks \cap Others = {}

VARIABLES
    connected,   \* sock is not null
    queue,
    running,
    chain,       \* what each chain does, and with which task
    gap,         \* ticks since lastSendAt, up to Interval
    send,        \* what became of each send
    wired,       \* messages WhatsApp has
    tracked,     \* sentMessageIds, oldest first
    arrived,     \* messages that came in an event
    handler,     \* batch and stage of each event's handler
    logged,      \* messages the agent logged
    tried,       \* history: tasks run, in order
    early,       \* history: own messages that came before their send resolved
    faults

sending == <<queue, running, chain, gap, send, wired, tracked, tried>>
inbound == <<arrived, handler, logged, early>>
vars    == <<connected, sending, inbound, faults>>

Messages == Tasks \cup Asks \cup Others
Outcomes == {"resolved", "rejected", "lost"}

Off  == [at |-> "off", task |-> NoTask]
Idle == [at |-> "idle", todo |-> <<>>, task |-> NoTask]

Disturb == faults < MaxFaults /\ faults' = faults + 1

Init ==
    /\ connected = FALSE
    /\ queue = <<>> /\ running = FALSE
    /\ chain = [c \in Chains |-> Off]
    /\ gap = Interval
    /\ send = [t \in Tasks |-> "unused"]
    /\ wired = {} /\ tracked = <<>>
    /\ arrived = {} /\ handler = [h \in Handlers |-> Idle]
    /\ logged = {}
    /\ tried = <<>> /\ early = {} /\ faults = 0

-----------------------------------------------------------------------------
(* sock, as the session sets it.  A connection that closes leaves it: what is
   sent on the old socket is rejected, until connect() replaces it.          *)
Connect ==
    /\ ~connected
    /\ connected' = TRUE
    /\ UNCHANGED <<sending, inbound, faults>>

(* Only resetSession sets it to null. *)
ResetSession ==
    /\ connected
    /\ Disturb
    /\ connected' = FALSE
    /\ UNCHANGED <<sending, inbound>>

-----------------------------------------------------------------------------
(* The names are interchangeable: the first that is free is taken. *)
Fresh(t) == t = CHOOSE u \in Tasks : send[u] = "unused"
Started(c) == c = CHOOSE d \in Chains : chain[d] = Off
Caught(h) == h = CHOOSE k \in Handlers : handler[k] = Idle

(* Mutated: a drain is started for every task. *)
EnqueueAndDrain(t) ==
    /\ send[t] = "unused" /\ Fresh(t)
    /\ send' = [send EXCEPT ![t] = "queued"]
    /\ queue' = Append(queue, t)
    /\ running' = TRUE
    /\ \E c \in Chains :
          /\ chain[c] = Off /\ Started(c)
          /\ chain' = [chain EXCEPT ![c].at = "next"]

(* Mutated: the newest task is the next. *)
EnqueueFirst(t) ==
    /\ send[t] = "unused" /\ Fresh(t)
    /\ send' = [send EXCEPT ![t] = "queued"]
    /\ queue' = <<t>> \o queue
    /\ running' = TRUE
    /\ IF running THEN UNCHANGED chain
       ELSE \E c \in Chains :
            chain[c] = Off /\ Started(c) /\ chain' = [chain EXCEPT ![c].at = "next"]

(* enqueue: the task is pushed, and drain() is called; it returns at once if
   it runs already.                                                         *)
Enqueue(t) ==
    /\ send[t] = "unused" /\ Fresh(t)
    /\ send' = [send EXCEPT ![t] = "queued"]
    /\ queue' = Append(queue, t)
    /\ running' = TRUE
    /\ IF running THEN UNCHANGED chain
       ELSE \E c \in Chains :
            chain[c] = Off /\ Started(c) /\ chain' = [chain EXCEPT ![c].at = "next"]

(* POST /send and /send-document: the request is answered when it settles. *)
HttpSend ==
    /\ \E t \in Tasks : Enqueue(t)
    /\ UNCHANGED <<connected, gap, wired, tracked, tried, inbound, faults>>

Shift(c) ==
    /\ chain[c].at = "next" /\ queue # <<>>
    /\ chain' = [chain EXCEPT ![c] = [at |-> "waiting", task |-> Head(queue)]]
    /\ queue' = Tail(queue)
    /\ UNCHANGED <<connected, running, gap, send, wired, tracked, tried, inbound, faults>>

Drained(c) ==
    /\ chain[c].at = "next" /\ queue = <<>>
    /\ chain' = [chain EXCEPT ![c] = Off]
    /\ running' = FALSE
    /\ UNCHANGED <<connected, queue, gap, send, wired, tracked, tried, inbound, faults>>

Tick ==
    /\ gap < Interval
    /\ gap' = gap + 1
    /\ UNCHANGED <<connected, queue, running, chain, send, wired, tracked, tried,
                   inbound, faults>>

(* The interval is over: the task runs up to sendMessage. *)
RunTask(c) ==
    /\ chain[c].at = "waiting" /\ gap = Interval
    /\ connected
    /\ chain' = [chain EXCEPT ![c].at = "sending"]
    /\ tried' = Append(tried, chain[c].task)
    /\ UNCHANGED <<connected, queue, running, gap, send, wired, tracked, inbound, faults>>

(* WhatsApp has the message. *)
Wire(c) ==
    /\ chain[c].at = "sending"
    /\ chain[c].task \notin wired
    /\ wired' = wired \cup {chain[c].task}
    /\ UNCHANGED <<connected, queue, running, chain, gap, send, tracked, tried,
                   inbound, faults>>

(* Mutated: the cap is met one id too early. *)
RememberedBriefly(t) == IF Len(tracked) < MaxTracked - 1 THEN Append(tracked, t)
                        ELSE Append(Tail(tracked), t)

(* Mutated: the ids are not capped. *)
RememberedForEver(t) == Append(tracked, t)

(* rememberSentId: the oldest id goes when there are too many. *)
Remembered(t) == IF Len(tracked) < MaxTracked THEN Append(tracked, t)
                 ELSE Append(Tail(tracked), t)

(* The chain's task is over, one way or the other, and the loop goes on. *)
Settle(c, outcome) ==
    /\ send' = [send EXCEPT ![chain[c].task] = outcome]
    /\ gap' = 0
    /\ chain' = [chain EXCEPT ![c] = [at |-> "next", task |-> NoTask]]

(* There is no socket, before the first connect() or between a reset and the
   next: the task throws before its try, the drain goes on, and the promise is
   neither resolved nor rejected.                                            *)
RunWithoutSocket(c) ==
    /\ chain[c].at = "waiting" /\ gap = Interval
    /\ ~connected
    /\ tried' = Append(tried, chain[c].task)
    /\ Settle(c, "lost")
    /\ UNCHANGED <<connected, queue, running, wired, tracked, inbound, faults>>

SendReturns(c) ==
    /\ chain[c].at = "sending"
    /\ chain[c].task \in wired
    /\ tracked' = Remembered(chain[c].task)
    /\ Settle(c, "resolved")
    /\ UNCHANGED <<connected, queue, running, wired, tried, inbound, faults>>

(* Mutated: an error ends the drain. *)
SendThrows(c) ==
    /\ chain[c].at = "sending"
    /\ send' = [send EXCEPT ![chain[c].task] = "rejected"]
    /\ chain' = [chain EXCEPT ![c] = Off]
    /\ UNCHANGED <<connected, queue, running, gap, wired, tracked, tried, inbound, faults>>

(* The socket has closed, or closes under the send, or WhatsApp does not
   answer: the promise is rejected, whether the message went out or not, and the drain goes on.  *)
SendRejects(c) ==
    /\ chain[c].at = "sending"
    /\ Settle(c, "rejected")
    /\ UNCHANGED <<connected, queue, running, wired, tracked, tried, inbound, faults>>

-----------------------------------------------------------------------------
(* messages.upsert. *)

Own(m) == m \in Tasks

Batches ==
    LET come == (Asks \cup Others \cup wired) \ arrived IN
    {<<m>> : m \in come} \cup {<<m, n>> : m, n \in come}

Arrive(h) ==
    /\ handler[h] = Idle /\ Caught(h)
    /\ \E batch \in Batches :
          /\ IsInjective(batch)
          /\ handler' = [handler EXCEPT ![h] = [Idle EXCEPT !.at = "next", !.todo = batch]]
          /\ arrived' = arrived \cup Range(batch)
          /\ early' = early \cup {t \in Range(batch) : Own(t) /\ send[t] # "resolved"}
    /\ UNCHANGED <<connected, sending, logged, faults>>

ToNext(h) ==
    handler' = [handler EXCEPT ![h] = [Idle EXCEPT !.at = "next", !.todo = Tail(handler[h].todo)]]

Looks(h, m) == handler[h].at = "next" /\ handler[h].todo # <<>> /\ m = Head(handler[h].todo)

(* The message is the bridge's own: its id has done its service. *)
IsEcho(m) == m \in Range(tracked)

SkipEcho(h) ==
    \E t \in Tasks :
        /\ Looks(h, t) /\ IsEcho(t)
        /\ \E i \in DOMAIN tracked : tracked[i] = t /\ tracked' = RemoveAt(tracked, i)
        /\ ToNext(h)
        /\ UNCHANGED <<connected, queue, running, chain, gap, send, wired, tried,
                       arrived, logged, early, faults>>

(* relayToAgent: the handler waits for the agent. *)
Relay(h) ==
    /\ \E m \in Messages : Looks(h, m) /\ ~IsEcho(m)
    /\ handler' = [handler EXCEPT ![h].at = "relaying"]
    /\ UNCHANGED <<connected, sending, arrived, logged, early, faults>>

(* The agent logs the message, and may have a reply for one it may answer: the
   handler sends it and waits until it settles.                              *)
Logged(h) ==
    /\ handler[h].at = "relaying"
    /\ logged' = logged \cup {Head(handler[h].todo)}
    /\ UNCHANGED <<connected, wired, tracked, tried, gap, arrived, early, faults>>

NoReply(h) ==
    /\ Logged(h)
    /\ ToNext(h)
    /\ UNCHANGED <<queue, running, chain, send>>

Reply(h) ==
    /\ Logged(h)
    /\ Head(handler[h].todo) \in Asks
    /\ \E t \in Tasks :
          /\ Enqueue(t)
          /\ handler' = [handler EXCEPT ![h].at = "replying", ![h].task = t]

(* The agent cannot be reached, or not in time: caught. *)
RelayFails(h) ==
    /\ handler[h].at = "relaying"
    /\ ToNext(h)
    /\ UNCHANGED <<connected, sending, arrived, logged, early, faults>>

(* await sendText: a send that is lost never settles. *)
Replied(h) ==
    /\ handler[h].at = "replying"
    /\ send[handler[h].task] \in {"resolved", "rejected"}
    /\ ToNext(h)
    /\ UNCHANGED <<connected, sending, arrived, logged, early, faults>>

BatchDone(h) ==
    /\ handler[h].at = "next" /\ handler[h].todo = <<>>
    /\ handler' = [handler EXCEPT ![h] = Idle]
    /\ UNCHANGED <<connected, sending, arrived, logged, early, faults>>

-----------------------------------------------------------------------------
Drain(c) == Shift(c) \/ Drained(c) \/ RunTask(c) \/ RunWithoutSocket(c) \/ Wire(c)

Answered(c) == SendReturns(c) \/ SendRejects(c)

Told(h) == NoReply(h) \/ Reply(h) \/ RelayFails(h)

Handle(h) == SkipEcho(h) \/ Relay(h) \/ Told(h) \/ Replied(h) \/ BatchDone(h)

Next ==
    \/ Connect \/ ResetSession \/ HttpSend \/ Tick
    \/ \E c \in Chains : Drain(c) \/ Answered(c)
    \/ \E h \in Handlers : Arrive(h) \/ Handle(h)

Spec == Init /\ [][Next]_vars

(* The event loop runs what is ready, time passes, and WhatsApp and the agent
   answer or the call fails; nothing says that a socket is made again.       *)
Fairness ==
    /\ WF_vars(Tick)
    /\ \A c \in Chains : WF_vars(Drain(c)) /\ WF_vars(Answered(c))
    /\ \A h \in Handlers : WF_vars(Handle(h))

FairSpec == Spec /\ Fairness

-----------------------------------------------------------------------------
Stages == {"next", "relaying", "replying"}

(* The variables have their types: the queue and the tracked ids repeat none,
   and a task is in the queue exactly while it is queued and not in a chain. *)
TypeOK ==
    /\ connected \in BOOLEAN /\ running \in BOOLEAN
    /\ queue \in Seq(Tasks) /\ IsInjective(queue)
    /\ \A c \in Chains :
          \/ chain[c] \in [at : {"off", "next"}, task : {NoTask}]
          \/ chain[c] \in [at : {"waiting", "sending"}, task : Tasks]
    /\ gap \in 0..Interval
    /\ send \in [Tasks -> {"unused", "queued"} \cup Outcomes]
    /\ wired \subseteq Tasks
    /\ tracked \in Seq(Tasks) /\ IsInjective(tracked) /\ Len(tracked) <= MaxTracked
    /\ arrived \subseteq Messages /\ early \subseteq arrived
    /\ \A h \in Handlers :
          \/ handler[h] = Idle
          \/ /\ handler[h].at \in Stages
             /\ handler[h].todo \in Seq(arrived)
             /\ handler[h].task \in (IF handler[h].at = "replying" THEN Tasks ELSE {NoTask})
    /\ logged \subseteq arrived
    /\ tried \in Seq(Tasks)
    /\ faults \in 0..MaxFaults
    /\ {t \in Tasks : send[t] = "queued"} =
          Range(queue) \cup ({chain[c].task : c \in Chains} \ {NoTask})

(* Sends are serial and spaced, as the class's comment promises: whoever asks,
   and however a send ends, the next begins only when none is under way and
   minSendIntervalMs after the end of the last.                              *)
SerialSpaced ==
    [][\A c \in Chains :
          chain'[c].at = "sending" /\ chain[c].at # "sending" =>
              /\ gap = Interval
              /\ \A d \in Chains : chain[d].at # "sending"]_vars

(* The tasks asked for and not tried: the one that waits for the interval and
   the queue.                                                               *)
Waiting ==
    LET held == {c \in Chains : chain[c].at = "waiting"} IN
    (IF held = {} THEN <<>> ELSE <<chain[CHOOSE c \in held : TRUE].task>>) \o queue

Outbox == INSTANCE Outbox WITH waiting <- Waiting, tried <- tried

(* The queue is an Outbox: every send is tried once, in the order asked for,
   and none is passed over, although the socket goes and sends fail.         *)
InOrder == Outbox!Spec

RememberedAfter(t) ==
    {u \in Tasks : /\ send[u] = "resolved"
                   /\ \E i, j \in DOMAIN tried : i < j /\ tried[i] = t /\ tried[j] = u}

(* What the bridge sent is logged as typed by a person only if its event came
   before the send returned, or MAX_TRACKED_SENT_IDS were sent after it:
   the ids are kept over batches that wait and over sends that fail.         *)
EchoLoggedOnlyIfEarly ==
    \A t \in Tasks \cap logged :
        t \in early \/ Cardinality(RememberedAfter(t)) >= MaxTracked

(* Nothing waits for ever on a failed send: every send asked for is tried, and
   every event's handler gets through its batch, unless it awaits a send that
   was lost for want of a socket.                                            *)
NothingWaitsForever ==
    /\ \A t \in Tasks : send[t] = "queued" ~> send[t] \in Outcomes
    /\ \A h \in Handlers :
          handler[h].at = "next" ~>
              \/ handler[h] = Idle
              \/ handler[h].at = "replying" /\ send[handler[h].task] = "lost"
=============================================================================

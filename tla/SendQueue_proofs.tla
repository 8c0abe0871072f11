-------------------------- MODULE SendQueue_proofs --------------------------
(* The send queue for any number of sends, chains, handlers and messages, any
   interval and any number of resets: there is one chain, the queue
   is an Outbox, and the bridge recognises the messages it sent.             *)
EXTENDS SendQueue, SequenceTheorems, FiniteSetTheorems, TLAPS

-----------------------------------------------------------------------------
(* What the queue does not share with the handlers of messages.upsert. *)
core == <<queue, running, chain, gap, send, tried>>

Held(c) == chain[c].at \in {"waiting", "sending"}

QueueTypes ==
    /\ queue \in Seq(Tasks) /\ tried \in Seq(Tasks)
    /\ send \in [Tasks -> {"unused", "queued"} \cup Outcomes]
    /\ chain \in [Chains -> [at : {"off", "next", "waiting", "sending"},
                             task : Tasks \cup {NoTask}]]
    /\ \A c \in Chains : Held(c) => chain[c].task \in Tasks

(* A task that is anywhere has been asked for. *)
AllAskedFor ==
    /\ \A i \in DOMAIN queue : send[queue[i]] # "unused"
    /\ \A i \in DOMAIN tried : send[tried[i]] # "unused"
    /\ \A c \in Chains : Held(c) => send[chain[c].task] # "unused"

(* running is the lock of the one chain. *)
OneChain ==
    /\ \A c \in Chains : chain[c].at # "off" => running
    /\ \A c, d \in Chains : chain[c].at # "off" /\ chain[d].at # "off" => c = d

QueueInv == QueueTypes /\ AllAskedFor /\ OneChain

-----------------------------------------------------------------------------
(* The steps of the queue; all others leave it alone. *)
QueueStep ==
    \/ \E t \in Tasks : Enqueue(t) /\ UNCHANGED <<gap, tried>>
    \/ \E c \in Chains :
          \/ Shift(c) \/ Drained(c) \/ RunTask(c) \/ RunWithoutSocket(c)
          \/ SendReturns(c) \/ SendRejects(c)
    \/ Tick
    \/ UNCHANGED core

LEMMA StepCases == [Next]_vars => QueueStep
<1> SUFFICES ASSUME [Next]_vars PROVE QueueStep
  OBVIOUS
<1> USE DEF QueueStep, core, sending, inbound
<1>1. CASE Connect \/ ResetSession \/ UNCHANGED vars
  BY <1>1 DEF Connect, ResetSession, vars
<1>2. CASE HttpSend
  BY <1>2 DEF HttpSend
<1>3. ASSUME NEW c \in Chains, Drain(c) \/ Answered(c) PROVE QueueStep
  BY <1>3 DEF Drain, Answered, Wire
<1>4. ASSUME NEW h \in Handlers, Arrive(h) PROVE QueueStep
  BY <1>4 DEF Arrive
<1>5. ASSUME NEW h \in Handlers, Handle(h) PROVE QueueStep
  <2>1. CASE SkipEcho(h) \/ Relay(h) \/ RelayFails(h) \/ Replied(h) \/ BatchDone(h)
    BY <2>1 DEF SkipEcho, Relay, RelayFails, Replied, BatchDone
  <2>2. CASE NoReply(h) \/ Reply(h)
    BY <2>2 DEF NoReply, Reply, Logged
  <2> QED BY <1>5, <2>1, <2>2 DEF Handle, Told
<1> QED BY <1>1, <1>2, <1>3, <1>4, <1>5 DEF Next

LEMMA EnqueueKeeps ==
    ASSUME QueueInv, NEW t \in Tasks, Enqueue(t), UNCHANGED tried
    PROVE  QueueInv'
<1> USE DEF QueueInv
<1>1. send' = [send EXCEPT ![t] = "queued"] /\ queue' = Append(queue, t) /\ running' = TRUE
  BY DEF Enqueue
<1>2. queue' \in Seq(Tasks) /\ send' \in [Tasks -> {"unused", "queued"} \cup Outcomes]
  BY <1>1 DEF QueueTypes
<1>3. \A i \in DOMAIN queue' : send'[queue'[i]] # "unused"
  BY <1>1 DEF QueueTypes, AllAskedFor
<1>4. \A i \in DOMAIN tried : send'[tried[i]] # "unused"
  BY <1>1 DEF QueueTypes, AllAskedFor
<1>5. CASE running
  <2>1. chain' = chain
    BY <1>5 DEF Enqueue
  <2> QED BY <1>1, <1>2, <1>3, <1>4, <2>1 DEF QueueTypes, AllAskedFor, OneChain, Held
<1>6. CASE ~running
  <2>1. \A c \in Chains : chain[c].at = "off"
    BY <1>6 DEF OneChain
  <2>2. PICK c \in Chains : chain' = [chain EXCEPT ![c].at = "next"]
    BY <1>6 DEF Enqueue
  <2>3. /\ chain' \in [Chains -> [at : {"off", "next", "waiting", "sending"},
                                  task : Tasks \cup {NoTask}]]
        /\ chain'[c].at = "next"
        /\ \A d \in Chains : d # c => chain'[d].at = "off"
    BY <2>1, <2>2 DEF QueueTypes
  <2> QED BY <1>1, <1>2, <1>3, <1>4, <2>3 DEF QueueTypes, AllAskedFor, OneChain, Held
<1> QED BY <1>5, <1>6

(* A step of the chain c that leaves it in a proper stage. *)
LEMMA ChainMoves ==
    ASSUME QueueInv, NEW c \in Chains, chain[c].at # "off",
           NEW k \in [at : {"next", "waiting", "sending"}, task : Tasks \cup {NoTask}],
           k.at # "next" => k.task \in Tasks /\ send[k.task] # "unused",
           chain' = [chain EXCEPT ![c] = k],
           running' = running, queue' \in Seq(Tasks), tried' \in Seq(Tasks),
           \A i \in DOMAIN queue' : send[queue'[i]] # "unused",
           \A i \in DOMAIN tried' : send[tried'[i]] # "unused",
           send' \in [Tasks -> {"unused", "queued"} \cup Outcomes],
           \A t \in Tasks : send[t] # "unused" => send'[t] # "unused"
    PROVE  QueueInv'
<1> USE DEF QueueInv
<1>1. chain \in [Chains -> [at : {"off", "next", "waiting", "sending"},
                            task : Tasks \cup {NoTask}]]
  BY DEF QueueTypes
<1>2. chain'[c] = k /\ \A d \in Chains : d # c => chain'[d] = chain[d]
  BY <1>1
<1>3. QueueTypes'
  BY <1>1, <1>2 DEF QueueTypes, Held
<1>4. \A i \in DOMAIN queue' : queue'[i] \in Tasks
  OBVIOUS
<1>5. \A i \in DOMAIN tried' : tried'[i] \in Tasks
  OBVIOUS
<1>6. AllAskedFor'
  BY <1>2, <1>4, <1>5 DEF AllAskedFor, QueueTypes, Held
<1>7. OneChain'
  BY <1>2 DEF OneChain
<1> QED BY <1>3, <1>6, <1>7

LEMMA QueueInvKept == QueueInv /\ [Next]_vars => QueueInv'
<1> SUFFICES ASSUME QueueInv, QueueStep PROVE QueueInv'
  BY StepCases
<1> USE DEF QueueInv
<1>1. CASE UNCHANGED core \/ Tick
  BY <1>1 DEF core, Tick, QueueTypes, AllAskedFor, OneChain, Held
<1>2. ASSUME NEW t \in Tasks, Enqueue(t), UNCHANGED tried PROVE QueueInv'
  BY <1>2, EnqueueKeeps
<1>3. ASSUME NEW c \in Chains, Shift(c) PROVE QueueInv'
  <2> DEFINE k == [at |-> "waiting", task |-> Head(queue)]
  <2>1. Head(queue) \in Tasks /\ send[Head(queue)] # "unused"
    BY <1>3 DEF Shift, QueueTypes, AllAskedFor
  <2>2. queue' = Tail(queue) /\ queue' \in Seq(Tasks)
        /\ \A i \in DOMAIN queue' : send[queue'[i]] # "unused"
    BY <1>3 DEF Shift, QueueTypes, AllAskedFor
  <2>3. k \in [at : {"next", "waiting", "sending"}, task : Tasks \cup {NoTask}]
    BY <2>1
  <2>4. chain' = [chain EXCEPT ![c] = k] /\ chain[c].at # "off"
        /\ running' = running /\ send' = send /\ tried' = tried
    BY <1>3 DEF Shift
  <2> QED BY <2>1, <2>2, <2>3, <2>4, ChainMoves DEF QueueTypes, AllAskedFor
<1>4. ASSUME NEW c \in Chains, Drained(c) PROVE QueueInv'
  <2>1. UNCHANGED <<queue, send, tried>> /\ chain' = [chain EXCEPT ![c] = Off]
        /\ chain[c].at # "off"
    BY <1>4 DEF Drained
  <2>2. \A d \in Chains : chain'[d].at = "off"
    BY <2>1 DEF Off, OneChain, QueueTypes
  <2>3. chain' \in [Chains -> [at : {"off", "next", "waiting", "sending"},
                               task : Tasks \cup {NoTask}]]
    BY <2>1 DEF Off, QueueTypes
  <2>4. \A d \in Chains : ~Held(d)'
    BY <2>2 DEF Held
  <2>5. QueueTypes' /\ AllAskedFor'
    BY <2>1, <2>3, <2>4 DEF QueueTypes, AllAskedFor
  <2> QED BY <2>2, <2>5 DEF OneChain
<1>5. ASSUME NEW c \in Chains, chain[c].at = "waiting" PROVE
          /\ Append(tried, chain[c].task) \in Seq(Tasks)
          /\ \A i \in DOMAIN Append(tried, chain[c].task) :
                send[Append(tried, chain[c].task)[i]] # "unused"
  BY <1>5 DEF QueueTypes, AllAskedFor, Held
<1>6. ASSUME NEW c \in Chains, RunTask(c) PROVE QueueInv'
  <2> DEFINE k == [chain[c] EXCEPT !.at = "sending"]
  <2>1. chain' = [chain EXCEPT ![c] = k] /\ chain[c].at = "waiting"
    BY <1>6 DEF RunTask, QueueTypes
  <2>2. chain[c] \in [at : {"off", "next", "waiting", "sending"}, task : Tasks \cup {NoTask}]
    BY DEF QueueTypes
  <2>3. /\ k \in [at : {"next", "waiting", "sending"}, task : Tasks \cup {NoTask}]
        /\ k.task = chain[c].task
    BY <2>2
  <2>4. chain[c].task \in Tasks /\ send[chain[c].task] # "unused"
    BY <2>1 DEF QueueTypes, AllAskedFor, Held
  <2>5. UNCHANGED <<queue, running, send>> /\ tried' = Append(tried, chain[c].task)
    BY <1>6 DEF RunTask
  <2> HIDE DEF k
  <2> QED BY <1>5, <2>1, <2>3, <2>4, <2>5, ChainMoves DEF QueueTypes, AllAskedFor
<1>7. ASSUME NEW c \in Chains, Held(c), NEW outcome \in Outcomes, Settle(c, outcome),
             UNCHANGED <<queue, running>>,
             tried' \in Seq(Tasks), \A i \in DOMAIN tried' : send[tried'[i]] # "unused"
      PROVE  QueueInv'
  <2> DEFINE k == [at |-> "next", task |-> NoTask]
  <2>1. chain' = [chain EXCEPT ![c] = k] /\ chain[c].at # "off"
    BY <1>7 DEF Settle, Held
  <2>2. send' \in [Tasks -> {"unused", "queued"} \cup Outcomes]
        /\ \A t \in Tasks : send[t] # "unused" => send'[t] # "unused"
    BY <1>7 DEF Settle, QueueTypes, Outcomes
  <2>3. k \in [at : {"next", "waiting", "sending"}, task : Tasks \cup {NoTask}]
    OBVIOUS
  <2> QED BY <1>7, <2>1, <2>2, <2>3, ChainMoves DEF QueueTypes, AllAskedFor
<1>8. ASSUME NEW c \in Chains, RunWithoutSocket(c) \/ SendReturns(c) \/ SendRejects(c)
      PROVE  QueueInv'
  <2>1. Held(c) /\ UNCHANGED <<queue, running>>
    BY <1>8 DEF RunWithoutSocket, SendReturns, SendRejects, Held
  <2>2. \E outcome \in Outcomes : Settle(c, outcome)
    BY <1>8 DEF RunWithoutSocket, SendReturns, SendRejects, Outcomes
  <2>3. tried' \in Seq(Tasks) /\ \A i \in DOMAIN tried' : send[tried'[i]] # "unused"
    <3>1. CASE RunWithoutSocket(c)
      BY <1>5, <3>1 DEF RunWithoutSocket
    <3>2. CASE SendReturns(c) \/ SendRejects(c)
      BY <3>2 DEF SendReturns, SendRejects, QueueTypes, AllAskedFor
    <3> QED BY <1>8, <3>1, <3>2
  <2> QED BY <1>7, <2>1, <2>2, <2>3
<1> QED BY <1>1, <1>2, <1>3, <1>4, <1>6, <1>8 DEF QueueStep

(* There is one chain of drain(), whoever asks and however a send ends. *)
THEOREM OneChainAlways == Spec => []QueueInv
<1>1. Init => QueueInv
  BY DEF Init, QueueInv, QueueTypes, AllAskedFor, OneChain, Held, Off
<1> QED BY <1>1, QueueInvKept, PTL DEF Spec

(* Sends are serial, and each begins an interval after the end of the last. *)
THEOREM SendsAreSerialSpaced == Spec => SerialSpaced
<1>1. QueueInv /\ [Next]_vars =>
        \A c \in Chains :
            chain'[c].at = "sending" /\ chain[c].at # "sending" =>
                /\ gap = Interval
                /\ \A d \in Chains : chain[d].at # "sending"
  <2> SUFFICES ASSUME QueueInv, QueueStep, NEW c \in Chains,
                      chain'[c].at = "sending", chain[c].at # "sending"
               PROVE  gap = Interval /\ \A d \in Chains : chain[d].at # "sending"
    BY StepCases
  <2> USE DEF QueueInv
  <2>1. chain \in [Chains -> [at : {"off", "next", "waiting", "sending"},
                              task : Tasks \cup {NoTask}]]
    BY DEF QueueTypes
  <2>2. RunTask(c)
    <3>1. ASSUME NEW t \in Tasks, Enqueue(t) PROVE FALSE
      BY <2>1, <3>1 DEF Enqueue
    <3>2. ASSUME NEW d \in Chains, Shift(d) \/ Drained(d) \/ RunWithoutSocket(d)
                                   \/ SendReturns(d) \/ SendRejects(d)
          PROVE  FALSE
      BY <2>1, <3>2 DEF Shift, Drained, RunWithoutSocket, SendReturns, SendRejects, Settle, Off
    <3>3. ASSUME NEW d \in Chains, RunTask(d) PROVE d = c
      BY <2>1, <3>3 DEF RunTask
    <3> QED BY <3>1, <3>2, <3>3 DEF QueueStep, Tick, core
  <2> QED BY <2>2 DEF RunTask, OneChain
<1> QED BY <1>1, OneChainAlways, PTL DEF Spec, SerialSpaced

-----------------------------------------------------------------------------
(* The refinement.  With one chain, what waits is the task it holds, before its
   interval, and the queue.                                                  *)
WaitingShape ==
    /\ \A c \in Chains : chain[c].at = "waiting" => Waiting = <<chain[c].task>> \o queue
    /\ (\A c \in Chains : chain[c].at # "waiting") => Waiting = queue

LEMMA WaitingIs == QueueInv => WaitingShape
<1> SUFFICES ASSUME QueueInv PROVE WaitingShape
  OBVIOUS
<1> DEFINE held == {c \in Chains : chain[c].at = "waiting"}
<1>1. ASSUME NEW c \in Chains, chain[c].at = "waiting"
      PROVE  Waiting = <<chain[c].task>> \o queue
  <2>1. held = {c}
    BY <1>1 DEF QueueInv, OneChain
  <2>2. (CHOOSE d \in held : TRUE) = c
    BY <2>1
  <2> QED BY <2>1, <2>2 DEF Waiting
<1>2. ASSUME \A c \in Chains : chain[c].at # "waiting" PROVE Waiting = queue
  <2>1. held = {}
    BY <1>2
  <2>2. Waiting = <<>> \o queue
    BY <2>1 DEF Waiting
  <2> QED BY <2>2, ConcatEmptySeq DEF QueueInv, QueueTypes
<1> QED BY <1>1, <1>2 DEF WaitingShape

LEMMA WaitingAskedFor ==
    ASSUME QueueInv
    PROVE  Waiting \in Seq(Tasks) /\ \A i \in DOMAIN Waiting : send[Waiting[i]] # "unused"
<1> USE DEF QueueInv
<1>1. CASE \E c \in Chains : chain[c].at = "waiting"
  <2>1. PICK c \in Chains : chain[c].at = "waiting"
    BY <1>1
  <2>2. chain[c].task \in Tasks /\ send[chain[c].task] # "unused" /\ queue \in Seq(Tasks)
    BY <2>1 DEF QueueTypes, AllAskedFor, Held
  <2> DEFINE first == <<chain[c].task>>
  <2>3. first \in Seq(Tasks) /\ Len(first) = 1 /\ first[1] = chain[c].task
    BY <2>2
  <2>4. Waiting = first \o queue
    BY <2>1, WaitingIs DEF WaitingShape
  <2> HIDE DEF first
  <2>5. /\ Waiting \in Seq(Tasks) /\ Len(Waiting) = 1 + Len(queue)
        /\ \A i \in 1..(1 + Len(queue)) :
              Waiting[i] = IF i <= 1 THEN first[i] ELSE queue[i - 1]
    <3>1. /\ first \o queue \in Seq(Tasks) /\ Len(first \o queue) = Len(first) + Len(queue)
          /\ \A i \in 1..(Len(first) + Len(queue)) :
                (first \o queue)[i] = IF i <= Len(first) THEN first[i] ELSE queue[i - Len(first)]
      BY <2>2, <2>3, ConcatProperties
    <3> QED BY <2>3, <2>4, <3>1
  <2>6. ASSUME NEW i \in DOMAIN Waiting PROVE send[Waiting[i]] # "unused"
    <3>1. i \in 1..(1 + Len(queue)) /\ Len(queue) \in Nat
      BY <2>2, <2>5
    <3>2. CASE i = 1
      BY <2>2, <2>3, <2>5, <3>1, <3>2
    <3>3. CASE i # 1
      <4>1. i - 1 \in DOMAIN queue
        BY <2>2, <3>1, <3>3
      <4> QED BY <2>5, <3>1, <3>3, <4>1 DEF AllAskedFor
    <3> QED BY <3>2, <3>3
  <2> QED BY <2>5, <2>6
<1>2. CASE \A c \in Chains : chain[c].at # "waiting"
  BY <1>2, WaitingIs DEF WaitingShape, QueueTypes, AllAskedFor
<1> QED BY <1>1, <1>2

LEMMA StepSends == QueueInv /\ [Next]_vars => [Outbox!Next]_<<Waiting, tried>>
<1> SUFFICES ASSUME QueueInv, QueueStep, QueueInv'
             PROVE  [Outbox!Next]_<<Waiting, tried>>
  BY StepCases, QueueInvKept
<1> USE DEF QueueInv
<1> DEFINE Some == \E c \in Chains : chain[c].at = "waiting"
<1>1. WaitingShape /\ WaitingShape'
  <2>1. QueueInv => WaitingShape
    BY WaitingIs
  <2>2. QueueInv' => WaitingShape'
    BY WaitingIs, PTL
  <2> QED BY <2>1, <2>2
<1>2. chain \in [Chains -> [at : {"off", "next", "waiting", "sending"}, task : Tasks \cup {NoTask}]]
      /\ queue \in Seq(Tasks)
  BY DEF QueueTypes
<1>3. Waiting \in Seq(Tasks)
  BY WaitingAskedFor
<1>4. ASSUME UNCHANGED <<chain, queue>> PROVE Waiting' = Waiting
  <2>1. CASE Some
    <3>1. PICK c \in Chains : chain[c].at = "waiting"
      BY <2>1
    <3>2. Waiting = <<chain[c].task>> \o queue /\ Waiting' = <<chain'[c].task>> \o queue'
      BY <1>1, <1>4, <3>1 DEF WaitingShape
    <3> QED BY <1>4, <3>2
  <2>2. CASE ~Some
    BY <1>1, <1>4, <2>2 DEF WaitingShape
  <2> QED BY <2>1, <2>2
<1>5. CASE UNCHANGED core \/ Tick
  BY <1>4, <1>5 DEF core, Tick
<1>6. ASSUME NEW t \in Tasks, Enqueue(t), UNCHANGED tried PROVE Outbox!Ask(t)
  <2>1. send[t] = "unused" /\ queue' = Append(queue, t)
    BY <1>6 DEF Enqueue
  <2>2. Outbox!New(t) /\ \A i \in DOMAIN tried : tried[i] # t
    BY <2>1, WaitingAskedFor DEF Outbox!New, AllAskedFor
  <2>3. Append(queue, t) = queue \o <<t>> /\ <<t>> \in Seq(Tasks)
    BY <1>2, AppendIsConcat
  <2>4. Append(Waiting, t) = Waiting \o <<t>>
    BY <1>3, AppendIsConcat
  <2>5. Waiting' = Append(Waiting, t)
    <3>1. CASE Some
      <4>1. PICK c \in Chains : chain[c].at = "waiting"
        BY <3>1
      <4>2. chain' = chain
        BY <1>6, <4>1 DEF Enqueue, OneChain
      <4>3. Waiting = <<chain[c].task>> \o queue /\ Waiting' = <<chain[c].task>> \o queue'
        BY <1>1, <4>1, <4>2 DEF WaitingShape
      <4>4. <<chain[c].task>> \in Seq(Tasks)
        BY <4>1 DEF QueueTypes, Held
      <4>5. (<<chain[c].task>> \o queue) \o <<t>> = <<chain[c].task>> \o (queue \o <<t>>)
        BY <1>2, <2>3, <4>4, ConcatAssociative
      <4> QED BY <2>1, <2>3, <2>4, <4>3, <4>5
    <3>2. CASE ~Some
      <4>1. \A c \in Chains : chain'[c].at # "waiting"
        BY <1>2, <1>6, <3>2 DEF Enqueue
      <4>2. Waiting = queue /\ Waiting' = queue'
        BY <1>1, <3>2, <4>1 DEF WaitingShape
      <4> QED BY <2>1, <4>2
    <3> QED BY <3>1, <3>2
  <2> QED BY <1>6, <2>2, <2>5 DEF Outbox!Ask
<1>7. ASSUME NEW c \in Chains, Shift(c) PROVE UNCHANGED <<Waiting, tried>>
  <2>1. chain[c].at = "next" /\ queue # <<>> /\ tried' = tried /\ queue' = Tail(queue)
        /\ chain' = [chain EXCEPT ![c] = [at |-> "waiting", task |-> Head(queue)]]
    BY <1>7 DEF Shift
  <2>2. \A d \in Chains : chain[d].at # "waiting"
    BY <2>1 DEF OneChain
  <2>3. Waiting = queue
    BY <1>1, <2>2 DEF WaitingShape
  <2>4. chain'[c].at = "waiting" /\ chain'[c].task = Head(queue)
    BY <1>2, <2>1
  <2>5. Waiting' = <<Head(queue)>> \o Tail(queue)
    BY <1>1, <2>1, <2>4 DEF WaitingShape
  <2>6. <<Head(queue)>> \o Tail(queue) = queue
    BY <1>2, <2>1
  <2> QED BY <2>1, <2>3, <2>5, <2>6
<1>8. ASSUME NEW c \in Chains, Drained(c) \/ SendReturns(c) \/ SendRejects(c)
      PROVE  UNCHANGED <<Waiting, tried>>
  <2>1. chain[c].at \in {"next", "sending"} /\ UNCHANGED <<queue, tried>>
        /\ chain'[c].at # "waiting"
        /\ \A d \in Chains : d # c => chain'[d] = chain[d]
    BY <1>2, <1>8 DEF Drained, SendReturns, SendRejects, Settle, Off
  <2>2. \A d \in Chains : chain[d].at # "waiting" /\ chain'[d].at # "waiting"
    BY <2>1 DEF OneChain
  <2> QED BY <1>1, <2>1, <2>2 DEF WaitingShape
<1>9. ASSUME NEW c \in Chains, RunTask(c) \/ RunWithoutSocket(c) PROVE Outbox!Try
  <2>1. chain[c].at = "waiting" /\ queue' = queue /\ tried' = Append(tried, chain[c].task)
        /\ chain'[c].at # "waiting"
        /\ \A d \in Chains : d # c => chain'[d] = chain[d]
    BY <1>2, <1>9 DEF RunTask, RunWithoutSocket, Settle
  <2>2. \A d \in Chains : chain'[d].at # "waiting"
    BY <2>1 DEF OneChain
  <2>3. Waiting = <<chain[c].task>> \o queue /\ Waiting' = queue
    BY <1>1, <2>1, <2>2 DEF WaitingShape
  <2>4. chain[c].task \in Tasks
    BY <2>1 DEF QueueTypes, Held
  <2>5. /\ <<chain[c].task>> \o queue # <<>>
        /\ Head(<<chain[c].task>> \o queue) = chain[c].task
        /\ Tail(<<chain[c].task>> \o queue) = queue
    BY <1>2, <2>4
  <2> QED BY <2>1, <2>3, <2>5 DEF Outbox!Try
<1> QED BY <1>5, <1>6, <1>7, <1>8, <1>9 DEF QueueStep, Outbox!Next

(* The refinement: each send is tried once, in the order asked for, over lost
   connections, failed sends and handlers that reply while HTTP requests send. *)
THEOREM SendsInOrder == Spec => InOrder
<1>1. Init => Outbox!Init
  <2> SUFFICES ASSUME Init PROVE Waiting = <<>> /\ tried = <<>>
    BY DEF Outbox!Init
  <2>1. \A c \in Chains : chain[c].at # "waiting"
    BY DEF Init, Off
  <2>2. {c \in Chains : chain[c].at = "waiting"} = {}
    BY <2>1
  <2>3. Waiting = <<>> \o queue
    BY <2>2 DEF Waiting
  <2> QED BY <2>3 DEF Init
<1> QED BY <1>1, OneChainAlways, StepSends, PTL DEF Spec, InOrder, Outbox!Spec

-----------------------------------------------------------------------------
(* Sequences that repeat nothing: a queue, a batch, the tracked ids. *)
LEMMA AppendIt ==
    ASSUME NEW S, NEW s \in Seq(S), NEW x \in S
    PROVE  /\ Append(s, x) \in Seq(S) /\ Len(Append(s, x)) = Len(s) + 1
           /\ \A i \in DOMAIN s : i \in DOMAIN Append(s, x) /\ Append(s, x)[i] = s[i]
           /\ Append(s, x)[Len(s) + 1] = x
           /\ Range(Append(s, x)) = Range(s) \cup {x}
           /\ IsInjective(s) /\ x \notin Range(s) => IsInjective(Append(s, x))
<1> DEFINE a == Append(s, x)
<1>1. /\ a \in Seq(S) /\ Len(a) = Len(s) + 1 /\ DOMAIN a = 1..(Len(s) + 1)
      /\ \A i \in 1..Len(s) : a[i] = s[i]
      /\ a[Len(s) + 1] = x /\ Len(s) \in Nat /\ DOMAIN s = 1..Len(s)
  BY AppendProperties
<1> HIDE DEF a
<1>2. Range(a) = Range(s) \cup {x}
  <2>1. ASSUME NEW y \in Range(a) PROVE y \in Range(s) \cup {x}
    BY <1>1, <2>1 DEF Range
  <2>2. Range(s) \cup {x} \subseteq Range(a)
    BY <1>1 DEF Range
  <2> QED BY <2>1, <2>2
<1>3. ASSUME IsInjective(s), x \notin Range(s) PROVE IsInjective(a)
  BY <1>1, <1>3 DEF IsInjective, Range
<1> QED BY <1>1, <1>2, <1>3 DEF a

LEMMA TailOf ==
    ASSUME NEW S, NEW s \in Seq(S), s # <<>>
    PROVE  /\ Head(s) \in S /\ Head(s) = s[1] /\ Tail(s) \in Seq(S)
           /\ Len(Tail(s)) = Len(s) - 1 /\ Len(s) \in Nat \ {0}
           /\ \A i \in DOMAIN Tail(s) : i + 1 \in DOMAIN s /\ Tail(s)[i] = s[i + 1]
           /\ Range(s) = {Head(s)} \cup Range(Tail(s))
           /\ IsInjective(s) => IsInjective(Tail(s)) /\ Head(s) \notin Range(Tail(s))
<1> DEFINE a == Tail(s)
<1>1. /\ Head(s) \in S /\ Head(s) = s[1] /\ a \in Seq(S) /\ Len(a) = Len(s) - 1
      /\ Len(s) \in Nat \ {0} /\ DOMAIN s = 1..Len(s) /\ DOMAIN a = 1..(Len(s) - 1)
      /\ \A i \in 1..(Len(s) - 1) : a[i] = s[i + 1]
  BY HeadTailProperties
<1> HIDE DEF a
<1>2. Range(s) = {Head(s)} \cup Range(a)
  <2>1. ASSUME NEW i \in DOMAIN s PROVE s[i] \in {Head(s)} \cup Range(a)
    <3>1. CASE i = 1
      BY <1>1, <3>1
    <3>2. CASE i # 1
      <4>1. i - 1 \in DOMAIN a /\ a[i - 1] = s[(i - 1) + 1] /\ (i - 1) + 1 = i
        BY <1>1, <3>2
      <4> QED BY <4>1 DEF Range
    <3> QED BY <3>1, <3>2
  <2>2. \A i \in DOMAIN a : a[i] \in Range(s)
    BY <1>1 DEF Range
  <2> QED BY <1>1, <2>1, <2>2 DEF Range
<1>3. ASSUME IsInjective(s) PROVE IsInjective(a) /\ Head(s) \notin Range(a)
  <2>1. ASSUME NEW i \in DOMAIN a, NEW j \in DOMAIN a, a[i] = a[j] PROVE i = j
    <3>1. i \in Nat /\ j \in Nat /\ i + 1 \in DOMAIN s /\ j + 1 \in DOMAIN s
          /\ s[i + 1] = s[j + 1]
      BY <1>1, <2>1
    <3>2. i + 1 = j + 1
      BY <1>3, <3>1 DEF IsInjective
    <3> QED BY <3>1, <3>2
  <2>2. ASSUME NEW i \in DOMAIN a PROVE a[i] # Head(s)
    <3>1. i \in Nat \ {0} /\ i + 1 \in DOMAIN s /\ 1 \in DOMAIN s /\ a[i] = s[i + 1]
      BY <1>1, <2>2
    <3>2. s[i + 1] # s[1]
      BY <1>3, <3>1 DEF IsInjective
    <3> QED BY <1>1, <3>1, <3>2
  <2> QED BY <2>1, <2>2 DEF IsInjective, Range
<1> QED BY <1>1, <1>2, <1>3 DEF a

LEMMA RemoveOne ==
    ASSUME NEW S, NEW s \in Seq(S), NEW i \in DOMAIN s
    PROVE  /\ RemoveAt(s, i) \in Seq(S) /\ Len(RemoveAt(s, i)) = Len(s) - 1
           /\ \A j \in DOMAIN RemoveAt(s, i) :
                 RemoveAt(s, i)[j] = IF j < i THEN s[j] ELSE s[j + 1]
<1> DEFINE a == SubSeq(s, 1, i - 1)
           b == SubSeq(s, i + 1, Len(s))
<1>1. Len(s) \in Nat /\ i \in 1..Len(s) /\ DOMAIN s = 1..Len(s)
  OBVIOUS
<1>2. a \in Seq(S) /\ Len(a) = i - 1 /\ \A j \in 1..(i - 1) : a[j] = s[j]
  BY <1>1, SubSeqProperties
<1>3. b \in Seq(S) /\ Len(b) = Len(s) - i /\ \A j \in 1..(Len(s) - i) : b[j] = s[j + i]
  BY <1>1, SubSeqProperties
<1> HIDE DEF a, b
<1>4. /\ (a \o b) \in Seq(S) /\ Len(a \o b) = Len(a) + Len(b)
      /\ \A j \in 1..(Len(a) + Len(b)) :
            (a \o b)[j] = IF j <= Len(a) THEN a[j] ELSE b[j - Len(a)]
  BY <1>2, <1>3, ConcatProperties
<1>5. RemoveAt(s, i) = a \o b
  BY DEF RemoveAt, a, b
<1>6. ASSUME NEW j \in DOMAIN RemoveAt(s, i)
      PROVE  RemoveAt(s, i)[j] = IF j < i THEN s[j] ELSE s[j + 1]
  <2>1. j \in 1..(Len(s) - 1)
    BY <1>1, <1>2, <1>3, <1>4, <1>5
  <2>2. CASE j < i
    BY <1>1, <1>2, <1>3, <1>4, <1>5, <2>1, <2>2
  <2>3. CASE ~(j < i)
    <3>1. j - (i - 1) \in 1..(Len(s) - i) /\ (j - (i - 1)) + i = j + 1
      BY <1>1, <2>1, <2>3
    <3>2. b[j - (i - 1)] = s[j + 1]
      BY <1>3, <3>1
    <3> QED BY <1>1, <1>2, <1>3, <1>4, <1>5, <2>1, <2>3, <3>2
  <2> QED BY <2>2, <2>3
<1>7. RemoveAt(s, i) \in Seq(S) /\ Len(RemoveAt(s, i)) = Len(s) - 1
  <2>1. Len(a) + Len(b) = Len(s) - 1
    BY <1>1, <1>2, <1>3
  <2> QED BY <1>4, <1>5, <2>1
<1> QED BY <1>6, <1>7

-----------------------------------------------------------------------------
(* What the messages' invariants need beyond the queue's.  A task that is asked
   for and not over is in one place: once in the queue, or with the chain.   *)
OnePlace ==
    /\ IsInjective(queue)
    /\ \A c \in Chains : Held(c) => chain[c].task \notin Range(queue)
    /\ \A c \in Chains : ~Held(c) => chain[c].task = NoTask
    /\ \A t \in Tasks :
          send[t] = "queued" <=> t \in Range(queue) \/ \E c \in Chains : chain[c].task = t

Simple ==
    /\ connected \in BOOLEAN /\ running \in BOOLEAN /\ gap \in 0..Interval
    /\ faults \in 0..MaxFaults /\ wired \subseteq Tasks

PlaceInv == QueueInv /\ OnePlace /\ Simple

LEMMA AskedForNowhere ==
    ASSUME PlaceInv, NEW t \in Tasks, send[t] = "unused"
    PROVE  t \notin Range(queue) /\ \A c \in Chains : chain[c].task # t
BY DEF PlaceInv, QueueInv, AllAskedFor, OnePlace, Range

LEMMA HeldQueued ==
    ASSUME PlaceInv, NEW c \in Chains, Held(c)
    PROVE  /\ chain[c].task \in Tasks /\ send[chain[c].task] = "queued"
           /\ \A d \in Chains : d # c => chain[d].at = "off" /\ chain[d].task = NoTask
BY DEF PlaceInv, QueueInv, QueueTypes, OneChain, OnePlace, Held

LEMMA ChainTyped ==
    ASSUME QueueInv
    PROVE  /\ chain \in [Chains -> [at : {"off", "next", "waiting", "sending"},
                                    task : Tasks \cup {NoTask}]]
           /\ queue \in Seq(Tasks) /\ tried \in Seq(Tasks) /\ DOMAIN send = Tasks
BY DEF QueueInv, QueueTypes

LEMMA OnePlaceKept == PlaceInv /\ QueueStep => OnePlace'
<1> SUFFICES ASSUME PlaceInv, QueueStep PROVE OnePlace'
  OBVIOUS
<1>0. /\ chain \in [Chains -> [at : {"off", "next", "waiting", "sending"},
                               task : Tasks \cup {NoTask}]]
      /\ queue \in Seq(Tasks) /\ DOMAIN send = Tasks
      /\ \A c \in Chains : Held(c) => chain[c].task \in Tasks
      /\ NoTask \notin Tasks
  BY ChainTyped, NamesAssumption DEF PlaceInv, QueueInv, QueueTypes
<1>1. CASE UNCHANGED core \/ Tick
  BY <1>1 DEF core, Tick, PlaceInv, OnePlace, Held
<1>2. ASSUME NEW t \in Tasks, Enqueue(t) PROVE OnePlace'
  <2>1. send[t] = "unused" /\ send' = [send EXCEPT ![t] = "queued"] /\ queue' = Append(queue, t)
    BY <1>2 DEF Enqueue
  <2>2. t \notin Range(queue) /\ \A c \in Chains : chain[c].task # t
    BY <2>1, AskedForNowhere
  <2>3. \A c \in Chains : chain'[c].task = chain[c].task /\ (Held(c)' <=> Held(c))
    <3>1. CASE UNCHANGED chain
      BY <3>1 DEF Held
    <3>2. CASE \E c \in Chains : chain[c].at = "off" /\ chain' = [chain EXCEPT ![c].at = "next"]
      BY <1>0, <3>2 DEF Held
    <3> QED BY <1>2, <3>1, <3>2 DEF Enqueue, Off
  <2>4. IsInjective(queue') /\ Range(queue') = Range(queue) \cup {t}
    BY <1>0, <2>1, <2>2, AppendIt DEF PlaceInv, OnePlace
  <2>5. ASSUME NEW u \in Tasks
        PROVE  send'[u] = "queued" <=> u \in Range(queue') \/ \E c \in Chains : chain'[c].task = u
    <3>1. send'[u] = "queued" <=> u = t \/ send[u] = "queued"
      BY <1>0, <2>1
    <3> QED BY <2>3, <2>4, <3>1 DEF PlaceInv, OnePlace
  <2>6. \A c \in Chains : Held(c)' => chain'[c].task \notin Range(queue')
    BY <2>2, <2>3, <2>4 DEF PlaceInv, OnePlace
  <2>7. \A c \in Chains : ~Held(c)' => chain'[c].task = NoTask
    BY <2>3 DEF PlaceInv, OnePlace
  <2> QED BY <2>4, <2>5, <2>6, <2>7 DEF OnePlace
<1>3. ASSUME NEW c \in Chains, Shift(c) PROVE OnePlace'
  <2>1. /\ chain[c].at = "next" /\ queue # <<>> /\ queue' = Tail(queue) /\ send' = send
        /\ chain' = [chain EXCEPT ![c] = [at |-> "waiting", task |-> Head(queue)]]
    BY <1>3 DEF Shift
  <2>2. /\ IsInjective(queue') /\ Head(queue) \notin Range(queue')
        /\ Range(queue) = {Head(queue)} \cup Range(queue') /\ Head(queue) \in Tasks
    BY <1>0, <2>1, TailOf DEF PlaceInv, OnePlace
  <2>3. /\ chain'[c].task = Head(queue) /\ chain'[c].at = "waiting" /\ Held(c)'
        /\ \A d \in Chains : d # c => chain'[d] = chain[d]
    BY <1>0, <2>1 DEF Held
  <2>4. \A d \in Chains : ~Held(d) /\ chain[d].task = NoTask
    BY <2>1 DEF PlaceInv, QueueInv, OneChain, OnePlace, Held
  <2>5. \A d \in Chains : d # c => ~Held(d)' /\ chain'[d].task = NoTask
    BY <2>3, <2>4 DEF Held
  <2>6. ASSUME NEW u \in Tasks
        PROVE  send'[u] = "queued" <=> u \in Range(queue') \/ \E d \in Chains : chain'[d].task = u
    <3>1. (\E d \in Chains : chain'[d].task = u) <=> u = Head(queue)
      BY <1>0, <2>3, <2>5
    <3>2. ~\E d \in Chains : chain[d].task = u
      BY <1>0, <2>4
    <3> QED BY <2>1, <2>2, <3>1, <3>2 DEF PlaceInv, OnePlace
  <2>7. \A d \in Chains : Held(d)' => chain'[d].task \notin Range(queue')
    BY <2>2, <2>3, <2>5
  <2>8. \A d \in Chains : ~Held(d)' => chain'[d].task = NoTask
    BY <2>3, <2>5
  <2> QED BY <2>2, <2>6, <2>7, <2>8 DEF OnePlace
<1>4. ASSUME NEW c \in Chains, Drained(c) \/ RunTask(c) PROVE OnePlace'
  <2>1. /\ UNCHANGED <<queue, send>>
        /\ \A d \in Chains : chain'[d].task = chain[d].task /\ (Held(d)' <=> Held(d))
    <3>1. CASE Drained(c)
      BY <1>0, <3>1 DEF Drained, Off, Held, PlaceInv, OnePlace
    <3>2. CASE RunTask(c)
      BY <1>0, <3>2 DEF RunTask, Held
    <3> QED BY <1>4, <3>1, <3>2
  <2>2. \A d \in Chains : Held(d)' => chain'[d].task \notin Range(queue')
    BY <2>1 DEF PlaceInv, OnePlace
  <2>3. \A d \in Chains : ~Held(d)' => chain'[d].task = NoTask
    BY <2>1 DEF PlaceInv, OnePlace
  <2> QED BY <2>1, <2>2, <2>3 DEF PlaceInv, OnePlace
<1>5. ASSUME NEW c \in Chains, RunWithoutSocket(c) \/ SendReturns(c) \/ SendRejects(c)
      PROVE  OnePlace'
  <2> DEFINE t == chain[c].task
  <2>1. Held(c) /\ UNCHANGED queue /\ \E outcome \in Outcomes : Settle(c, outcome)
    BY <1>5 DEF RunWithoutSocket, SendReturns, SendRejects, Held, Outcomes
  <2>2. PICK outcome \in Outcomes : Settle(c, outcome)
    BY <2>1
  <2>3. /\ t \in Tasks /\ send[t] = "queued"
        /\ \A d \in Chains : d # c => chain[d].at = "off" /\ chain[d].task = NoTask
    BY <2>1, HeldQueued
  <2>4. \A d \in Chains : chain'[d].task = NoTask /\ ~Held(d)'
    BY <1>0, <2>2, <2>3 DEF Settle, Held
  <2>5. t \notin Range(queue)
    BY <2>1 DEF PlaceInv, OnePlace
  <2>6. ASSUME NEW u \in Tasks
        PROVE  send'[u] = "queued" <=> u \in Range(queue') \/ \E d \in Chains : chain'[d].task = u
    <3>1. send'[u] = IF u = t THEN outcome ELSE send[u]
      BY <1>0, <2>2 DEF Settle
    <3>2. outcome # "queued"
      BY DEF Outcomes
    <3>3. u # t => ~\E d \in Chains : chain[d].task = u
      BY <1>0, <2>3
    <3>4. ~\E d \in Chains : chain'[d].task = u
      BY <1>0, <2>4
    <3>5. send[u] = "queued" <=> u \in Range(queue) \/ \E d \in Chains : chain[d].task = u
      BY DEF PlaceInv, OnePlace
    <3> QED BY <2>1, <2>5, <3>1, <3>2, <3>3, <3>4, <3>5
  <2> QED BY <2>1, <2>4, <2>6 DEF PlaceInv, OnePlace
<1> QED BY <1>1, <1>2, <1>3, <1>4, <1>5 DEF QueueStep

LEMMA SimpleKept == PlaceInv /\ [Next]_vars => Simple'
<1> SUFFICES ASSUME PlaceInv, [Next]_vars PROVE Simple'
  OBVIOUS
<1> USE BoundsAssumption DEF PlaceInv, Simple, sending, inbound
<1>1. CASE Connect \/ ResetSession \/ HttpSend \/ Tick \/ UNCHANGED vars
  <2>1. CASE Connect \/ UNCHANGED vars
    BY <2>1 DEF Connect, vars
  <2>2. CASE ResetSession
    <3>1. faults' \in 0..MaxFaults
      BY <2>2 DEF ResetSession, Disturb
    <3>2. connected' = FALSE /\ UNCHANGED <<running, gap, wired>>
      BY <2>2 DEF ResetSession
    <3> QED BY <3>1, <3>2
  <2>3. CASE HttpSend
    BY <2>3 DEF HttpSend, Enqueue
  <2>4. CASE Tick
    BY <2>4 DEF Tick
  <2> QED BY <1>1, <2>1, <2>2, <2>3, <2>4
<1>2. ASSUME NEW c \in Chains, Drain(c) PROVE Simple'
  <2>1. CASE Wire(c)
    <3>1. chain[c].task \in Tasks
      BY <2>1 DEF Wire, QueueInv, QueueTypes, Held
    <3>2. wired' \subseteq Tasks /\ UNCHANGED <<connected, running, gap, faults>>
      BY <2>1, <3>1 DEF Wire
    <3> QED BY <3>2
  <2>2. CASE Shift(c) \/ RunTask(c)
    BY <2>2 DEF Shift, RunTask
  <2>3. CASE Drained(c)
    BY <2>3 DEF Drained
  <2>4. CASE RunWithoutSocket(c)
    <3>1. gap' \in 0..Interval /\ UNCHANGED <<connected, running, faults, wired>>
      BY <2>4 DEF RunWithoutSocket, Settle
    <3> QED BY <3>1
  <2> QED BY <1>2, <2>1, <2>2, <2>3, <2>4 DEF Drain
<1>3. ASSUME NEW c \in Chains, Answered(c) PROVE Simple'
  BY <1>3 DEF Answered, SendReturns, SendRejects, Settle
<1>4. ASSUME NEW h \in Handlers, Arrive(h) \/ Handle(h) PROVE Simple'
  BY <1>4 DEF Arrive, Handle, Told, SkipEcho, Relay, NoReply, Reply, Logged, RelayFails,
              Replied, BatchDone, Enqueue
<1> QED BY <1>1, <1>2, <1>3, <1>4 DEF Next

LEMMA PlaceInvKept == PlaceInv /\ [Next]_vars => PlaceInv'
BY QueueInvKept, StepCases, OnePlaceKept, SimpleKept DEF PlaceInv

-----------------------------------------------------------------------------
(* A send that is over stays so, and what is tried is only added to. *)
Grows ==
    /\ \A t \in Tasks : send[t] = "resolved" => send'[t] = "resolved"
    /\ tried' = tried \/ \E x \in Tasks : tried' = Append(tried, x)

LEMMA StepGrows == PlaceInv /\ QueueStep => Grows
<1> SUFFICES ASSUME PlaceInv, QueueStep PROVE Grows
  OBVIOUS
<1>0. chain \in [Chains -> [at : {"off", "next", "waiting", "sending"},
                            task : Tasks \cup {NoTask}]]
      /\ DOMAIN send = Tasks
  BY ChainTyped DEF PlaceInv
<1>1. CASE UNCHANGED core \/ Tick
  BY <1>1 DEF core, Tick, Grows
<1>2. ASSUME NEW t \in Tasks, Enqueue(t), UNCHANGED tried PROVE Grows
  BY <1>0, <1>2 DEF Enqueue, Grows
<1>3. ASSUME NEW c \in Chains, Shift(c) \/ Drained(c) PROVE Grows
  BY <1>3 DEF Shift, Drained, Grows
<1>4. ASSUME NEW c \in Chains, RunTask(c) PROVE Grows
  <2>1. Held(c)
    BY <1>4 DEF RunTask, Held
  <2> QED BY <1>4, <2>1, HeldQueued DEF RunTask, Grows
<1>5. ASSUME NEW c \in Chains, RunWithoutSocket(c) \/ SendReturns(c) \/ SendRejects(c)
      PROVE  Grows
  <2>1. Held(c) /\ \E outcome \in Outcomes : Settle(c, outcome)
    BY <1>5 DEF RunWithoutSocket, SendReturns, SendRejects, Held, Outcomes
  <2>2. chain[c].task \in Tasks /\ send[chain[c].task] = "queued"
    BY <2>1, HeldQueued
  <2>3. \A t \in Tasks : send[t] = "resolved" => send'[t] = "resolved"
    BY <1>0, <2>1, <2>2 DEF Settle
  <2>4. tried' = tried \/ tried' = Append(tried, chain[c].task)
    BY <1>5 DEF RunWithoutSocket, SendReturns, SendRejects
  <2> QED BY <2>2, <2>3, <2>4 DEF Grows
<1> QED BY <1>1, <1>2, <1>3, <1>4, <1>5 DEF QueueStep

(* The ids are kept in the order in which their sends were tried. *)
Before(t, u) == \E p, q \in DOMAIN tried : p < q /\ tried[p] = t /\ tried[q] = u

Kept(s) ==
    /\ s \in Seq(Tasks) /\ IsInjective(s) /\ Len(s) <= MaxTracked
    /\ \A i \in DOMAIN s : send[s[i]] = "resolved"
    /\ \A i, j \in DOMAIN s : i < j => Before(s[i], s[j])

TrackedInOrder == Kept(tracked)

LastTried ==
    /\ \A t \in Tasks : send[t] = "resolved" => t \in Range(tried)
    /\ \A c \in Chains :
          chain[c].at = "sending" => tried # <<>> /\ tried[Len(tried)] = chain[c].task

TrackInv == PlaceInv /\ TrackedInOrder /\ LastTried

LEMMA TriedStays ==
    ASSUME PlaceInv, Grows
    PROVE  /\ DOMAIN tried \subseteq DOMAIN tried'
           /\ \A i \in DOMAIN tried : tried'[i] = tried[i]
<1>1. tried \in Seq(Tasks)
  BY ChainTyped DEF PlaceInv
<1>2. CASE tried' = tried
  BY <1>2
<1>3. ASSUME NEW x \in Tasks, tried' = Append(tried, x)
      PROVE  DOMAIN tried \subseteq DOMAIN tried' /\ \A i \in DOMAIN tried : tried'[i] = tried[i]
  BY <1>1, <1>3, AppendIt
<1> QED BY <1>2, <1>3 DEF Grows

LEMMA BeforeStays ==
    ASSUME PlaceInv, Grows, NEW t \in Tasks, NEW u \in Tasks, Before(t, u)
    PROVE  Before(t, u)'
<1>1. PICK p \in DOMAIN tried, q \in DOMAIN tried : p < q /\ tried[p] = t /\ tried[q] = u
  BY DEF Before
<1>2. p \in DOMAIN tried' /\ q \in DOMAIN tried' /\ tried'[p] = t /\ tried'[q] = u
  BY <1>1, TriedStays
<1> QED BY <1>1, <1>2 DEF Before

LEMMA LastTriedKept ==
    ASSUME TrackInv, QueueStep, PlaceInv'
    PROVE  LastTried'
<1>0. /\ chain \in [Chains -> [at : {"off", "next", "waiting", "sending"},
                               task : Tasks \cup {NoTask}]]
      /\ tried \in Seq(Tasks) /\ DOMAIN send = Tasks /\ PlaceInv /\ Grows
  BY ChainTyped, StepGrows DEF TrackInv, PlaceInv
<1>1. \A t \in Tasks : t \in Range(tried) => t \in Range(tried')
  BY <1>0, TriedStays DEF Range
<1>2. ASSUME UNCHANGED <<tried, chain>>, \A t \in Tasks : send'[t] = "resolved" => send[t] = "resolved"
      PROVE  LastTried'
  BY <1>2 DEF TrackInv, LastTried
<1>3. CASE UNCHANGED core \/ Tick
  BY <1>2, <1>3 DEF core, Tick
<1>4. ASSUME NEW t \in Tasks, Enqueue(t), UNCHANGED tried PROVE LastTried'
  <2>1. \A u \in Tasks : send'[u] = "resolved" => send[u] = "resolved"
    BY <1>0, <1>4 DEF Enqueue
  <2>2. \A c \in Chains : chain'[c].at = "sending" => chain'[c] = chain[c]
    BY <1>0, <1>4 DEF Enqueue
  <2> QED BY <1>4, <2>1, <2>2 DEF TrackInv, LastTried
<1>5. ASSUME NEW c \in Chains, Shift(c) \/ Drained(c) PROVE LastTried'
  <2>1. UNCHANGED <<send, tried>>
        /\ \A d \in Chains : chain'[d].at = "sending" => chain'[d] = chain[d]
    BY <1>0, <1>5 DEF Shift, Drained, Off
  <2> QED BY <2>1 DEF TrackInv, LastTried
<1>6. ASSUME NEW c \in Chains, RunTask(c) PROVE LastTried'
  <2>1. Held(c) /\ send' = send /\ tried' = Append(tried, chain[c].task)
        /\ chain' = [chain EXCEPT ![c].at = "sending"]
    BY <1>6 DEF RunTask, Held
  <2>2. chain[c].task \in Tasks /\ \A d \in Chains : d # c => chain[d].at = "off"
    BY <1>0, <2>1, HeldQueued
  <2>3. \A d \in Chains : chain'[d].at = "sending" => d = c /\ chain'[d].task = chain[c].task
    BY <1>0, <2>1, <2>2
  <2>4. tried' # <<>> /\ tried'[Len(tried')] = chain[c].task
    BY <1>0, <2>1, <2>2
  <2> QED BY <1>1, <2>1, <2>3, <2>4 DEF TrackInv, LastTried
<1>7. ASSUME NEW c \in Chains, RunWithoutSocket(c) \/ SendReturns(c) \/ SendRejects(c)
      PROVE  LastTried'
  <2>1. Held(c) /\ chain' = [chain EXCEPT ![c] = [at |-> "next", task |-> NoTask]]
    BY <1>7 DEF RunWithoutSocket, SendReturns, SendRejects, Held, Settle
  <2>2. chain[c].task \in Tasks /\ \A d \in Chains : d # c => chain[d].at = "off"
    BY <1>0, <2>1, HeldQueued
  <2>3. \A d \in Chains : chain'[d].at # "sending"
    BY <1>0, <2>1, <2>2
  <2>4. ASSUME NEW t \in Tasks, send'[t] = "resolved" PROVE t \in Range(tried')
    <3>1. CASE send[t] = "resolved"
      BY <1>1, <3>1 DEF TrackInv, LastTried
    <3>2. CASE send[t] # "resolved"
      <4>1. SendReturns(c) /\ t = chain[c].task
        BY <1>0, <1>7, <2>2, <2>4, <3>2 DEF RunWithoutSocket, SendReturns, SendRejects, Settle
      <4>2. tried # <<>> /\ tried[Len(tried)] = t /\ tried' = tried
        BY <4>1 DEF SendReturns, TrackInv, LastTried
      <4> QED BY <1>0, <4>2 DEF Range
    <3> QED BY <3>1, <3>2
  <2> QED BY <2>3, <2>4 DEF LastTried
<1> QED BY <1>3, <1>4, <1>5, <1>6, <1>7 DEF QueueStep

(* Only a send that returns and an echo that is skipped touch the ids. *)
LEMMA TrackedCases ==
    [Next]_vars => UNCHANGED tracked \/ (\E c \in Chains : SendReturns(c))
                                     \/ \E h \in Handlers : SkipEcho(h)
<1> SUFFICES ASSUME [Next]_vars, ~\E c \in Chains : SendReturns(c), ~\E h \in Handlers : SkipEcho(h)
             PROVE  UNCHANGED tracked
  OBVIOUS
<1> USE DEF sending
<1>1. CASE Connect \/ ResetSession \/ HttpSend \/ Tick \/ UNCHANGED vars
  BY <1>1 DEF Connect, ResetSession, HttpSend, Tick, vars
<1>2. ASSUME NEW c \in Chains, Drain(c) \/ Answered(c) PROVE UNCHANGED tracked
  BY <1>2 DEF Drain, Shift, Drained, RunTask, RunWithoutSocket, Wire, Answered, SendRejects
<1>3. ASSUME NEW h \in Handlers, Arrive(h) \/ Handle(h) PROVE UNCHANGED tracked
  BY <1>3 DEF Arrive, Handle, Told, Relay, NoReply, Reply, Logged, RelayFails, Replied, BatchDone
<1> QED BY <1>1, <1>2, <1>3 DEF Next

LEMMA Thinned ==
    ASSUME NEW s, Kept(s), NEW r \in Seq(Tasks), Len(r) <= Len(s),
           NEW f \in [DOMAIN r -> DOMAIN s],
           \A i \in DOMAIN r : r[i] = s[f[i]],
           \A i, j \in DOMAIN r : i < j => f[i] < f[j]
    PROVE  Kept(r)
<1>1. DOMAIN r = 1..Len(r) /\ Len(r) \in Nat /\ Len(s) \in Nat /\ Len(s) <= MaxTracked
      /\ DOMAIN s = 1..Len(s)
  BY DEF Kept
<1>2. ASSUME NEW i \in DOMAIN r, NEW j \in DOMAIN r, i < j
      PROVE  r[i] # r[j] /\ Before(r[i], r[j])
  <2>1. f[i] \in DOMAIN s /\ f[j] \in DOMAIN s /\ f[i] < f[j]
    BY <1>2
  <2>2. Before(s[f[i]], s[f[j]])
    BY <2>1 DEF Kept
  <2>3. s[f[i]] # s[f[j]]
    BY <1>1, <2>1 DEF Kept, IsInjective
  <2> QED BY <2>2, <2>3
<1>3. ASSUME NEW i \in DOMAIN r, NEW j \in DOMAIN r, r[i] = r[j] PROVE i = j
  <2>1. ~(i < j) /\ ~(j < i) /\ i \in Int /\ j \in Int
    BY <1>1, <1>2, <1>3
  <2> QED BY <2>1
<1>4. \A i \in DOMAIN r : send[r[i]] = "resolved"
  BY DEF Kept
<1>5. Len(r) <= MaxTracked
  BY <1>1, BoundsAssumption
<1> QED BY <1>2, <1>3, <1>4, <1>5 DEF Kept, IsInjective

LEMMA KeptStays ==
    ASSUME PlaceInv, Grows, NEW CONSTANT r, Kept(r)
    PROVE  Kept(r)'
<1>1. \A i \in DOMAIN r : r[i] \in Tasks
  BY DEF Kept
<1>2. \A i, j \in DOMAIN r : i < j => Before(r[i], r[j])'
  BY <1>1, BeforeStays DEF Kept
<1>3. \A i \in DOMAIN r : send'[r[i]] = "resolved"
  BY <1>1 DEF Kept, Grows
<1> QED BY <1>2, <1>3 DEF Kept

(* The id of a send that returns goes behind those that are kept. *)
LEMMA KeptLonger ==
    ASSUME TrackInv, NEW c \in Chains, SendReturns(c), Grows,
           NEW CONSTANT r, Kept(r), Len(r) < MaxTracked,
           NEW CONSTANT t, t = chain[c].task
    PROVE  Kept(Append(r, t))' /\ \A i \in DOMAIN r : Before(r[i], t)'
<1> DEFINE a == Append(r, t)
<1>1. /\ t \in Tasks /\ send[t] = "queued" /\ tried' = tried /\ send'[t] = "resolved"
      /\ tried # <<>> /\ tried[Len(tried)] = t /\ tried \in Seq(Tasks) /\ PlaceInv
  <2>1. Held(c) /\ PlaceInv /\ chain[c].at = "sending" /\ tried' = tried
    BY DEF SendReturns, Held, TrackInv
  <2>2. t \in Tasks /\ send[t] = "queued" /\ DOMAIN send = Tasks /\ tried \in Seq(Tasks)
    BY <2>1, HeldQueued, ChainTyped DEF PlaceInv
  <2>3. send'[t] = "resolved"
    BY <2>2 DEF SendReturns, Settle
  <2> QED BY <2>1, <2>2, <2>3 DEF TrackInv, LastTried
<1>2. r \in Seq(Tasks) /\ IsInjective(r) /\ \A i \in DOMAIN r : send[r[i]] = "resolved"
  BY DEF Kept
<1>3. t \notin Range(r)
  BY <1>1, <1>2 DEF Range
<1>4. /\ a \in Seq(Tasks) /\ Len(a) = Len(r) + 1 /\ IsInjective(a) /\ a[Len(r) + 1] = t
      /\ \A i \in DOMAIN r : a[i] = r[i]
  BY <1>1, <1>2, <1>3, AppendIt
<1>5. DOMAIN r = 1..Len(r) /\ Len(r) \in Nat /\ DOMAIN a = 1..(Len(r) + 1)
  BY <1>2, <1>4
<1> HIDE DEF a
<1>6. ASSUME NEW i \in DOMAIN r PROVE Before(r[i], t)'
  <2>1. r[i] \in Tasks /\ r[i] # t /\ r[i] \in Range(tried)
    BY <1>1, <1>2 DEF TrackInv, LastTried
  <2>2. PICK p \in DOMAIN tried : tried[p] = r[i]
    BY <2>1 DEF Range
  <2>3. Len(tried) \in DOMAIN tried /\ p < Len(tried)
    BY <1>1, <2>1, <2>2
  <2> QED BY <1>1, <2>2, <2>3 DEF Before
<1>7. \A i, j \in DOMAIN r : i < j => Before(r[i], r[j])'
  BY <1>1, KeptStays DEF Kept
<1>8. ASSUME NEW i \in DOMAIN a, NEW j \in DOMAIN a, i < j PROVE Before(a[i], a[j])'
  <2>1. i \in DOMAIN r /\ a[i] = r[i]
    BY <1>4, <1>5, <1>8
  <2>2. CASE j \in DOMAIN r
    BY <1>4, <1>7, <1>8, <2>1, <2>2
  <2>3. CASE j \notin DOMAIN r
    <3>1. a[j] = t
      BY <1>4, <1>5, <2>3
    <3> QED BY <1>6, <2>1, <3>1
  <2> QED BY <2>2, <2>3
<1>9. ASSUME NEW i \in DOMAIN a PROVE send'[a[i]] = "resolved"
  <2>1. CASE i \in DOMAIN r
    BY <1>2, <1>4, <2>1 DEF Grows
  <2>2. CASE i \notin DOMAIN r
    BY <1>1, <1>4, <1>5, <2>2
  <2> QED BY <2>1, <2>2
<1>10. Len(a) <= MaxTracked
  BY <1>4, <1>5, BoundsAssumption
<1> QED BY <1>4, <1>6, <1>8, <1>9, <1>10 DEF Kept, a

LEMMA KeptTail ==
    ASSUME NEW s, Kept(s), s # <<>>
    PROVE  Kept(Tail(s))
<1>1. s \in Seq(Tasks)
  BY DEF Kept
<1>2. /\ Tail(s) \in Seq(Tasks) /\ Len(Tail(s)) = Len(s) - 1 /\ Len(s) \in Nat \ {0}
      /\ \A i \in DOMAIN Tail(s) : i + 1 \in DOMAIN s /\ Tail(s)[i] = s[i + 1]
  BY <1>1, TailOf
<1> DEFINE r == Tail(s)
           f == [i \in DOMAIN r |-> i + 1]
<1>3. DOMAIN r = 1..Len(r) /\ Len(r) \in Nat /\ Len(r) <= Len(s)
  BY <1>2
<1> HIDE DEF r
<1>4. f \in [DOMAIN r -> DOMAIN s] /\ \A i \in DOMAIN r : r[i] = s[f[i]]
  BY <1>2 DEF r
<1>5. \A i, j \in DOMAIN r : i < j => f[i] < f[j]
  BY <1>3
<1> HIDE DEF f
<1>6. Kept(r)
  BY <1>2, <1>3, <1>4, <1>5, Thinned DEF r
<1> QED BY <1>6 DEF r

LEMMA KeptWithout ==
    ASSUME NEW s, Kept(s), NEW k \in DOMAIN s
    PROVE  Kept(RemoveAt(s, k)) /\ Range(s) \subseteq Range(RemoveAt(s, k)) \cup {s[k]}
<1> DEFINE r == RemoveAt(s, k)
           f == [i \in DOMAIN r |-> IF i < k THEN i ELSE i + 1]
<1>1. s \in Seq(Tasks)
  BY DEF Kept
<1>2. /\ r \in Seq(Tasks) /\ Len(r) = Len(s) - 1
      /\ \A i \in DOMAIN r : r[i] = IF i < k THEN s[i] ELSE s[i + 1]
  BY <1>1, RemoveOne
<1> HIDE DEF r
<1>3. /\ DOMAIN r = 1..(Len(s) - 1) /\ DOMAIN s = 1..Len(s) /\ Len(s) \in Nat
      /\ Len(r) <= Len(s) /\ k \in 1..Len(s)
  BY <1>1, <1>2
<1>4. f \in [DOMAIN r -> DOMAIN s] /\ \A i \in DOMAIN r : r[i] = s[f[i]]
  BY <1>2, <1>3
<1>5. \A i, j \in DOMAIN r : i < j => f[i] < f[j]
  BY <1>3
<1> HIDE DEF f
<1>6. Kept(r)
  BY <1>2, <1>3, <1>4, <1>5, Thinned
<1>7. ASSUME NEW i \in DOMAIN s, i # k PROVE s[i] \in Range(r)
  <2>1. CASE i < k
    BY <1>2, <1>3, <1>7, <2>1 DEF Range
  <2>2. CASE ~(i < k)
    <3>1. i - 1 \in DOMAIN r /\ ~(i - 1 < k) /\ (i - 1) + 1 = i
      BY <1>3, <1>7, <2>2
    <3>2. r[i - 1] = s[i]
      BY <1>2, <3>1
    <3> QED BY <3>1, <3>2 DEF Range
  <2> QED BY <2>1, <2>2
<1>8. Range(s) \subseteq Range(r) \cup {s[k]}
  BY <1>7 DEF Range
<1> QED BY <1>6, <1>8 DEF r

LEMMA RangeFinite ==
    ASSUME NEW S, NEW s \in Seq(S)
    PROVE  /\ IsFiniteSet(Range(s))
           /\ IsInjective(s) => Cardinality(Range(s)) = Len(s)
<1>1. DOMAIN s = 1..Len(s) /\ Len(s) \in Nat
  OBVIOUS
<1>2. IsFiniteSet(1..Len(s)) /\ Cardinality(1..Len(s)) = Len(s)
  <2>1. Len(s) \in Int /\ 1 \in Int
    BY <1>1
  <2> QED BY <1>1, <2>1, FS_Interval
<1>3. s \in [1..Len(s) -> Range(s)]
  BY <1>1 DEF Range
<1>4. s \in Surjection(1..Len(s), Range(s))
  BY <1>1, <1>3 DEF Surjection, Range
<1>5. /\ IsFiniteSet(Range(s))
      /\ Cardinality(Range(s)) = Cardinality(1..Len(s)) <=> s \in Injection(1..Len(s), Range(s))
  BY <1>2, <1>4, FS_Surjection
<1>6. IsInjective(s) => s \in Injection(1..Len(s), Range(s))
  BY <1>3 DEF Injection
<1> QED BY <1>2, <1>5, <1>6

-----------------------------------------------------------------------------
(* An id that is awaited is tracked, unless too many came after it. *)
Far(t) == Cardinality(RememberedAfter(t)) >= MaxTracked
Known(t) == t \in Range(tracked) \/ Far(t)

LEMMA FarStays ==
    ASSUME PlaceInv, PlaceInv', Grows, NEW CONSTANT t \in Tasks, Far(t)
    PROVE  Far(t)'
<1>1. tried \in Seq(Tasks) /\ tried' \in Seq(Tasks)
  BY DEF PlaceInv, QueueInv, QueueTypes
<1> DEFINE A == {u \in Tasks : send[u] = "resolved" /\ Before(t, u)}
           B == {u \in Tasks : send'[u] = "resolved" /\ Before(t, u)'}
<1>2. RememberedAfter(t) = A /\ RememberedAfter(t)' = B
  BY DEF RememberedAfter, Before
<1>3. A \subseteq B
  BY BeforeStays DEF Grows
<1>4. IsFiniteSet(B)
  <2>1. B \subseteq Range(tried')
    BY DEF Before, Range
  <2>2. IsFiniteSet(Range(tried'))
    BY <1>1, RangeFinite
  <2> QED BY <2>1, <2>2, FS_Subset
<1> HIDE DEF A, B
<1>5. Cardinality(A) <= Cardinality(B) /\ Cardinality(B) \in Nat /\ IsFiniteSet(A)
  BY <1>3, <1>4, FS_Subset, FS_CardinalityType
<1>6. Cardinality(A) \in Nat
  BY <1>5, FS_CardinalityType
<1>7. Cardinality(A) >= MaxTracked
  BY <1>2 DEF Far
<1>8. Cardinality(B) >= MaxTracked
  BY <1>5, <1>6, <1>7, BoundsAssumption
<1> QED BY <1>2, <1>8 DEF Far

(* The oldest id goes only when MaxTracked newer ones are kept. *)
LEMMA ReturnKnows ==
    ASSUME TrackInv, PlaceInv', NEW c \in Chains, SendReturns(c), Grows,
           NEW CONSTANT t, t = chain[c].task
    PROVE  /\ TrackedInOrder' /\ Known(t)'
           /\ \A u \in Range(tracked) : Known(u)'
<1>0. t = chain[c].task
  OBVIOUS
<1>1. tracked' = Remembered(t) /\ Kept(tracked) /\ PlaceInv /\ tried' \in Seq(Tasks)
  BY <1>0 DEF SendReturns, TrackInv, TrackedInOrder, PlaceInv, QueueInv, QueueTypes
<1>2. t \in Tasks
  <2>1. Held(c) /\ PlaceInv
    BY DEF SendReturns, Held, TrackInv
  <2> QED BY <1>0, <2>1, HeldQueued
<1>3. PICK s : s = tracked
  OBVIOUS
<1>4. s \in Seq(Tasks) /\ Kept(s) /\ Len(s) <= MaxTracked /\ Len(s) \in Nat
  BY <1>1, <1>3 DEF Kept
<1>5. CASE Len(s) < MaxTracked
  <2>1. tracked' = Append(s, t)
    BY <1>1, <1>3, <1>5 DEF Remembered
  <2>2. Kept(Append(s, t))'
    BY <1>0, <1>4, <1>5, KeptLonger
  <2>3. Range(Append(s, t)) = Range(s) \cup {t}
    BY <1>2, <1>4, AppendIt
  <2> QED BY <1>0, <1>3, <2>1, <2>2, <2>3 DEF TrackedInOrder, Known
<1>6. CASE ~(Len(s) < MaxTracked)
  <2>1. Len(s) = MaxTracked /\ s # <<>> /\ MaxTracked \in Nat \ {0}
    BY <1>4, <1>6, BoundsAssumption
  <2>2. PICK r : r = Tail(s)
    OBVIOUS
  <2>3. /\ Kept(r) /\ r \in Seq(Tasks) /\ Len(r) = MaxTracked - 1 /\ s[1] \in Tasks
        /\ \A i \in DOMAIN r : i + 1 \in DOMAIN s /\ r[i] = s[i + 1]
        /\ Range(s) = {s[1]} \cup Range(r)
    BY <1>4, <2>1, <2>2, KeptTail, TailOf
  <2>4. PICK a : a = Append(r, t)
    OBVIOUS
  <2>5. tracked' = a
    BY <1>1, <1>3, <1>6, <2>2, <2>4 DEF Remembered
  <2>6. Kept(a)' /\ \A i \in DOMAIN r : Before(r[i], t)'
    BY <1>0, <2>1, <2>3, <2>4, KeptLonger
  <2>7. Range(a) = Range(r) \cup {t} /\ a \in Seq(Tasks) /\ Len(a) = MaxTracked
    BY <1>2, <2>1, <2>3, <2>4, AppendIt
  <2>8. PICK d : d = s[1]
    OBVIOUS
  <2>9. ASSUME NEW u \in Range(a) PROVE u \in Tasks /\ send'[u] = "resolved" /\ Before(d, u)'
    <3>1. PICK i \in DOMAIN a : u = a[i]
      BY <2>9 DEF Range
    <3>2. u \in Tasks /\ send'[u] = "resolved"
      BY <2>6, <2>7, <3>1 DEF Kept
    <3>3. CASE u \in Range(r)
      <4>1. PICK j \in DOMAIN r : u = r[j]
        BY <3>3 DEF Range
      <4>2. 1 \in DOMAIN s /\ j + 1 \in DOMAIN s /\ 1 < j + 1 /\ u = s[j + 1]
        BY <1>4, <2>1, <2>3, <4>1
      <4>3. Before(d, u)
        BY <1>4, <2>8, <4>2 DEF Kept
      <4> QED BY <1>1, <2>3, <2>8, <3>2, <4>3, BeforeStays
    <3>4. CASE u = t
      <4>1. /\ send[d] = "resolved" /\ send[t] = "queued" /\ tried' = tried
            /\ tried # <<>> /\ tried[Len(tried)] = t /\ tried \in Seq(Tasks)
        <5>1. Held(c) /\ chain[c].at = "sending" /\ tried' = tried
          BY DEF SendReturns, Held
        <5>2. send[t] = "queued"
          BY <1>0, <1>1, <5>1, HeldQueued
        <5>3. send[d] = "resolved"
          <6>1. 1 \in DOMAIN s
            BY <1>4, <2>1
          <6> QED BY <1>4, <2>8, <6>1 DEF Kept
        <5>4. tried \in Seq(Tasks)
          BY <1>1, ChainTyped DEF PlaceInv
        <5>5. tried # <<>> /\ tried[Len(tried)] = t
          BY <1>0, <5>1 DEF TrackInv, LastTried
        <5> QED BY <5>1, <5>2, <5>3, <5>4, <5>5
      <4>2. PICK p \in DOMAIN tried : tried[p] = d
        BY <2>3, <2>8, <4>1 DEF TrackInv, LastTried, Range
      <4>3. Len(tried) \in DOMAIN tried /\ p < Len(tried)
        BY <4>1, <4>2
      <4> QED BY <3>2, <3>4, <4>1, <4>2, <4>3 DEF Before
    <3> QED BY <2>7, <3>2, <3>3, <3>4
  <2>10. Far(d)'
    <3> DEFINE B == RememberedAfter(d)'
    <3>1. Range(a) \subseteq B
      BY <2>9 DEF RememberedAfter, Before
    <3>2. IsFiniteSet(B)
      <4>1. B \subseteq Range(tried')
        BY DEF RememberedAfter, Range
      <4>2. IsFiniteSet(Range(tried'))
        BY <1>1, RangeFinite
      <4> QED BY <4>1, <4>2, FS_Subset
    <3>3. Cardinality(Range(a)) = MaxTracked
      BY <2>6, <2>7, RangeFinite DEF Kept
    <3> HIDE DEF B
    <3>4. Cardinality(Range(a)) <= Cardinality(B) /\ Cardinality(B) \in Nat
      BY <3>1, <3>2, FS_Subset, FS_CardinalityType
    <3>5. Cardinality(B) >= MaxTracked
      BY <2>1, <3>3, <3>4
    <3> QED BY <3>5 DEF B, Far
  <2>11. TrackedInOrder'
    BY <2>5, <2>6 DEF TrackedInOrder
  <2>12. ASSUME NEW u \in Range(s) PROVE Known(u)'
    <3>1. CASE u = d
      BY <2>10, <3>1 DEF Known
    <3>2. CASE u # d
      <4>1. u \in Range(tracked')
        BY <2>3, <2>5, <2>7, <2>8, <2>12, <3>2
      <4> QED BY <4>1 DEF Known
    <3> QED BY <3>1, <3>2
  <2>13. Known(t)'
    BY <2>5, <2>7 DEF Known
  <2> QED BY <1>0, <1>3, <2>11, <2>12, <2>13
<1> QED BY <1>5, <1>6

LEMMA TrackInvKept == TrackInv /\ [Next]_vars => TrackInv'
<1> SUFFICES ASSUME TrackInv, [Next]_vars PROVE TrackInv'
  OBVIOUS
<1>1. PlaceInv /\ PlaceInv' /\ QueueStep /\ Grows
  BY PlaceInvKept, StepCases, StepGrows DEF TrackInv
<1>2. LastTried'
  BY <1>1, LastTriedKept
<1>3. CASE UNCHANGED tracked
  <2>1. PICK s : s = tracked
    OBVIOUS
  <2>2. Kept(s)'
    BY <1>1, <2>1, KeptStays DEF TrackInv, TrackedInOrder
  <2>3. TrackedInOrder'
    BY <1>3, <2>1, <2>2 DEF TrackedInOrder
  <2> QED BY <1>1, <1>2, <2>3 DEF TrackInv
<1>4. ASSUME NEW c \in Chains, SendReturns(c) PROVE TrackInv'
  <2>1. PICK t : t = chain[c].task
    OBVIOUS
  <2> QED BY <1>1, <1>2, <1>4, <2>1, ReturnKnows DEF TrackInv
<1>5. ASSUME NEW h \in Handlers, SkipEcho(h) PROVE TrackInv'
  <2>1. PICK s : s = tracked
    OBVIOUS
  <2>2. PICK i \in DOMAIN s : tracked' = RemoveAt(s, i)
    BY <1>5, <2>1 DEF SkipEcho
  <2>3. PICK r : r = RemoveAt(s, i)
    OBVIOUS
  <2>4. Kept(r)
    BY <2>1, <2>2, <2>3, KeptWithout DEF TrackInv, TrackedInOrder
  <2>5. Kept(r)'
    BY <1>1, <2>4, KeptStays
  <2>6. TrackedInOrder'
    BY <2>2, <2>3, <2>5 DEF TrackedInOrder
  <2> QED BY <1>1, <1>2, <2>6 DEF TrackInv
<1> QED BY <1>3, <1>4, <1>5, TrackedCases

(* What is known stays so but for the echo that is skipped. *)
LEMMA KnownStays ==
    ASSUME TrackInv, [Next]_vars, NEW CONSTANT t \in Tasks, Known(t),
           \A h \in Handlers : ~(SkipEcho(h) /\ Looks(h, t))
    PROVE  Known(t)'
<1>1. PlaceInv /\ PlaceInv' /\ QueueStep /\ Grows
  BY PlaceInvKept, StepCases, StepGrows DEF TrackInv
<1>2. CASE Far(t)
  BY <1>1, <1>2, FarStays DEF Known
<1>3. CASE t \in Range(tracked)
  <2>1. CASE UNCHANGED tracked
    BY <1>3, <2>1 DEF Known
  <2>2. ASSUME NEW c \in Chains, SendReturns(c) PROVE Known(t)'
    <3>1. PICK u : u = chain[c].task
      OBVIOUS
    <3> QED BY <1>1, <1>3, <2>2, <3>1, ReturnKnows
  <2>3. ASSUME NEW h \in Handlers, SkipEcho(h) PROVE Known(t)'
    <3>1. PICK s : s = tracked
      OBVIOUS
    <3>2. PICK u \in Tasks : Looks(h, u) /\ \E i \in DOMAIN s : s[i] = u /\ tracked' = RemoveAt(s, i)
      BY <2>3, <3>1 DEF SkipEcho
    <3>3. PICK i \in DOMAIN s : s[i] = u /\ tracked' = RemoveAt(s, i)
      BY <3>2
    <3>4. u # t
      BY <2>3, <3>2
    <3>5. Range(s) \subseteq Range(RemoveAt(s, i)) \cup {s[i]}
      BY <3>1, KeptWithout DEF TrackInv, TrackedInOrder
    <3>6. t \in Range(tracked')
      BY <1>3, <3>1, <3>3, <3>4, <3>5
    <3> QED BY <3>6 DEF Known
  <2> QED BY <2>1, <2>2, <2>3, TrackedCases
<1> QED BY <1>2, <1>3 DEF Known

-----------------------------------------------------------------------------
(* A message that came in is in one batch at most, and its handler has it while
   it waits.                                                                 *)
Holder(k) ==
    /\ k \in [at : {"idle"} \cup Stages, todo : Seq(arrived), task : Tasks \cup {NoTask}]
    /\ k.at = "idle" => k = Idle
    /\ IsInjective(k.todo)
    /\ k.at = "replying" <=> k.task \in Tasks
    /\ k.at \in {"relaying", "replying"} => k.todo # <<>>

InboundTyped ==
    /\ arrived \subseteq Messages /\ early \subseteq arrived /\ logged \subseteq arrived
    /\ DOMAIN handler = Handlers /\ \A h \in Handlers : Holder(handler[h])
    /\ \A h, k \in Handlers : h # k => Range(handler[h].todo) \cap Range(handler[k].todo) = {}

(* A handler goes on to the reply, to its next message, or to its end. *)
Moves(h, k) ==
    /\ handler' = [handler EXCEPT ![h] = k]
    /\ UNCHANGED <<arrived, early>>
    /\ \/ handler[h].todo # <<>> /\ k.todo = handler[h].todo /\ k.at \in {"relaying", "replying"}
       \/ handler[h].todo # <<>> /\ k.todo = Tail(handler[h].todo) /\ k.at = "next"
       \/ k = Idle
    /\ logged' = logged \/ /\ handler[h].at = "relaying"
                           /\ logged' = logged \cup {Head(handler[h].todo)}

LEMMA NextIs ==
    \A todo : [Idle EXCEPT !.at = "next", !.todo = todo]
                 = [at |-> "next", todo |-> todo, task |-> NoTask]
<1> SUFFICES ASSUME NEW todo
             PROVE  [Idle EXCEPT !.at = "next", !.todo = todo]
                      = [at |-> "next", todo |-> todo, task |-> NoTask]
  OBVIOUS
<1> DEFINE e == <<>>
<1>1. Idle = [at |-> "idle", todo |-> e, task |-> NoTask]
  BY DEF Idle
<1> HIDE DEF e
<1>2. [Idle EXCEPT !.at = "next"] = [at |-> "next", todo |-> e, task |-> NoTask]
  BY <1>1
<1>3. [[at |-> "next", todo |-> e, task |-> NoTask] EXCEPT !.todo = todo]
        = [at |-> "next", todo |-> todo, task |-> NoTask]
  OBVIOUS
<1>4. [Idle EXCEPT !.at = "next", !.todo = todo]
        = [[Idle EXCEPT !.at = "next"] EXCEPT !.todo = todo]
  OBVIOUS
<1> QED BY <1>2, <1>3, <1>4

LEMMA HandleMoves ==
    ASSUME InboundTyped, NEW h \in Handlers, Handle(h)
    PROVE  \E k : Holder(k) /\ Moves(h, k)
<1>1. PICK o : o = handler[h]
  OBVIOUS
<1>2. Holder(o) /\ DOMAIN handler = Handlers
  BY <1>1 DEF InboundTyped
<1>3. /\ o \in [at : {"idle"} \cup Stages, todo : Seq(arrived), task : Tasks \cup {NoTask}]
      /\ IsInjective(o.todo) /\ NoTask \notin Tasks
  BY <1>2, NamesAssumption DEF Holder
<1>4. ASSUME ToNext(h), handler[h].todo # <<>>, arrived' = arrived, early' = early,
             logged' = logged \/ /\ handler[h].at = "relaying"
                                 /\ logged' = logged \cup {Head(handler[h].todo)}
      PROVE  \E k : Holder(k) /\ Moves(h, k)
  <2> DEFINE k == [at |-> "next", todo |-> Tail(o.todo), task |-> NoTask]
  <2>1. o.todo \in Seq(arrived)
    BY <1>3
  <2>2. Tail(o.todo) \in Seq(arrived) /\ IsInjective(Tail(o.todo))
    BY <1>1, <1>3, <1>4, <2>1, TailOf
  <2>3. k \in [at : {"idle"} \cup Stages, todo : Seq(arrived), task : Tasks \cup {NoTask}]
        /\ k.todo = Tail(o.todo) /\ k.at = "next" /\ k.task = NoTask
    BY <2>2 DEF Stages
  <2>4. handler' = [handler EXCEPT ![h] = k]
    <3>1. [Idle EXCEPT !.at = "next", !.todo = Tail(o.todo)] = k
      BY NextIs
    <3> HIDE DEF k
    <3> QED BY <1>1, <1>4, <3>1 DEF ToNext
  <2> HIDE DEF k
  <2>5. Holder(k)
    BY <1>3, <2>2, <2>3 DEF Holder
  <2>6. Moves(h, k)
    BY <1>1, <1>4, <2>3, <2>4 DEF Moves
  <2> QED BY <2>5, <2>6
<1>5. CASE SkipEcho(h)
  <2>1. PICK t \in Tasks : /\ Looks(h, t) /\ ToNext(h)
                           /\ arrived' = arrived /\ early' = early /\ logged' = logged
    BY <1>5 DEF SkipEcho
  <2> QED BY <1>4, <2>1 DEF Looks
<1>6. CASE NoReply(h) \/ RelayFails(h) \/ Replied(h)
  <2>1. /\ handler[h].at \in {"relaying", "replying"} /\ ToNext(h)
        /\ arrived' = arrived /\ early' = early
        /\ logged' = logged \/ /\ handler[h].at = "relaying"
                               /\ logged' = logged \cup {Head(handler[h].todo)}
    <3>1. CASE NoReply(h)
      BY <3>1 DEF NoReply, Logged
    <3>2. CASE RelayFails(h)
      BY <3>2 DEF RelayFails
    <3>3. CASE Replied(h)
      BY <3>3 DEF Replied
    <3> QED BY <1>6, <3>1, <3>2, <3>3
  <2>2. handler[h].todo # <<>>
    BY <1>1, <1>2, <2>1 DEF Holder
  <2> QED BY <1>4, <2>1, <2>2
<1>7. CASE Relay(h)
  <2> DEFINE k == [o EXCEPT !.at = "relaying"]
  <2>1. o.at = "next" /\ o.todo # <<>> /\ UNCHANGED <<arrived, early, logged>>
        /\ handler' = [handler EXCEPT ![h] = k]
    BY <1>1, <1>7 DEF Relay, Looks
  <2>2. o.task \notin Tasks
    BY <1>2, <2>1 DEF Holder
  <2>3. k \in [at : {"idle"} \cup Stages, todo : Seq(arrived), task : Tasks \cup {NoTask}]
        /\ k.at = "relaying" /\ k.todo = o.todo /\ k.task = o.task
    BY <1>3 DEF Stages
  <2> HIDE DEF k
  <2>4. Holder(k)
    BY <1>3, <2>1, <2>2, <2>3 DEF Holder
  <2>5. Moves(h, k)
    BY <1>1, <2>1, <2>3 DEF Moves
  <2> QED BY <2>4, <2>5
<1>8. CASE Reply(h)
  <2>1. PICK t \in Tasks : handler' = [handler EXCEPT ![h].at = "replying", ![h].task = t]
    BY <1>8 DEF Reply
  <2> DEFINE k == [o EXCEPT !.at = "replying", !.task = t]
  <2>2. o.at = "relaying" /\ UNCHANGED <<arrived, early>> /\ logged' = logged \cup {Head(o.todo)}
    BY <1>1, <1>8 DEF Reply, Logged
  <2>3. o.todo # <<>>
    BY <1>2, <2>2 DEF Holder
  <2>4. handler' = [handler EXCEPT ![h] = k]
    BY <1>1, <2>1
  <2>5. k \in [at : {"idle"} \cup Stages, todo : Seq(arrived), task : Tasks \cup {NoTask}]
        /\ k.at = "replying" /\ k.todo = o.todo /\ k.task = t
    BY <1>3 DEF Stages
  <2> HIDE DEF k
  <2>6. Holder(k)
    BY <1>3, <2>3, <2>5 DEF Holder
  <2>7. Moves(h, k)
    BY <1>1, <2>2, <2>3, <2>4, <2>5 DEF Moves
  <2> QED BY <2>6, <2>7
<1>9. CASE BatchDone(h)
  <2>1. Idle \in [at : {"idle"} \cup Stages, todo : Seq(arrived), task : Tasks \cup {NoTask}]
        /\ Idle.at = "idle" /\ Idle.todo = <<>> /\ Idle.task = NoTask
    BY DEF Idle
  <2>2. IsInjective(<<>>)
    BY DEF IsInjective
  <2>3. Holder(Idle)
    BY <1>3, <2>1, <2>2 DEF Holder
  <2>4. Moves(h, Idle)
    BY <1>9 DEF BatchDone, Moves
  <2> QED BY <2>3, <2>4
<1> QED BY <1>5, <1>6, <1>7, <1>8, <1>9 DEF Handle, Told

LEMMA InboundCases ==
    [Next]_vars => UNCHANGED inbound \/ \E h \in Handlers : Arrive(h) \/ Handle(h)
<1> SUFFICES ASSUME [Next]_vars, ~\E h \in Handlers : Arrive(h) \/ Handle(h)
             PROVE  UNCHANGED inbound
  OBVIOUS
<1>1. CASE Connect \/ ResetSession \/ HttpSend \/ Tick \/ UNCHANGED vars
  BY <1>1 DEF Connect, ResetSession, HttpSend, Tick, vars
<1>2. ASSUME NEW c \in Chains, Drain(c) \/ Answered(c) PROVE UNCHANGED inbound
  BY <1>2 DEF Drain, Shift, Drained, RunTask, RunWithoutSocket, Wire, Answered, SendRejects,
              SendReturns
<1> QED BY <1>1, <1>2 DEF Next

(* The messages that come in an event are new. *)
Opens(h, batch) ==
    /\ handler[h] = Idle
    /\ batch \in Seq(Messages) /\ IsInjective(batch)
    /\ Range(batch) \subseteq (Messages \ arrived)
    /\ handler' = [handler EXCEPT ![h] = [at |-> "next", todo |-> batch, task |-> NoTask]]
    /\ arrived' = arrived \cup Range(batch)
    /\ early' = early \cup {t \in Range(batch) : Own(t) /\ send[t] # "resolved"}
    /\ logged' = logged

LEMMA ArriveOpens ==
    ASSUME PlaceInv, NEW h \in Handlers, Arrive(h)
    PROVE  \E batch : Opens(h, batch)
<1> DEFINE come == (Asks \cup Others \cup wired) \ arrived
<1>1. PICK batch \in Batches :
        /\ IsInjective(batch)
        /\ handler' = [handler EXCEPT ![h] = [Idle EXCEPT !.at = "next", !.todo = batch]]
        /\ arrived' = arrived \cup Range(batch)
        /\ early' = early \cup {t \in Range(batch) : Own(t) /\ send[t] # "resolved"}
  BY DEF Arrive
<1>2. come \subseteq (Messages \ arrived)
  BY DEF PlaceInv, Simple, Messages
<1>3. batch \in Seq(Messages) /\ Range(batch) \subseteq come
  <2>1. CASE \E m \in come : batch = <<m>>
    <3>1. PICK m \in come : batch = <<m>>
      BY <2>1
    <3>2. DOMAIN batch = {1} /\ batch[1] = m
      BY <3>1
    <3> QED BY <1>2, <3>1, <3>2 DEF Range
  <2>2. CASE \E m, n \in come : batch = <<m, n>>
    <3>1. PICK m \in come, n \in come : batch = <<m, n>>
      BY <2>2
    <3>2. DOMAIN batch = {1, 2} /\ batch[1] = m /\ batch[2] = n
      BY <3>1
    <3> QED BY <1>2, <3>1, <3>2 DEF Range
  <2> QED BY <1>1, <2>1, <2>2 DEF Batches
<1>4. [Idle EXCEPT !.at = "next", !.todo = batch] = [at |-> "next", todo |-> batch, task |-> NoTask]
  BY NextIs
<1>5. handler[h] = Idle /\ logged' = logged
  BY DEF Arrive
<1> HIDE DEF come
<1>6. Range(batch) \subseteq (Messages \ arrived)
  BY <1>2, <1>3
<1> QED BY <1>1, <1>3, <1>4, <1>5, <1>6 DEF Opens

LEMMA SeqWithin ==
    ASSUME NEW S, NEW s \in Seq(S), NEW T, Range(s) \subseteq T
    PROVE  s \in Seq(T)
<1>1. s \in [1..Len(s) -> S] /\ Len(s) \in Nat /\ DOMAIN s = 1..Len(s)
  OBVIOUS
<1>2. \A i \in 1..Len(s) : s[i] \in T
  BY <1>1 DEF Range
<1>3. s \in [1..Len(s) -> T]
  BY <1>1, <1>2
<1> QED BY <1>1, <1>3, SeqDef

LEMMA HolderStays ==
    ASSUME NEW CONSTANT k, Holder(k), arrived \subseteq arrived'
    PROVE  Holder(k)'
<1>1. k.todo \in Seq(arrived)
  BY DEF Holder
<1>2. Range(k.todo) \subseteq arrived'
  BY <1>1 DEF Range
<1>3. k.todo \in Seq(arrived')
  BY <1>1, <1>2, SeqWithin
<1>4. k \in [at : {"idle"} \cup Stages, todo : Seq(arrived'), task : Tasks \cup {NoTask}]
  BY <1>3 DEF Holder
<1> QED BY <1>4 DEF Holder

(* One handler changes, and what it then has came to it. *)
LEMMA InboundMoves ==
    ASSUME InboundTyped, NEW h \in Handlers, NEW CONSTANT k, Holder(k)',
           handler' = [handler EXCEPT ![h] = k],
           arrived \subseteq arrived', arrived' \subseteq Messages,
           early' \subseteq arrived', logged' \subseteq arrived',
           \A g \in Handlers \ {h} : Range(k.todo) \cap Range(handler[g].todo) = {}
    PROVE  InboundTyped'
<1>1. DOMAIN handler' = Handlers /\ handler'[h] = k
      /\ \A g \in Handlers \ {h} : handler'[g] = handler[g]
  BY DEF InboundTyped
<1>2. ASSUME NEW g \in Handlers \ {h} PROVE Holder(handler[g])'
  <2>1. PICK o : o = handler[g]
    OBVIOUS
  <2>2. Holder(o)
    BY <2>1 DEF InboundTyped
  <2>3. Holder(o)'
    BY <2>2, HolderStays
  <2> QED BY <1>1, <2>1, <2>3
<1>3. \A g \in Handlers : Holder(handler[g])'
  <2>1. Holder(handler[h])'
    BY <1>1
  <2> QED BY <1>2, <2>1
<1>4. \A g, d \in Handlers :
          g # d => Range(handler'[g].todo) \cap Range(handler'[d].todo) = {}
  BY <1>1 DEF InboundTyped
<1> QED BY <1>1, <1>3, <1>4 DEF InboundTyped

LEMMA MovesWithin ==
    ASSUME InboundTyped, NEW h \in Handlers, NEW k, Holder(k), Moves(h, k)
    PROVE  /\ Range(k.todo) \subseteq Range(handler[h].todo)
           /\ Range(handler[h].todo) \subseteq arrived
           /\ logged' \subseteq logged \cup Range(handler[h].todo)
<1>1. handler[h].todo \in Seq(arrived)
  BY DEF InboundTyped, Holder
<1>2. Range(handler[h].todo) \subseteq arrived
  BY <1>1 DEF Range
<1>3. handler[h].todo # <<>> =>
          /\ Range(Tail(handler[h].todo)) \subseteq Range(handler[h].todo)
          /\ Head(handler[h].todo) \in Range(handler[h].todo)
  BY <1>1, TailOf
<1>4. Range(k.todo) \subseteq Range(handler[h].todo)
  <2>1. CASE k = Idle
    <3>1. k.todo = <<>>
      BY <2>1 DEF Idle
    <3>2. Range(k.todo) = {}
      BY <3>1 DEF Range
    <3> QED BY <3>2
  <2> QED BY <1>3, <2>1 DEF Moves
<1>5. logged' \subseteq logged \cup Range(handler[h].todo)
  <2>1. handler[h].at = "relaying" => handler[h].todo # <<>>
    BY DEF InboundTyped, Holder
  <2> QED BY <1>3, <2>1 DEF Moves
<1> QED BY <1>2, <1>4, <1>5

LEMMA InboundKept == PlaceInv /\ InboundTyped /\ [Next]_vars => InboundTyped'
<1> SUFFICES ASSUME PlaceInv, InboundTyped, [Next]_vars PROVE InboundTyped'
  OBVIOUS
<1>1. CASE UNCHANGED inbound
  <2>1. UNCHANGED <<arrived, handler, logged, early>>
    BY <1>1 DEF inbound
  <2> QED BY <2>1 DEF InboundTyped, Holder
<1>2. ASSUME NEW h \in Handlers, Arrive(h) PROVE InboundTyped'
  <2>1. PICK batch : Opens(h, batch)
    BY <1>2, ArriveOpens
  <2> DEFINE k == [at |-> "next", todo |-> batch, task |-> NoTask]
  <2>2. batch \in Seq(arrived') /\ arrived \subseteq arrived' /\ arrived' \subseteq Messages
        /\ Range(batch) \cap arrived = {} /\ IsInjective(batch) /\ Range(batch) \subseteq arrived'
    BY <2>1, SeqWithin DEF Opens, InboundTyped
  <2>3. k \in [at : {"idle"} \cup Stages, todo : Seq(arrived'), task : Tasks \cup {NoTask}]
        /\ k.at = "next" /\ k.todo = batch /\ k.task = NoTask
    BY <2>2 DEF Stages
  <2>4. handler' = [handler EXCEPT ![h] = k] /\ early' \subseteq arrived' /\ logged' \subseteq arrived'
    BY <2>1, <2>2 DEF Opens, InboundTyped
  <2> HIDE DEF k
  <2>5. PICK o : o = k
    OBVIOUS
  <2>6. Holder(o)'
    BY <2>2, <2>3, <2>5, NamesAssumption DEF Holder
  <2>7. ASSUME NEW g \in Handlers PROVE Range(o.todo) \cap Range(handler[g].todo) = {}
    <3>1. handler[g].todo \in Seq(arrived)
      BY DEF InboundTyped, Holder
    <3>2. Range(handler[g].todo) \subseteq arrived
      BY <3>1 DEF Range
    <3> QED BY <2>2, <2>3, <2>5, <3>2
  <2> QED BY <2>2, <2>4, <2>5, <2>6, <2>7, InboundMoves
<1>3. ASSUME NEW h \in Handlers, Handle(h) PROVE InboundTyped'
  <2>1. PICK k : Holder(k) /\ Moves(h, k)
    BY <1>3, HandleMoves
  <2>2. arrived' = arrived /\ early' = early /\ handler' = [handler EXCEPT ![h] = k]
    BY <2>1 DEF Moves
  <2>3. Holder(k)'
    BY <2>1, <2>2, HolderStays
  <2>4. /\ Range(k.todo) \subseteq Range(handler[h].todo)
        /\ logged' \subseteq arrived'
    BY <2>1, <2>2, MovesWithin DEF InboundTyped
  <2>5. \A g \in Handlers \ {h} : Range(k.todo) \cap Range(handler[g].todo) = {}
    BY <2>4 DEF InboundTyped
  <2>6. arrived' \subseteq Messages /\ early' \subseteq arrived'
    BY <2>2 DEF InboundTyped
  <2> QED BY <2>2, <2>3, <2>4, <2>5, <2>6, InboundMoves
<1> QED BY <1>1, <1>2, <1>3, InboundCases

-----------------------------------------------------------------------------
(* What a handler is to find: the id of a send that had returned when the
   message came is known when it is looked up, and was far back when it was not
   found.                                                                    *)
Expect(k, i) ==
    k.todo[i] \in Tasks \ early =>
        /\ send[k.todo[i]] = "resolved"
        /\ IF i = 1 /\ k.at # "next" THEN Far(k.todo[i]) ELSE Known(k.todo[i])

EchoKnown ==
    /\ \A t \in Tasks \ arrived : send[t] = "resolved" => Known(t)
    /\ \A h \in Handlers : \A i \in DOMAIN handler[h].todo : Expect(handler[h], i)

MessageInv == TrackInv /\ InboundTyped /\ EchoKnown /\ EchoLoggedOnlyIfEarly

LEMMA ResolvedByReturn ==
    ASSUME PlaceInv, QueueStep, NEW CONSTANT t \in Tasks,
           send[t] # "resolved", send'[t] = "resolved"
    PROVE  \E c \in Chains : SendReturns(c) /\ t = chain[c].task
<1>0. DOMAIN send = Tasks
  BY ChainTyped DEF PlaceInv
<1>1. ~(UNCHANGED core \/ Tick)
  BY DEF core, Tick
<1>2. ASSUME NEW u \in Tasks, Enqueue(u) PROVE FALSE
  BY <1>0, <1>2 DEF Enqueue
<1>3. ASSUME NEW c \in Chains, Shift(c) \/ Drained(c) \/ RunTask(c) PROVE FALSE
  BY <1>3 DEF Shift, Drained, RunTask
<1>4. ASSUME NEW c \in Chains, RunWithoutSocket(c) \/ SendRejects(c) PROVE FALSE
  BY <1>0, <1>4 DEF RunWithoutSocket, SendRejects, Settle
<1>5. ASSUME NEW c \in Chains, SendReturns(c) PROVE t = chain[c].task
  BY <1>0, <1>5 DEF SendReturns, Settle
<1> QED BY <1>1, <1>2, <1>3, <1>4, <1>5 DEF QueueStep

LEMMA SkipLooks ==
    ASSUME InboundTyped, NEW h \in Handlers, NEW t, Looks(h, t)
    PROVE  /\ t \in arrived /\ handler[h].todo # <<>> /\ t = Head(handler[h].todo)
           /\ t = handler[h].todo[1] /\ t \in Range(handler[h].todo)
<1>1. handler[h].todo \in Seq(arrived) /\ handler[h].todo # <<>> /\ t = Head(handler[h].todo)
  BY DEF InboundTyped, Holder, Looks
<1> QED BY <1>1, TailOf

LEMMA SkipMoves ==
    ASSUME InboundTyped, NEW h \in Handlers, SkipEcho(h)
    PROVE  handler'[h] # handler[h] /\ Len(handler'[h].todo) # Len(handler[h].todo)
<1>1. PICK o : o = handler[h]
  OBVIOUS
<1>2. PICK t : Looks(h, t) /\ ToNext(h)
  BY DEF SkipEcho
<1>3. o.todo \in Seq(arrived) /\ o.todo # <<>> /\ DOMAIN handler = Handlers
  BY <1>1, <1>2 DEF InboundTyped, Holder, Looks
<1>4. handler'[h].todo = Tail(o.todo)
  BY <1>1, <1>2, <1>3 DEF ToNext, Idle
<1>5. Len(Tail(o.todo)) # Len(o.todo)
  BY <1>3, TailOf
<1> QED BY <1>1, <1>4, <1>5

LEMMA ExpectStays ==
    ASSUME TrackInv, [Next]_vars, early \subseteq early',
           NEW CONSTANT k, NEW CONSTANT i, Expect(k, i),
           \A h \in Handlers : ~(SkipEcho(h) /\ Looks(h, k.todo[i]))
    PROVE  Expect(k, i)'
<1>1. PlaceInv /\ PlaceInv' /\ Grows
  BY PlaceInvKept, StepCases, StepGrows DEF TrackInv
<1> SUFFICES ASSUME k.todo[i] \in Tasks, k.todo[i] \notin early'
             PROVE  /\ send'[k.todo[i]] = "resolved"
                    /\ IF i = 1 /\ k.at # "next" THEN Far(k.todo[i])' ELSE Known(k.todo[i])'
  BY DEF Expect
<1>2. PICK t : t = k.todo[i]
  OBVIOUS
<1>3. t \in Tasks /\ send[t] = "resolved"
      /\ IF i = 1 /\ k.at # "next" THEN Far(t) ELSE Known(t)
  BY <1>2 DEF Expect
<1>4. send'[t] = "resolved"
  BY <1>1, <1>3 DEF Grows
<1>5. Far(t) => Far(t)'
  BY <1>1, <1>3, FarStays
<1>6. Known(t) => Known(t)'
  BY <1>2, <1>3, KnownStays
<1> QED BY <1>2, <1>3, <1>4, <1>5, <1>6

LEMMA UnseenKnown ==
    ASSUME MessageInv, [Next]_vars
    PROVE  \A t \in Tasks \ arrived' : send'[t] = "resolved" => Known(t)'
<1> SUFFICES ASSUME NEW CONSTANT t \in Tasks, t \notin arrived', send'[t] = "resolved"
             PROVE  Known(t)'
  OBVIOUS
<1>1. /\ TrackInv /\ InboundTyped /\ PlaceInv /\ PlaceInv' /\ QueueStep /\ Grows
  BY PlaceInvKept, StepCases, StepGrows DEF MessageInv, TrackInv
<1>2. arrived \subseteq arrived'
  <2>1. ASSUME NEW h \in Handlers, Handle(h) PROVE arrived' = arrived
    BY <1>1, <2>1, HandleMoves DEF Moves
  <2> QED BY <2>1, InboundCases DEF inbound, Arrive
<1>3. CASE send[t] = "resolved"
  <2>1. Known(t)
    BY <1>2, <1>3 DEF MessageInv, EchoKnown
  <2>2. \A h \in Handlers : ~Looks(h, t)
    BY <1>1, <1>2, SkipLooks
  <2> QED BY <1>1, <2>1, <2>2, KnownStays
<1>4. CASE send[t] # "resolved"
  <2>1. PICK c \in Chains : SendReturns(c) /\ t = chain[c].task
    BY <1>1, <1>4, ResolvedByReturn
  <2> QED BY <1>1, <2>1, ReturnKnows
<1> QED BY <1>3, <1>4

(* A handler that does not move finds what it was to find. *)
LEMMA OthersExpect ==
    ASSUME MessageInv, [Next]_vars, early \subseteq early',
           NEW h \in Handlers, handler'[h] = handler[h],
           ~SkipEcho(h)
    PROVE  \A i \in DOMAIN handler'[h].todo : Expect(handler[h], i)'
<1> SUFFICES ASSUME NEW CONSTANT i, i \in DOMAIN handler[h].todo
             PROVE  Expect(handler[h], i)'
  OBVIOUS
<1>1. TrackInv /\ InboundTyped
  BY DEF MessageInv
<1>2. PICK k : k = handler[h]
  OBVIOUS
<1>3. Expect(k, i)
  BY <1>2 DEF MessageInv, EchoKnown
<1>4. ASSUME NEW g \in Handlers, SkipEcho(g) PROVE ~Looks(g, k.todo[i])
  <2>1. g # h
    BY <1>4
  <2>2. k.todo[i] \in Range(handler[h].todo)
    BY <1>2 DEF Range
  <2>3. Range(handler[g].todo) \cap Range(handler[h].todo) = {}
    BY <1>1, <2>1 DEF InboundTyped
  <2> QED BY <1>1, <2>2, <2>3, SkipLooks
<1>5. Expect(k, i)'
  BY <1>1, <1>3, <1>4, ExpectStays
<1> QED BY <1>2, <1>5

(* The handler's next message may be the one that is looked up. *)
LEMMA MoverExpects ==
    ASSUME MessageInv, [Next]_vars, NEW h \in Handlers, Handle(h),
           NEW CONSTANT k, Holder(k), Moves(h, k)
    PROVE  \A i \in DOMAIN k.todo : Expect(k, i)'
<1> SUFFICES ASSUME NEW CONSTANT i, i \in DOMAIN k.todo
             PROVE  Expect(k, i)'
  OBVIOUS
<1>1. /\ TrackInv /\ InboundTyped /\ PlaceInv /\ PlaceInv' /\ Grows
      /\ arrived' = arrived /\ early \subseteq early'
  BY PlaceInvKept, StepCases, StepGrows DEF MessageInv, TrackInv, Moves
<1>2. PICK o : o = handler[h]
  OBVIOUS
<1>3. o.todo \in Seq(arrived) /\ IsInjective(o.todo) /\ Holder(o) /\ DOMAIN handler = Handlers
      /\ \A j \in DOMAIN o.todo : Expect(o, j)
  BY <1>2 DEF MessageInv, EchoKnown, InboundTyped, Holder
<1>4. \A g \in Handlers : SkipEcho(g) => g = h
  <2>1. \A g \in Handlers : g # h => handler'[g] = handler[g]
    BY <1>3 DEF Moves
  <2> QED BY <1>1, <2>1, SkipMoves
<1>5. CASE k = Idle
  BY <1>5 DEF Idle
<1>6. CASE o.todo # <<>> /\ k.todo = Tail(o.todo) /\ k.at = "next"
  <2>1. i + 1 \in DOMAIN o.todo /\ k.todo[i] = o.todo[i + 1] /\ i + 1 # 1 /\ o.todo[i + 1] # o.todo[1]
    <3>1. i \in 1..Len(k.todo) /\ k.todo \in Seq(arrived)
      BY <1>3, <1>6, TailOf
    <3>2. i + 1 \in DOMAIN o.todo /\ k.todo[i] = o.todo[i + 1] /\ 1 \in DOMAIN o.todo
      BY <1>3, <1>6, TailOf
    <3>3. i \in Nat /\ i + 1 # 1
      BY <3>1
    <3> QED BY <1>3, <3>2, <3>3 DEF IsInjective
  <2>2. Expect(o, i + 1)
    BY <1>3, <2>1
  <2>3. Expect(k, i)
    BY <1>6, <2>1, <2>2 DEF Expect
  <2>4. \A g \in Handlers : ~(SkipEcho(g) /\ Looks(g, k.todo[i]))
    BY <1>1, <1>2, <1>4, <2>1, SkipLooks
  <2> QED BY <1>1, <2>3, <2>4, ExpectStays
<1>7. CASE k.todo = o.todo /\ k.at \in {"relaying", "replying"}
  <2>1. Len(handler'[h].todo) = Len(handler[h].todo)
    BY <1>2, <1>3, <1>7 DEF Moves
  <2>2. ~SkipEcho(h)
    BY <1>1, <2>1, SkipMoves
  <2>3. Expect(o, i) /\ Expect(o, i)'
    BY <1>1, <1>3, <1>4, <1>7, <2>2, ExpectStays
  <2>4. CASE i # 1 \/ o.at # "next"
    <3>1. Expect(k, i)
      BY <1>7, <2>3, <2>4 DEF Expect, Known
    <3> QED BY <1>1, <1>4, <2>2, <3>1, ExpectStays
  <2>5. CASE i = 1 /\ o.at = "next"
    <3>1. Relay(h)
      <4>1. ~(NoReply(h) \/ Reply(h) \/ RelayFails(h) \/ Replied(h))
        BY <1>2, <2>5 DEF NoReply, Reply, Logged, RelayFails, Replied
      <4>2. ~BatchDone(h)
        BY <1>2, <1>3, <1>7, <2>5 DEF BatchDone
      <4> QED BY <2>2, <4>1, <4>2 DEF Handle, Told
    <3>2. k.todo[i] \notin Range(tracked)
      <4>1. PICK m : Looks(h, m) /\ ~IsEcho(m)
        BY <3>1 DEF Relay
      <4>2. m = o.todo[1]
        BY <1>1, <1>2, <4>1, SkipLooks
      <4> QED BY <1>7, <2>5, <4>1, <4>2 DEF IsEcho
    <3>3. Expect(k, i)
      BY <1>7, <2>3, <2>5, <3>2 DEF Expect, Known
    <3> QED BY <1>1, <1>4, <2>2, <3>3, ExpectStays
  <2> QED BY <2>4, <2>5
<1> QED BY <1>2, <1>5, <1>6, <1>7 DEF Moves

LEMMA EchoKnownKept == MessageInv /\ [Next]_vars => EchoKnown'
<1> SUFFICES ASSUME MessageInv, [Next]_vars PROVE EchoKnown'
  OBVIOUS
<1>1. /\ TrackInv /\ InboundTyped /\ PlaceInv
  BY DEF MessageInv, TrackInv
<1>2. \A t \in Tasks \ arrived' : send'[t] = "resolved" => Known(t)'
  BY UnseenKnown
<1>3. CASE UNCHANGED inbound
  <2>1. early \subseteq early' /\ \A h \in Handlers : handler'[h] = handler[h]
    BY <1>3 DEF inbound
  <2>2. \A h \in Handlers : ~SkipEcho(h)
    BY <1>1, <2>1, SkipMoves
  <2> QED BY <1>2, <2>1, <2>2, OthersExpect DEF EchoKnown
<1>4. ASSUME NEW h \in Handlers, Arrive(h) PROVE EchoKnown'
  <2>1. PICK batch : Opens(h, batch)
    BY <1>1, <1>4, ArriveOpens
  <2>2. PICK k : k = [at |-> "next", todo |-> batch, task |-> NoTask]
    OBVIOUS
  <2>3. /\ DOMAIN handler = Handlers /\ handler' = [handler EXCEPT ![h] = k]
        /\ UNCHANGED sending
    BY <1>1, <1>4, <2>1, <2>2 DEF InboundTyped, Opens, Arrive
  <2>4. UNCHANGED <<send, tracked, tried>>
    BY <2>3 DEF sending
  <2>5. handler'[h] = k /\ \A g \in Handlers \ {h} : handler'[g] = handler[g]
    BY <2>3
  <2>6. early \subseteq early'
    BY <2>1 DEF Opens
  <2>7. \A g \in Handlers \ {h} : ~SkipEcho(g)
    BY <1>1, <2>5, SkipMoves
  <2>8. \A g \in Handlers \ {h} : \A i \in DOMAIN handler'[g].todo : Expect(handler[g], i)'
    BY <2>5, <2>6, <2>7, OthersExpect
  <2>9. ASSUME NEW CONSTANT i, i \in DOMAIN k.todo PROVE Expect(k, i)'
    <3>1. PICK t : t = k.todo[i]
      OBVIOUS
    <3>2. k.todo = batch /\ t \in Range(batch) /\ t \notin arrived /\ k.at = "next"
      BY <2>1, <2>2, <2>9, <3>1 DEF Opens, Range
    <3>3. t \in Tasks \ early' => send[t] = "resolved"
      BY <2>1, <3>2 DEF Opens, Own
    <3>4. t \in Tasks \ early' => Known(t) /\ Known(t)'
      <4>1. t \in Tasks /\ send[t] = "resolved" => Known(t)
        BY <3>2 DEF MessageInv, EchoKnown
      <4>2. Known(t)' <=> Known(t)
        BY <2>4 DEF Known, Far, RememberedAfter
      <4> QED BY <3>3, <4>1, <4>2
    <3> QED BY <2>4, <3>1, <3>2, <3>3, <3>4 DEF Expect
  <2>10. \A i \in DOMAIN handler'[h].todo : Expect(handler[h], i)'
    BY <2>5, <2>9
  <2> QED BY <1>2, <2>8, <2>10 DEF EchoKnown
<1>5. ASSUME NEW h \in Handlers, Handle(h) PROVE EchoKnown'
  <2>1. PICK k : Holder(k) /\ Moves(h, k)
    BY <1>1, <1>5, HandleMoves
  <2>2. DOMAIN handler = Handlers /\ handler' = [handler EXCEPT ![h] = k] /\ early' = early
    BY <1>1, <2>1 DEF InboundTyped, Moves
  <2>3. handler'[h] = k /\ \A g \in Handlers \ {h} : handler'[g] = handler[g]
    BY <2>2
  <2>4. \A i \in DOMAIN k.todo : Expect(k, i)'
    BY <1>5, <2>1, MoverExpects
  <2>5. \A i \in DOMAIN handler'[h].todo : Expect(handler[h], i)'
    BY <2>3, <2>4
  <2>6. \A g \in Handlers \ {h} : ~SkipEcho(g)
    BY <1>1, <2>3, SkipMoves
  <2>7. \A g \in Handlers \ {h} : \A i \in DOMAIN handler'[g].todo : Expect(handler[g], i)'
    BY <2>2, <2>3, <2>6, OthersExpect
  <2> QED BY <1>2, <2>5, <2>7 DEF EchoKnown
<1> QED BY <1>3, <1>4, <1>5, InboundCases

LEMMA LoggedOnlyIfEarlyKept == MessageInv /\ [Next]_vars => EchoLoggedOnlyIfEarly'
<1> SUFFICES ASSUME MessageInv, [Next]_vars, NEW CONSTANT t \in Tasks, t \in logged'
             PROVE  t \in early' \/ Far(t)'
  BY DEF EchoLoggedOnlyIfEarly, Far, RememberedAfter
<1>1. /\ TrackInv /\ InboundTyped /\ PlaceInv /\ PlaceInv' /\ Grows
  BY PlaceInvKept, StepCases, StepGrows DEF MessageInv, TrackInv
<1>2. t \in early \/ Far(t)
  <2>1. CASE t \in logged
    BY <2>1 DEF MessageInv, EchoLoggedOnlyIfEarly, Far
  <2>2. CASE t \notin logged
    <3>1. PICK h \in Handlers : Arrive(h) \/ Handle(h)
      BY <2>2, InboundCases DEF inbound
    <3>2. Handle(h)
      BY <2>2, <3>1 DEF Arrive
    <3>3. PICK k : Holder(k) /\ Moves(h, k)
      BY <1>1, <3>2, HandleMoves
    <3>4. handler[h].at = "relaying" /\ t = Head(handler[h].todo)
      BY <2>2, <3>3 DEF Moves
    <3>5. handler[h].todo \in Seq(arrived) /\ handler[h].todo # <<>>
      BY <1>1, <3>4 DEF InboundTyped, Holder
    <3>6. 1 \in DOMAIN handler[h].todo /\ handler[h].todo[1] = t
      BY <3>4, <3>5, TailOf
    <3>7. Expect(handler[h], 1)
      BY <3>6 DEF MessageInv, EchoKnown
    <3> QED BY <3>4, <3>6, <3>7 DEF Expect
  <2> QED BY <2>1, <2>2
<1>3. early \subseteq early'
  <2>1. ASSUME NEW h \in Handlers, Handle(h) PROVE early' = early
    BY <1>1, <2>1, HandleMoves DEF Moves
  <2> QED BY <2>1, InboundCases DEF inbound, Arrive
<1> QED BY <1>1, <1>2, <1>3, FarStays

LEMMA MessageInvKept == MessageInv /\ [Next]_vars => MessageInv'
BY TrackInvKept, InboundKept, EchoKnownKept, LoggedOnlyIfEarlyKept DEF MessageInv, TrackInv

LEMMA MessageInvFirst == Init => MessageInv
<1> SUFFICES ASSUME Init PROVE MessageInv
  OBVIOUS
<1>1. QueueInv
  BY DEF Init, QueueInv, QueueTypes, AllAskedFor, OneChain, Held, Off
<1>2. Range(<<>>) = {} /\ IsInjective(<<>>)
  BY DEF Range, IsInjective
<1>3. OnePlace
  BY <1>2, NamesAssumption DEF Init, OnePlace, Held, Off
<1>4. Simple
  <2>1. gap = Interval /\ faults = 0 /\ connected = FALSE /\ running = FALSE /\ wired = {}
    BY DEF Init
  <2>2. gap \in 0..Interval /\ faults \in 0..MaxFaults
    BY <2>1, BoundsAssumption
  <2> QED BY <2>1, <2>2 DEF Simple
<1>5. TrackedInOrder /\ LastTried
  BY <1>2, BoundsAssumption DEF Init, TrackedInOrder, Kept, LastTried, Off
<1>6. Idle \in [at : {"idle"} \cup Stages, todo : Seq(arrived), task : Tasks \cup {NoTask}]
      /\ Idle.at = "idle" /\ Idle.todo = <<>> /\ Idle.task = NoTask
  BY DEF Idle
<1>7. Holder(Idle)
  BY <1>2, <1>6, NamesAssumption DEF Holder
<1>8. InboundTyped
  BY <1>2, <1>6, <1>7 DEF Init, InboundTyped
<1>9. EchoKnown
  BY <1>6 DEF Init, EchoKnown
<1>10. EchoLoggedOnlyIfEarly
  BY DEF Init, EchoLoggedOnlyIfEarly
<1> QED BY <1>1, <1>3, <1>4, <1>5, <1>8, <1>9, <1>10 DEF MessageInv, TrackInv, PlaceInv

(* The messages' inductive invariant. *)
THEOREM MessageInvariant == Spec => []MessageInv
BY MessageInvFirst, MessageInvKept, PTL DEF Spec

(* The queue and the ids repeat none, and a task is queued exactly while it is
   in the queue or with a chain.                                             *)
THEOREM QueueTypeCorrect == Spec => []TypeOK
<1>1. MessageInv => TypeOK
  <2> SUFFICES ASSUME MessageInv PROVE TypeOK
    OBVIOUS
  <2>1. QueueTypes /\ OnePlace /\ Simple /\ TrackedInOrder /\ InboundTyped /\ NoTask \notin Tasks
    BY NamesAssumption DEF MessageInv, TrackInv, PlaceInv, QueueInv
  <2>2. ASSUME NEW c \in Chains
        PROVE  \/ chain[c] \in [at : {"off", "next"}, task : {NoTask}]
               \/ chain[c] \in [at : {"waiting", "sending"}, task : Tasks]
    <3>1. chain[c] \in [at : {"off", "next", "waiting", "sending"}, task : Tasks \cup {NoTask}]
      BY <2>1 DEF QueueTypes
    <3>2. Held(c) => chain[c].task \in Tasks
      BY <2>1 DEF QueueTypes
    <3>3. ~Held(c) => chain[c].task = NoTask
      BY <2>1 DEF OnePlace
    <3> QED BY <3>1, <3>2, <3>3 DEF Held
  <2>3. ASSUME NEW h \in Handlers
        PROVE  \/ handler[h] = Idle
               \/ /\ handler[h].at \in Stages
                  /\ handler[h].todo \in Seq(arrived)
                  /\ handler[h].task \in (IF handler[h].at = "replying" THEN Tasks ELSE {NoTask})
    BY <2>1 DEF InboundTyped, Holder
  <2>4. {t \in Tasks : send[t] = "queued"} =
            Range(queue) \cup ({chain[c].task : c \in Chains} \ {NoTask})
    <3>1. Range(queue) \subseteq Tasks
      BY <2>1 DEF QueueTypes, Range
    <3>2. \A c \in Chains : chain[c].task \in Tasks \cup {NoTask}
      BY <2>1 DEF QueueTypes
    <3> QED BY <2>1, <3>1, <3>2 DEF OnePlace
  <2> QED BY <2>1, <2>2, <2>3, <2>4
          DEF TypeOK, QueueTypes, OnePlace, Simple, TrackedInOrder, Kept, InboundTyped
<1> QED BY <1>1, MessageInvariant, PTL

(* What the bridge sent is logged as typed only if its event overtook its send,
   or too many were sent after it.                                           *)
THEOREM OwnMessagesRecognised == Spec => []EchoLoggedOnlyIfEarly
BY MessageInvariant, PTL DEF MessageInv
=============================================================================

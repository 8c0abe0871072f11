------------------------ MODULE BridgeSession_proofs ------------------------
(* The bridge's session for every number of lines, attempts, logouts,
   accounts and disturbances: its types, action by action, the cases of Next,
   and then what the runs check on two lines and two disturbances: the bridge
   is never stranded, its retries are bounded, one chain runs at a time, what a
   reset forgot stays forgotten and what was stored stays stored.            *)
EXTENDS BridgeSession, FiniteSetTheorems, TLAPS

(* The process ends: every stage is idle, whatever it was. *)
LEMMA DieTypes ==
    ASSUME TypeOK, Die,
           disk' \in Creds, db' \in Creds, paired' \in 0..MaxPairings,
           forgotten' \in 0..MaxPairings, mishaps' \subseteq {"line", "write", "key"},
           faults' \in 0..MaxFaults
    PROVE  TypeOK'
<1>1. line' \in [Lines -> Stages] /\ held' \in [Lines -> Creds]
  BY DEF Die, Stages, Creds
<1>2. Busy' = {}
  BY DEF Die, Busy
<1>3. up' \in BOOLEAN /\ shuttingDown' \in BOOLEAN /\ ~up' /\ ~shuttingDown'
  BY DEF Die
<1>4. 0 \in 0..MaxAttempts /\ 0 \in Nat
  BY BoundsAssumption
<1> QED BY <1>1, <1>2, <1>3, <1>4 DEF Die, TypeOK

LEMMA AdvanceTypes ==
    ASSUME TypeOK, NEW c \in Lines, Advance(c)
    PROVE  TypeOK'
<1> USE DEF process, counters, connections, pending, stores, past
<1>1. up
  BY DEF Advance, BootSaves, Load, Restore, ReadAuthState, MakeSocket, ReconnectAtOnce,
         LoggedOut, Dropped, DroppedTooOften, TimerFires, ResetClears, ResetConnects,
         TypeOK, Busy
<1>2. ASSUME NEW stage \in Stages, Move(c, stage) PROVE line' \in [Lines -> Stages]
  BY <1>2 DEF Move, TypeOK
<1>3. ASSUME NEW creds \in Creds, Hold(c, creds) PROVE held' \in [Lines -> Creds]
  BY <1>3 DEF Hold, TypeOK
<1>4. ASSUME Release PROVE held' \in [Lines -> Creds]
  BY <1>4 DEF Release, TypeOK, Creds
<1>5. {"reading", "loaded", "fetching", "opening", "idle", "waiting", "noting"} \subseteq Stages
  BY DEF Stages, Starting, Joining, Resetting, Wire
<1>6. CASE BootSaves(c)
  BY <1>1, <1>2, <1>4, <1>5, <1>6 DEF BootSaves, TypeOK
<1>7. CASE Load(c)
  BY <1>1, <1>2, <1>3, <1>5, <1>7 DEF Load, TypeOK
<1>8. CASE Restore(c)
  BY <1>1, <1>2, <1>4, <1>5, <1>8 DEF Restore, TypeOK
<1>9. CASE ReadAuthState(c)
  BY <1>1, <1>2, <1>3, <1>5, <1>9 DEF ReadAuthState, TypeOK, Creds
<1>10. CASE MakeSocket(c)
  BY <1>1, <1>2, <1>5, <1>10 DEF MakeSocket, TypeOK
<1>11. CASE ReconnectAtOnce(c)
  BY <1>1, <1>2, <1>5, <1>11 DEF ReconnectAtOnce, TypeOK
<1>12. CASE LoggedOut(c)
  BY <1>1, <1>2, <1>5, <1>12 DEF LoggedOut, TypeOK
<1>13. CASE Dropped(c)
  BY <1>1, <1>2, <1>5, <1>13, BoundsAssumption DEF Dropped, TypeOK
<1>14. CASE DroppedTooOften(c)
  BY <1>14, DieTypes DEF DroppedTooOften, TypeOK
<1>15. CASE TimerFires(c)
  BY <1>1, <1>2, <1>5, <1>15 DEF TimerFires, TypeOK
<1>16. CASE ResetClears(c)
  BY <1>1, <1>2, <1>5, <1>16 DEF ResetClears, TypeOK, Creds
<1>17. CASE ResetConnects(c)
  BY <1>1, <1>2, <1>5, <1>17 DEF ResetConnects, TypeOK
<1> QED
  BY <1>6, <1>7, <1>8, <1>9, <1>10, <1>11, <1>12, <1>13, <1>14, <1>15, <1>16, <1>17
  DEF Advance

LEMMA DisturbanceTypes ==
    ASSUME TypeOK, NEW c \in Lines, Disturbance(c)
    PROVE  TypeOK'
<1> USE DEF process, counters, connections, pending, stores, past
<1>1. up
  BY DEF Disturbance, Pair, CredsUpdate, Established, ClosedForShutdown, Closed, LoadGarbled,
         Reset, ResetFails, TypeOK, Busy, Live, Wire, Resetting
<1>2. ASSUME NEW stage \in Stages, Move(c, stage) PROVE line' \in [Lines -> Stages]
  BY <1>2 DEF Move, TypeOK
<1>3. ASSUME NEW creds \in Creds, Hold(c, creds) PROVE held' \in [Lines -> Creds]
  BY <1>3 DEF Hold, TypeOK
<1>4. ASSUME Release PROVE held' \in [Lines -> Creds]
  BY <1>4 DEF Release, TypeOK, Creds
<1>5. {"loaded", "linked", "open", "idle", "clearing"} \cup Reasons \subseteq Stages
  BY DEF Stages, Starting, Resetting, Wire
<1>6. Disturb => faults' \in 0..MaxFaults
  BY BoundsAssumption DEF Disturb, TypeOK
<1>7. CASE Pair(c)
  <2>1. paired' \in 0..MaxPairings /\ paired' \in Creds
    BY <1>7, BoundsAssumption DEF Pair, TypeOK, Creds, Accounts
  <2> QED BY <1>1, <1>2, <1>3, <1>5, <1>7, <2>1 DEF Pair, TypeOK
<1>8. CASE CredsUpdate(c)
  BY <1>1, <1>8 DEF CredsUpdate, TypeOK
<1>9. CASE Established(c)
  BY <1>1, <1>2, <1>5, <1>9, BoundsAssumption DEF Established, TypeOK
<1>10. CASE ClosedForShutdown(c)
  BY <1>1, <1>2, <1>4, <1>5, <1>10 DEF ClosedForShutdown, TypeOK
<1>11. CASE \E reason \in Reasons : Closed(c, reason)
  BY <1>1, <1>2, <1>4, <1>5, <1>11 DEF Closed, TypeOK
<1>12. CASE LoadGarbled(c)
  BY <1>1, <1>2, <1>3, <1>5, <1>6, <1>12 DEF LoadGarbled, TypeOK, Creds
<1>13. CASE Reset(c)
  <2>1. line' \in [Lines -> Stages]
    BY <1>5, <1>13 DEF Reset, AfterReset, TypeOK
  <2>2. mishaps' \subseteq {"line", "write", "key"} /\ resetFailed' \in BOOLEAN
    BY <1>13 DEF Reset, TypeOK
  <2>3. 0 \in 0..MaxAttempts /\ 0 \in Nat
    BY BoundsAssumption
  <2> QED BY <1>1, <1>4, <1>6, <1>13, <2>1, <2>2, <2>3 DEF Reset, TypeOK, Creds
<1>14. CASE ResetFails(c)
  BY <1>1, <1>2, <1>5, <1>6, <1>14 DEF ResetFails, TypeOK
<1> QED
  BY <1>7, <1>8, <1>9, <1>10, <1>11, <1>12, <1>13, <1>14 DEF Disturbance

(* The steps of no line in particular. *)
Elsewhere ==
    \/ Persist \/ PeriodicPersist \/ \E w \in saving : SaveFails(w)
    \/ Crash \/ Terminate \/ Exit \/ LoseDisk

LEMMA ElsewhereTypes ==
    ASSUME TypeOK, Elsewhere
    PROVE  TypeOK'
<1> USE DEF process, counters, connections, pending, stores, past
<1>1. Disturb => faults' \in 0..MaxFaults
  BY BoundsAssumption DEF Disturb, TypeOK
<1>2. CASE \E c \in Lines : Greeted(c)
  BY <1>2 DEF Greeted, TypeOK, Busy
<1>3. CASE \E w \in storing : StoreCreds(w)
  BY <1>3 DEF StoreCreds, TypeOK, Busy
<1>4. CASE \E w \in saving : SaveCredentials(w)
  BY <1>4 DEF SaveCredentials, TypeOK, Busy
<1>5. CASE PeriodicPersist
  BY <1>5 DEF PeriodicPersist, TypeOK, Busy
<1>6. CASE \E w \in saving : SaveFails(w)
  BY <1>1, <1>6 DEF SaveFails, TypeOK, Busy
<1>7. CASE Crash
  BY <1>1, <1>7, DieTypes DEF Crash, TypeOK
<1>8. CASE Terminate
  <2>1. line' \in [Lines -> Stages] /\ held' \in [Lines -> Creds]
    BY <1>8 DEF Terminate, Release, TypeOK, Stages, Creds
  <2> QED BY <1>1, <1>8, <2>1 DEF Terminate, TypeOK
<1>9. CASE Exit
  BY <1>9, DieTypes DEF Exit, TypeOK
<1>10. CASE LoseDisk
  BY <1>1, <1>10 DEF LoseDisk, TypeOK, Creds, Busy
<1> QED
  BY <1>2, <1>3, <1>4, <1>5, <1>6, <1>7, <1>8, <1>9, <1>10 DEF Elsewhere, Persist

LEMMA NextCases ==
    Next <=> (\E c \in Lines : Boot(c) \/ Advance(c) \/ Disturbance(c)) \/ Elsewhere
  BY DEF Next, Elsewhere

(* The state of the process, its lines, its writes and both stores stays well
   typed; a process that is down has nothing under way.                      *)
THEOREM BridgeTypeCorrect == Spec => []TypeOK
<1>1. Init => TypeOK
  <2> SUFFICES ASSUME Init PROVE TypeOK
    OBVIOUS
  <2>1. /\ up \in BOOLEAN /\ shuttingDown \in BOOLEAN /\ ~shuttingDown
        /\ resetFailed \in BOOLEAN
    BY DEF Init
  <2>2. line \in [Lines -> Stages] /\ held \in [Lines -> Creds] /\ Busy = {}
    BY DEF Init, Stages, Creds, Busy
  <2>3. /\ 0 \in 0..MaxAttempts /\ 0 \in 0..MaxPairings /\ 0 \in 0..MaxFaults
        /\ 0 \in Nat
    BY BoundsAssumption
  <2> QED BY <2>1, <2>2, <2>3 DEF Init, TypeOK, Creds
<1>2. TypeOK /\ [Next]_vars => TypeOK'
  <2> SUFFICES ASSUME TypeOK, [Next]_vars PROVE TypeOK'
    OBVIOUS
  <2> USE DEF process, counters, connections, pending, stores, past
  <2>1. CASE UNCHANGED vars
    BY <2>1 DEF vars, TypeOK, Busy
  <2>2. ASSUME NEW c \in Lines, Boot(c) PROVE TypeOK'
    <3>1. line' \in [Lines -> Stages] /\ held' \in [Lines -> Creds]
      BY <2>2 DEF Boot, Move, Hold, TypeOK, Stages, Starting
    <3> QED BY <2>2, <3>1 DEF Boot, TypeOK
  <2> QED BY <2>1, <2>2, AdvanceTypes, DisturbanceTypes, ElsewhereTypes, NextCases
<1> QED BY <1>1, <1>2, PTL DEF Spec

-----------------------------------------------------------------------------
(* The counters bound the timers that were set: every attempt leaves room for
   MaxLogouts logouts, and logouts beyond them set none.                      *)
Counted ==
    \E room \in {consecutiveLogouts, MaxLogouts} :
        /\ room <= consecutiveLogouts /\ room <= MaxLogouts
        /\ tries <= reconnectAttempts * (MaxLogouts + 1) + room

LEMMA CountersMove ==
    ASSUME Next
    PROVE  \/ UNCHANGED counters
           \/ reconnectAttempts' = 0 /\ consecutiveLogouts' = 0 /\ tries' = 0
           \/ \E c \in Lines : LoggedOut(c) \/ Dropped(c)
<1> USE DEF counters
<1>1. ASSUME NEW c \in Lines, Boot(c) PROVE UNCHANGED counters
  BY <1>1 DEF Boot
<1>2. ASSUME NEW c \in Lines, Advance(c), ~LoggedOut(c), ~Dropped(c)
      PROVE  \/ UNCHANGED counters
             \/ reconnectAttempts' = 0 /\ consecutiveLogouts' = 0 /\ tries' = 0
  BY <1>2 DEF Advance, BootSaves, Load, Restore, ReadAuthState, MakeSocket, ReconnectAtOnce,
              DroppedTooOften, Die, TimerFires, ResetClears, ResetConnects
<1>3. ASSUME NEW c \in Lines, Disturbance(c)
      PROVE  \/ UNCHANGED counters
             \/ reconnectAttempts' = 0 /\ consecutiveLogouts' = 0 /\ tries' = 0
  BY <1>3 DEF Disturbance, Pair, CredsUpdate, Established, ClosedForShutdown, Closed,
              LoadGarbled, Reset, ResetFails
<1>4. ASSUME Elsewhere
      PROVE  \/ UNCHANGED counters
             \/ reconnectAttempts' = 0 /\ consecutiveLogouts' = 0 /\ tries' = 0
  BY <1>4 DEF Elsewhere, Persist, Greeted, StoreCreds, SaveCredentials, PeriodicPersist,
              SaveFails, Crash, Die, Terminate, Exit, LoseDisk
<1> QED BY <1>1, <1>2, <1>3, <1>4, NextCases

LEMMA ProductMonotone ==
    ASSUME NEW a \in Nat, NEW b \in Nat, a <= b, NEW k \in Nat
    PROVE  a * k <= b * k
<1>1. PICK d \in Nat : b = a + d
  <2>1. b - a \in Nat /\ b = a + (b - a)
    OBVIOUS
  <2> QED BY <2>1
<1>2. b * k = a * k + d * k
  BY <1>1
<1>3. a * k \in Nat /\ d * k \in Nat
  OBVIOUS
<1> QED BY <1>2, <1>3

(* However the two counters reset each other, between two openings, resets or
   restarts the bridge sets at most MaxAttempts * (MaxLogouts + 1) +
   MaxLogouts reconnect timers.                                              *)
THEOREM RetriesAlwaysBounded == Spec => []RetriesBounded
<1>1. Init => Counted
  BY BoundsAssumption DEF Init, Counted
<1>2. TypeOK /\ Counted /\ [Next]_vars => Counted'
  <2> SUFFICES ASSUME TypeOK, Counted, [Next]_vars PROVE Counted'
    OBVIOUS
  <2> PICK a, l, t : a = reconnectAttempts /\ l = consecutiveLogouts /\ t = tries
    OBVIOUS
  <2> DEFINE k == MaxLogouts + 1
  <2>1. a \in Nat /\ l \in Nat /\ t \in Nat /\ MaxLogouts \in Nat /\ k \in Nat
    BY BoundsAssumption DEF TypeOK
  <2>2. t <= a * k + l /\ t <= a * k + MaxLogouts
    BY <2>1 DEF Counted
  <2>3. a * k \in Nat /\ (a + 1) * k = a * k + k
    BY <2>1
  <2>4. CASE UNCHANGED counters
    BY <2>4 DEF counters, Counted
  <2>5. CASE reconnectAttempts' = 0 /\ consecutiveLogouts' = 0 /\ tries' = 0
    BY <2>1, <2>5 DEF Counted
  <2>6. ASSUME NEW c \in Lines, LoggedOut(c) PROVE Counted'
    <3>1. reconnectAttempts' = a /\ consecutiveLogouts' = l + 1
      BY <2>6 DEF LoggedOut
    <3>2. CASE l + 1 > MaxLogouts
      <4>1. tries' = t
        BY <2>6, <3>1, <3>2 DEF LoggedOut
      <4>2. tries' <= reconnectAttempts' * (MaxLogouts + 1) + MaxLogouts
        BY <2>1, <2>2, <3>1, <4>1
      <4> QED BY <2>1, <3>1, <3>2, <4>2 DEF Counted
    <3>3. CASE ~(l + 1 > MaxLogouts)
      <4>1. tries' = t + 1
        BY <2>6, <3>1, <3>3 DEF LoggedOut
      <4>2. t + 1 <= a * k + (l + 1)
        BY <2>1, <2>2, <2>3
      <4>3. tries' <= reconnectAttempts' * (MaxLogouts + 1) + consecutiveLogouts'
        BY <3>1, <4>1, <4>2
      <4> QED BY <2>1, <3>1, <3>3, <4>3 DEF Counted
    <3> QED BY <3>2, <3>3
  <2>7. ASSUME NEW c \in Lines, Dropped(c) PROVE Counted'
    <3>1. reconnectAttempts' = a + 1 /\ consecutiveLogouts' = 0 /\ tries' = t + 1
      BY <2>7 DEF Dropped
    <3>2. t + 1 <= (a + 1) * k
      BY <2>1, <2>2, <2>3
    <3>3. tries' <= reconnectAttempts' * (MaxLogouts + 1) + 0
      BY <2>1, <3>1, <3>2
    <3> QED BY <2>1, <3>1, <3>3 DEF Counted
  <2>8. CASE UNCHANGED vars
    BY <2>4, <2>8 DEF vars
  <2> QED BY <2>4, <2>5, <2>6, <2>7, <2>8, CountersMove
<1>3. TypeOK /\ Counted => RetriesBounded
  <2> SUFFICES ASSUME TypeOK, Counted PROVE RetriesBounded
    OBVIOUS
  <2>1. /\ reconnectAttempts \in Nat /\ MaxAttempts \in Nat /\ MaxLogouts \in Nat
        /\ tries \in Nat /\ reconnectAttempts <= MaxAttempts
    BY BoundsAssumption DEF TypeOK
  <2>2. reconnectAttempts * (MaxLogouts + 1) <= MaxAttempts * (MaxLogouts + 1)
    BY <2>1, ProductMonotone
  <2>3. tries <= reconnectAttempts * (MaxLogouts + 1) + MaxLogouts
    BY <2>1 DEF Counted, TypeOK
  <2>4. /\ reconnectAttempts * (MaxLogouts + 1) \in Nat
        /\ MaxAttempts * (MaxLogouts + 1) \in Nat
    BY <2>1
  <2> QED BY <2>1, <2>2, <2>3, <2>4 DEF RetriesBounded
<1> QED BY <1>1, <1>2, <1>3, BridgeTypeCorrect, PTL DEF Spec

-----------------------------------------------------------------------------
(* A line that moved on is still there to act. *)
LEMMA StillBusy ==
    ASSUME NEW c \in Lines, line'[c] # "idle"
    PROVE  NeverStranded'
  BY DEF NeverStranded, Busy

(* With nothing under way the bridge has given up on logouts or a reset failed:
   a close, a timer, a start-up or a reset always hands on to the next step. *)
THEOREM NeverStrandedAlways == Spec => []NeverStranded
<1>1. Init => NeverStranded
  BY DEF Init, NeverStranded
<1>2. TypeOK /\ NeverStranded /\ [Next]_vars => NeverStranded'
  <2> SUFFICES ASSUME TypeOK, NeverStranded, [Next]_vars PROVE NeverStranded'
    OBVIOUS
  <2> USE DEF process, counters, connections, pending, stores, past
  <2>1. line \in [Lines -> Stages]
    BY DEF TypeOK
  <2>2. ASSUME UNCHANGED <<up, shuttingDown, line, consecutiveLogouts, resetFailed>>
        PROVE  NeverStranded'
    BY <2>2 DEF NeverStranded, Busy, MayStop
  <2>3. ASSUME NEW c \in Lines, NEW stage, Move(c, stage), stage # "idle"
        PROVE  NeverStranded'
    BY <2>1, <2>3, StillBusy DEF Move
  <2>4. Die => NeverStranded'
    BY DEF Die, NeverStranded
  <2>5. ASSUME NEW c \in Lines, Boot(c) PROVE NeverStranded'
    BY <2>3, <2>5 DEF Boot
  <2>6. ASSUME NEW c \in Lines, Advance(c) PROVE NeverStranded'
    <3>1. CASE LoggedOut(c)
      BY <2>3, <3>1 DEF LoggedOut, NeverStranded, MayStop
    <3>2. CASE DroppedTooOften(c)
      BY <2>4, <3>2 DEF DroppedTooOften
    <3>3. CASE BootSaves(c) \/ Load(c) \/ Restore(c) \/ ReadAuthState(c) \/ MakeSocket(c)
      BY <2>3, <3>3 DEF BootSaves, Load, Restore, ReadAuthState, MakeSocket
    <3>4. CASE \/ ReconnectAtOnce(c) \/ Dropped(c) \/ TimerFires(c)
               \/ ResetClears(c) \/ ResetConnects(c)
      BY <2>3, <3>4 DEF ReconnectAtOnce, Dropped, TimerFires, ResetClears, ResetConnects
    <3> QED BY <2>6, <3>1, <3>2, <3>3, <3>4 DEF Advance
  <2>7. ASSUME NEW c \in Lines, Disturbance(c) PROVE NeverStranded'
    <3>1. CASE Pair(c) \/ Established(c) \/ LoadGarbled(c)
      BY <2>3, <3>1 DEF Pair, Established, LoadGarbled
    <3>2. CASE \E reason \in Reasons : Closed(c, reason)
      BY <2>3, <3>2 DEF Closed, Reasons
    <3>3. CASE CredsUpdate(c)
      BY <3>3, <2>2 DEF CredsUpdate
    <3>4. CASE ClosedForShutdown(c)
      BY <3>4 DEF ClosedForShutdown, NeverStranded
    <3>5. CASE Reset(c)
      BY <3>5, StillBusy DEF Reset
    <3>6. CASE ResetFails(c)
      BY <3>6 DEF ResetFails, NeverStranded, MayStop
    <3> QED BY <2>7, <3>1, <3>2, <3>3, <3>4, <3>5, <3>6 DEF Disturbance
  <2>8. ASSUME Elsewhere PROVE NeverStranded'
    <3>1. CASE Persist \/ PeriodicPersist \/ (\E w \in saving : SaveFails(w)) \/ LoseDisk
      BY <2>2, <3>1
      DEF Persist, Greeted, StoreCreds, SaveCredentials, PeriodicPersist, SaveFails, LoseDisk
    <3>2. CASE Crash \/ Exit
      BY <2>4, <3>2 DEF Crash, Exit
    <3>3. CASE Terminate
      BY <3>3 DEF Terminate, NeverStranded
    <3> QED BY <2>8, <3>1, <3>2, <3>3 DEF Elsewhere
  <2>9. CASE UNCHANGED vars
    BY <2>2, <2>9 DEF vars
  <2> QED BY <2>5, <2>6, <2>7, <2>8, <2>9, NextCases
<1> QED BY <1>1, <1>2, BridgeTypeCorrect, PTL DEF Spec

-----------------------------------------------------------------------------
(* Only a start-up and a reset make a line out of nothing; no step forgets a
   mishap.                                                                   *)
LEMMA NoNewLine ==
    ASSUME TypeOK, Next, \A c \in Lines : ~Boot(c) /\ ~Reset(c)
    PROVE  Busy' \subseteq Busy /\ mishaps \subseteq mishaps'
<1> USE DEF process, counters, connections, pending, stores, past
<1>1. line \in [Lines -> Stages]
  BY DEF TypeOK
<1>2. ASSUME NEW c \in Busy, NEW stage, Move(c, stage) PROVE Busy' \subseteq Busy
  BY <1>1, <1>2 DEF Busy, Move
<1>3. ASSUME UNCHANGED line PROVE Busy' \subseteq Busy
  BY <1>3 DEF Busy
<1>4. Die => Busy' \subseteq Busy
  BY DEF Die, Busy
<1>5. ASSUME NEW c \in Lines, Advance(c)
      PROVE  Busy' \subseteq Busy /\ mishaps \subseteq mishaps'
  <2>1. c \in Busy
    BY <1>5 DEF Advance, BootSaves, Load, Restore, ReadAuthState, MakeSocket,
                ReconnectAtOnce, LoggedOut, Dropped, DroppedTooOften, TimerFires,
                ResetClears, ResetConnects, Busy
  <2>2. mishaps' = mishaps
    BY <1>5 DEF Advance, BootSaves, Load, Restore, ReadAuthState, MakeSocket,
                ReconnectAtOnce, LoggedOut, Dropped, DroppedTooOften, TimerFires,
                ResetClears, ResetConnects
  <2>3. DroppedTooOften(c) \/ \E stage : Move(c, stage)
    BY <1>5 DEF Advance, BootSaves, Load, Restore, ReadAuthState, MakeSocket,
                ReconnectAtOnce, LoggedOut, Dropped, TimerFires,
                ResetClears, ResetConnects
  <2> QED BY <1>2, <1>4, <2>1, <2>2, <2>3 DEF DroppedTooOften
<1>6. ASSUME NEW c \in Lines, Disturbance(c), ~Reset(c)
      PROVE  Busy' \subseteq Busy /\ mishaps \subseteq mishaps'
  <2>1. c \in Busy
    BY <1>6 DEF Disturbance, Pair, CredsUpdate, Established, ClosedForShutdown, Closed,
                LoadGarbled, ResetFails, Busy, Live, Wire, Resetting
  <2>2. mishaps \subseteq mishaps'
    BY <1>6 DEF Disturbance, Pair, CredsUpdate, Established, ClosedForShutdown, Closed,
                LoadGarbled, ResetFails
  <2>3. UNCHANGED line \/ \E stage : Move(c, stage)
    BY <1>6 DEF Disturbance, Pair, CredsUpdate, Established, ClosedForShutdown, Closed,
                LoadGarbled, ResetFails
  <2> QED BY <1>2, <1>3, <2>1, <2>2, <2>3
<1>7. ASSUME Elsewhere
      PROVE  Busy' \subseteq Busy /\ mishaps \subseteq mishaps'
  <2>1. CASE Terminate
    BY <1>1, <2>1 DEF Terminate, Busy
  <2>2. CASE Crash \/ Exit
    BY <1>4, <2>2 DEF Crash, Exit
  <2>3. CASE Persist \/ PeriodicPersist \/ (\E w \in saving : SaveFails(w)) \/ LoseDisk
    BY <1>3, <2>3
    DEF Persist, Greeted, StoreCreds, SaveCredentials, PeriodicPersist, SaveFails, LoseDisk
  <2> QED BY <1>7, <2>1, <2>2, <2>3 DEF Elsewhere
<1> QED BY <1>5, <1>6, <1>7, NextCases

Single == "line" \notin mishaps => \A c, d \in Busy : c = d

(* A reset that is no mishap finds at most the current socket's line, and ends
   it.                                                                       *)
LEMMA SingleKept == TypeOK /\ Single /\ [Next]_vars => Single'
<1> SUFFICES ASSUME TypeOK, Single, [Next]_vars PROVE Single'
  OBVIOUS
<1> USE DEF process, counters, connections, pending, stores, past
<1>1. line \in [Lines -> Stages]
  BY DEF TypeOK
<1>2. ASSUME NEW c \in Lines, Boot(c) PROVE Single'
  <2>1. Busy = {} /\ mishaps' = mishaps
    BY <1>2 DEF Boot, TypeOK
  <2>2. Busy' \subseteq {c}
    BY <1>1, <1>2, <2>1 DEF Boot, Move, Busy
  <2> QED BY <2>2 DEF Single
<1>3. ASSUME NEW c \in Lines, Reset(c) PROVE Single'
  <2>1. CASE Busy \subseteq Live \cap {sock}
    <3>1. \A d \in Lines : d # c => line'[d] = "idle"
      BY <1>3, <2>1 DEF Reset, AfterReset, Busy
    <3> QED BY <3>1 DEF Single, Busy
  <2>2. CASE ~(Busy \subseteq Live \cap {sock})
    BY <1>3, <2>2 DEF Reset, Single
  <2> QED BY <2>1, <2>2
<1>4. CASE UNCHANGED vars
  BY <1>4 DEF vars, Single, Busy
<1>5. CASE Next /\ \A c \in Lines : ~Boot(c) /\ ~Reset(c)
  BY <1>5, NoNewLine DEF Single
<1> QED BY <1>2, <1>3, <1>4, <1>5

LEMMA SingleAlways == Spec => []Single
<1>1. Init => Single
  BY DEF Init, Single, Busy
<1> QED BY <1>1, SingleKept, BridgeTypeCorrect, PTL DEF Spec

(* One chain of control at a time, unless a reset began one beside another:
   closes, timers, restarts and shutdowns never double it.                   *)
THEOREM OneLineAlways == Spec => []OneLine
<1>1. Single => OneLine
  <2> SUFFICES ASSUME Single, "line" \notin mishaps PROVE Cardinality(Busy) <= 1
    BY DEF OneLine
  <2>1. CASE Busy = {}
    BY <2>1, FS_EmptySet
  <2>2. CASE Busy # {}
    <3>1. PICK c : Busy = {c}
      BY <2>2 DEF Single
    <3> QED BY <3>1, FS_Singleton
  <2> QED BY <2>1, <2>2
<1> QED BY <1>1, SingleAlways, PTL

-----------------------------------------------------------------------------
(* What makes Forgotten inductive.  A reset marks as forgotten what was linked
   when clearCredentials ends, so nothing may hold credentials by then: the
   line that clears is alone, only it runs, and the saves under way are of the
   emptied directory.                                                        *)
Overtaken == mishaps \cap {"line", "write"} # {}
Old       == 1..forgotten

LastLinked == forgotten <= paired
HeldInUse  == \A c \in Lines : held[c] # Empty => line[c] \in Holding
NoneOld    ==
    ~Overtaken => /\ disk \notin Old /\ db \notin Old
                  /\ \A c \in Lines : held[c] \notin Old
                  /\ \A w \in storing \cup saving : w[2] \notin Old
Emptied    ==
    ~Overtaken => \A c \in Lines : line[c] = "clearing" =>
        disk = Empty /\ storing = {} /\ \A w \in saving : w[2] = Empty

Forgetting == LastLinked /\ HeldInUse /\ NoneOld /\ Emptied

LEMMA OldIsNumbered ==
    ASSUME TypeOK
    PROVE  /\ Empty \notin Old /\ 0 \notin Old
           /\ forgotten \in Nat /\ paired \in Nat /\ Empty # 0
  BY BoundsAssumption DEF TypeOK, Old, Empty

LEMMA DieForgets ==
    ASSUME TypeOK, Forgetting, Die, UNCHANGED <<disk, db, paired, forgotten, mishaps>>
    PROVE  Forgetting'
<1>1. LastLinked' /\ HeldInUse'
  BY DEF Forgetting, LastLinked, HeldInUse, Die
<1>2. NoneOld'
  BY OldIsNumbered DEF Forgetting, NoneOld, Overtaken, Old, Die
<1>3. Emptied'
  BY DEF Emptied, Die
<1> QED BY <1>1, <1>2, <1>3 DEF Forgetting

(* With one line at a time, nothing else runs while a line clears. *)
LEMMA ClearsAlone ==
    ASSUME Single, ~Overtaken, NEW c \in Busy, NEW d \in Lines, line[d] = "clearing"
    PROVE  c = d
  BY DEF Single, Overtaken, Busy

LEMMA AdvanceForgets ==
    ASSUME TypeOK, Single, Forgetting, NEW c \in Lines, Advance(c)
    PROVE  Forgetting'
<1> USE DEF process, counters, connections, pending, stores, past
<1>1. line \in [Lines -> Stages] /\ held \in [Lines -> Creds]
  BY DEF TypeOK
<1>2. CASE DroppedTooOften(c)
  BY <1>2, DieForgets DEF DroppedTooOften
<1>3. CASE ResetClears(c)
  <2>1. LastLinked' /\ HeldInUse'
    BY <1>1, <1>3, OldIsNumbered
    DEF ResetClears, Move, Forgetting, LastLinked, HeldInUse, Holding, Wire
  <2>2. Emptied'
    BY <1>1, <1>3 DEF ResetClears, Move, Forgetting, Emptied, Overtaken
  <2>3. ASSUME ~Overtaken PROVE \A d \in Lines : held[d] = Empty
    <3>1. \A d \in Lines : d = c \/ line[d] = "idle"
      BY <1>3, <2>3 DEF ResetClears, Single, Overtaken, Busy
    <3> QED BY <1>3, <3>1 DEF ResetClears, Forgetting, HeldInUse, Holding, Wire
  <2>4. Empty \notin Old'
    BY <1>3, OldIsNumbered DEF ResetClears, Old, Empty
  <2> QED BY <1>3, <2>1, <2>2, <2>3, <2>4
          DEF ResetClears, Forgetting, NoneOld, Emptied, Overtaken
<1>4. ASSUME UNCHANGED <<paired, forgotten, mishaps, storing, saving>>,
             disk' \in {disk, held[c]}, db' \in {db, held[c]},
             \A d \in Lines : held'[d] \in {held[d], Empty, 0, disk, db},
             NEW stage, Move(c, stage), stage # "clearing", c \in Busy,
             line[c] # "clearing" \/ (disk' = disk /\ db' = db)
      PROVE  LastLinked' /\ NoneOld' /\ Emptied'
  <2>1. LastLinked'
    BY <1>4 DEF Forgetting, LastLinked
  <2>2. NoneOld'
    BY <1>4, OldIsNumbered DEF Forgetting, NoneOld, Overtaken, Old
  <2>3. Emptied'
    <3> SUFFICES ASSUME ~Overtaken', NEW d \in Lines, line'[d] = "clearing"
                 PROVE  disk' = Empty /\ storing' = {} /\ \A w \in saving' : w[2] = Empty
      BY DEF Emptied
    <3>1. d # c /\ line[d] = "clearing" /\ ~Overtaken
      BY <1>1, <1>4 DEF Move, Overtaken
    <3> QED BY <1>4, <3>1, ClearsAlone
  <2> QED BY <2>1, <2>2, <2>3
<1>5. CASE BootSaves(c) \/ Restore(c)
  <2>1. HeldInUse'
    BY <1>5 DEF BootSaves, Restore, Release, HeldInUse
  <2>2. \A d \in Lines : held'[d] \in {held[d], Empty}
    BY <1>5 DEF BootSaves, Restore, Release
  <2>3. c \in Busy /\ line[c] # "clearing"
    BY <1>5 DEF BootSaves, Restore, Busy
  <2>4. Move(c, "reading") /\ disk' \in {disk, held[c]} /\ db' \in {db, held[c]}
    BY <1>5 DEF BootSaves, Restore
  <2>5. UNCHANGED <<paired, forgotten, mishaps, storing, saving>>
    BY <1>5 DEF BootSaves, Restore
  <2>6. LastLinked' /\ NoneOld' /\ Emptied'
    BY <1>4, <2>2, <2>3, <2>4, <2>5
  <2> QED BY <2>1, <2>6 DEF Forgetting
<1>6. CASE Load(c) \/ ReadAuthState(c)
  <2>1. HeldInUse'
    BY <1>1, <1>6 DEF Load, ReadAuthState, Move, Hold, Forgetting, HeldInUse, Holding
  <2>2. \A d \in Lines : held'[d] \in {held[d], Empty, 0, disk, db}
    BY <1>1, <1>6 DEF Load, ReadAuthState, Hold
  <2>3. c \in Busy /\ line[c] # "clearing" /\ UNCHANGED <<disk, db>>
    BY <1>6 DEF Load, ReadAuthState, Busy
  <2>4. Move(c, "loaded") \/ Move(c, "fetching")
    BY <1>6 DEF Load, ReadAuthState
  <2>5. UNCHANGED <<paired, forgotten, mishaps, storing, saving>>
    BY <1>6 DEF Load, ReadAuthState
  <2>6. LastLinked' /\ NoneOld' /\ Emptied'
    BY <1>4, <2>2, <2>3, <2>4, <2>5
  <2> QED BY <2>1, <2>6 DEF Forgetting
<1>7. CASE \/ MakeSocket(c) \/ ReconnectAtOnce(c) \/ LoggedOut(c) \/ Dropped(c)
           \/ TimerFires(c) \/ ResetConnects(c)
  <2>1. HeldInUse'
    BY <1>1, <1>7
    DEF MakeSocket, ReconnectAtOnce, LoggedOut, Dropped, TimerFires, ResetConnects, Move,
        Forgetting, HeldInUse, Holding, Wire
  <2>2. UNCHANGED <<held, disk, db, paired, forgotten, mishaps, storing, saving>>
    BY <1>7 DEF MakeSocket, ReconnectAtOnce, LoggedOut, Dropped, TimerFires, ResetConnects
  <2>3. c \in Busy
    BY <1>7 DEF MakeSocket, ReconnectAtOnce, LoggedOut, Dropped, TimerFires, ResetConnects,
                Busy
  <2>4. \E stage \in {"opening", "reading", "idle", "waiting"} : Move(c, stage)
    BY <1>7 DEF MakeSocket, ReconnectAtOnce, LoggedOut, Dropped, TimerFires, ResetConnects
  <2>5. LastLinked' /\ NoneOld' /\ Emptied'
    BY <1>4, <2>2, <2>3, <2>4
  <2> QED BY <2>1, <2>5 DEF Forgetting
<1> QED BY <1>2, <1>3, <1>5, <1>6, <1>7 DEF Advance

LEMMA DisturbanceForgets ==
    ASSUME TypeOK, Single, Forgetting, NEW c \in Lines, Disturbance(c)
    PROVE  Forgetting'
<1> USE DEF process, counters, connections, pending, stores, past
<1>1. line \in [Lines -> Stages] /\ held \in [Lines -> Creds]
  BY DEF TypeOK
<1>2. CASE Pair(c)
  <2>1. paired' = paired + 1 /\ paired' \notin Old' /\ paired' \notin Old
    BY <1>2, OldIsNumbered DEF Pair, Old, Forgetting, LastLinked
  <2>2. c \in Busy /\ line[c] # "clearing"
    BY <1>2 DEF Pair, Busy
  <2>3. LastLinked'
    BY <1>2, <2>1, OldIsNumbered DEF Pair, Forgetting, LastLinked
  <2>4. HeldInUse'
    BY <1>1, <1>2 DEF Pair, Move, Hold, Forgetting, HeldInUse, Holding, Wire
  <2>5. NoneOld'
    BY <1>1, <1>2, <2>1 DEF Pair, Hold, Forgetting, NoneOld, Overtaken, Old
  <2>6. Emptied'
    BY <1>1, <1>2, <2>2, ClearsAlone DEF Pair, Move, Emptied, Overtaken
  <2> QED BY <2>3, <2>4, <2>5, <2>6 DEF Forgetting
<1>3. CASE CredsUpdate(c)
  <2>1. c \in Busy /\ line[c] # "clearing"
    BY <1>3 DEF CredsUpdate, Live, Wire, Busy
  <2>2. LastLinked' /\ HeldInUse'
    BY <1>3 DEF CredsUpdate, Forgetting, LastLinked, HeldInUse
  <2>3. NoneOld'
    BY <1>3 DEF CredsUpdate, Forgetting, NoneOld, Overtaken, Old
  <2>4. Emptied'
    BY <1>3, <2>1, ClearsAlone DEF CredsUpdate, Emptied, Overtaken
  <2> QED BY <2>2, <2>3, <2>4 DEF Forgetting
<1>4. ASSUME UNCHANGED <<stores, paired, forgotten, storing, saving>>,
             mishaps \subseteq mishaps',
             \A d \in Lines : held'[d] \in {held[d], Empty},
             \A d \in Lines : line'[d] = "clearing" => line[d] = "clearing"
      PROVE  LastLinked' /\ NoneOld' /\ Emptied'
  <2>1. ~Overtaken' => ~Overtaken
    BY <1>4 DEF Overtaken
  <2>2. LastLinked'
    BY <1>4 DEF Forgetting, LastLinked
  <2>3. NoneOld'
    BY <1>4, <2>1, OldIsNumbered DEF Forgetting, NoneOld, Old
  <2>4. Emptied'
    BY <1>4, <2>1 DEF Forgetting, Emptied
  <2> QED BY <2>2, <2>3, <2>4
<1>5. CASE Established(c)
  <2>1. HeldInUse'
    BY <1>1, <1>5 DEF Established, Move, Forgetting, HeldInUse, Holding, Wire
  <2> QED BY <1>1, <1>4, <1>5, <2>1 DEF Established, Move, Forgetting
<1>6. CASE ClosedForShutdown(c) \/ \E reason \in Reasons : Closed(c, reason)
  <2>1. HeldInUse' /\ \A d \in Lines : held'[d] \in {held[d], Empty}
    BY <1>6 DEF ClosedForShutdown, Closed, Release, HeldInUse
  <2>2. \A d \in Lines : line'[d] = "clearing" => line[d] = "clearing"
    BY <1>1, <1>6 DEF ClosedForShutdown, Closed, Move, Reasons
  <2>3. UNCHANGED <<stores, paired, forgotten, storing, saving, mishaps>>
    BY <1>6 DEF ClosedForShutdown, Closed
  <2> QED BY <1>4, <2>1, <2>2, <2>3 DEF Forgetting
<1>7. CASE LoadGarbled(c)
  <2>1. HeldInUse'
    BY <1>1, <1>7 DEF LoadGarbled, Move, Hold, Forgetting, HeldInUse, Holding
  <2>2. \A d \in Lines : held'[d] \in {held[d], Empty}
    BY <1>1, <1>7 DEF LoadGarbled, Hold
  <2>3. \A d \in Lines : line'[d] = "clearing" => line[d] = "clearing"
    BY <1>1, <1>7 DEF LoadGarbled, Move
  <2> QED BY <1>4, <1>7, <2>1, <2>2, <2>3 DEF LoadGarbled, Forgetting
<1>8. CASE ResetFails(c)
  <2>1. HeldInUse'
    BY <1>1, <1>8 DEF ResetFails, Move, Forgetting, HeldInUse, Holding, Wire, Resetting
  <2>2. \A d \in Lines : line'[d] = "clearing" => line[d] = "clearing"
    BY <1>1, <1>8 DEF ResetFails, Move
  <2> QED BY <1>4, <1>8, <2>1, <2>2 DEF ResetFails, Forgetting
<1>9. CASE Reset(c)
  <2>1. LastLinked' /\ HeldInUse'
    BY <1>9 DEF Reset, Release, Forgetting, LastLinked, HeldInUse
  <2>2. ~Overtaken' => ~Overtaken /\ storing = {} /\ saving = {}
    BY <1>9 DEF Reset, Overtaken
  <2>3. \A d \in Lines : held'[d] \in {held[d], Empty}
    BY <1>9 DEF Reset, Release
  <2>4. NoneOld'
    BY <1>9, <2>2, <2>3, OldIsNumbered DEF Reset, Forgetting, NoneOld, Old
  <2>5. Emptied'
    BY <1>9, <2>2 DEF Reset, Emptied
  <2> QED BY <2>1, <2>4, <2>5 DEF Forgetting
<1> QED BY <1>2, <1>3, <1>5, <1>6, <1>7, <1>8, <1>9 DEF Disturbance

LEMMA ElsewhereForgets ==
    ASSUME TypeOK, Forgetting, Elsewhere
    PROVE  Forgetting'
<1> USE DEF process, counters, connections, pending, stores, past
<1>1. CASE Crash \/ Exit
  BY <1>1, DieForgets DEF Crash, Exit
<1>2. CASE Terminate
  <2>1. LastLinked' /\ HeldInUse'
    BY <1>2 DEF Terminate, Release, Forgetting, LastLinked, HeldInUse
  <2>2. \A d \in Lines : held'[d] \in {held[d], Empty}
    BY <1>2 DEF Terminate, Release
  <2>3. saving' \subseteq saving \cup {<<"event", disk>>}
    BY <1>2 DEF Terminate
  <2>4. NoneOld'
    BY <1>2, <2>2, <2>3, OldIsNumbered DEF Terminate, Forgetting, NoneOld, Overtaken, Old
  <2>5. \A d \in Lines : line'[d] = "clearing" => line[d] = "clearing"
    BY <1>2 DEF Terminate
  <2>6. Emptied'
    BY <1>2, <2>3, <2>5 DEF Terminate, Forgetting, Emptied, Overtaken
  <2> QED BY <2>1, <2>4, <2>6 DEF Forgetting
<1>3. CASE LoseDisk
  <2>1. LastLinked' /\ HeldInUse'
    BY <1>3 DEF LoseDisk, Forgetting, LastLinked, HeldInUse
  <2>2. NoneOld' /\ Emptied'
    BY <1>3, OldIsNumbered DEF LoseDisk, Forgetting, NoneOld, Emptied, Overtaken, Old
  <2> QED BY <2>1, <2>2 DEF Forgetting
<1>4. ASSUME UNCHANGED <<line, held, paired, forgotten, mishaps>>,
             storing' \subseteq storing,
             saving' \subseteq saving \cup {<<"event", disk'>>, <<"timer", disk>>},
             \/ UNCHANGED stores
             \/ disk' = disk /\ \E w \in saving : db' = w[2]
             \/ db' = db /\ \E w \in storing : disk' = w[2]
      PROVE  Forgetting'
  <2>1. LastLinked' /\ HeldInUse'
    BY <1>4 DEF Forgetting, LastLinked, HeldInUse
  <2>2. ~Overtaken' => disk' \notin Old /\ db' \notin Old
    BY <1>4 DEF Forgetting, NoneOld, Overtaken
  <2>3. NoneOld'
    BY <1>4, <2>2 DEF Forgetting, NoneOld, Overtaken, Old
  <2>4. Emptied'
    <3> SUFFICES ASSUME ~Overtaken', NEW d \in Lines, line'[d] = "clearing"
                 PROVE  disk' = Empty /\ storing' = {} /\ \A w \in saving' : w[2] = Empty
      BY DEF Emptied
    <3>1. disk = Empty /\ storing = {} /\ \A w \in saving : w[2] = Empty
      BY <1>4 DEF Forgetting, Emptied, Overtaken
    <3>2. disk' = Empty
      BY <1>4, <3>1
    <3> QED BY <1>4, <3>1, <3>2
  <2> QED BY <2>1, <2>3, <2>4 DEF Forgetting
<1>5. CASE \E c \in Lines : Greeted(c)
  BY <1>4, <1>5 DEF Greeted
<1>6. CASE \E w \in storing : StoreCreds(w)
  BY <1>4, <1>6 DEF StoreCreds
<1>7. CASE \E w \in saving : SaveCredentials(w)
  BY <1>4, <1>7 DEF SaveCredentials
<1>8. CASE PeriodicPersist \/ \E w \in saving : SaveFails(w)
  BY <1>4, <1>8 DEF PeriodicPersist, SaveFails
<1> QED
  BY <1>1, <1>2, <1>3, <1>5, <1>6, <1>7, <1>8 DEF Elsewhere, Persist

LEMMA ForgettingAlways == Spec => []Forgetting
<1>1. Init => Forgetting
  BY DEF Init, Forgetting, LastLinked, HeldInUse, NoneOld, Emptied, Old, Empty
<1>2. TypeOK /\ Single /\ Forgetting /\ [Next]_vars => Forgetting'
  <2> SUFFICES ASSUME TypeOK, Single, Forgetting, [Next]_vars PROVE Forgetting'
    OBVIOUS
  <2> USE DEF process, counters, connections, pending, stores, past
  <2>1. ASSUME NEW c \in Lines, Boot(c) PROVE Forgetting'
    <3>1. LastLinked'
      BY <2>1 DEF Boot, Forgetting, LastLinked
    <3>2. HeldInUse'
      BY <2>1 DEF Boot, Move, Hold, Forgetting, HeldInUse, Holding, TypeOK, Busy
    <3>3. NoneOld'
      BY <2>1 DEF Boot, Hold, Forgetting, NoneOld, Overtaken, Old, TypeOK
    <3>4. Emptied'
      BY <2>1 DEF Boot, Move, Emptied, TypeOK, Busy
    <3> QED BY <3>1, <3>2, <3>3, <3>4 DEF Forgetting
  <2>2. CASE UNCHANGED vars
    BY <2>2 DEF vars, Forgetting, LastLinked, HeldInUse, NoneOld, Emptied, Overtaken, Old
  <2> QED BY <2>1, <2>2, AdvanceForgets, DisturbanceForgets, ElsewhereForgets, NextCases
<1> QED BY <1>1, <1>2, BridgeTypeCorrect, SingleAlways, PTL DEF Spec

(* What a reset forgot stays forgotten, whatever crashes, restores and late
   saves follow, unless the reset overtook a line or a write under way.      *)
THEOREM ForgottenAlways == Spec => []Forgotten
<1>1. Forgetting => Forgotten
  BY DEF Forgetting, NoneOld, Overtaken, Old, Forgotten, Wire
<1> QED BY <1>1, ForgettingAlways, PTL

-----------------------------------------------------------------------------
(* What makes KeptUntilReset inductive.  Without a mishap one account is in use,
   the last that was linked: a line may take up credentials without one, and
   write them, only where no store has an account, the backup has one only when
   the directory has it, or is about to be restored or cleared, and a start-up
   works on a directory nothing else writes.                                 *)
NoBackup == db \notin Accounts /\ \A w \in saving : w[2] \notin Accounts
Blank    == disk \notin Accounts /\ NoBackup /\ \A w \in storing : w[2] \notin Accounts

AtWork     == {"fetching"} \cup Wire
Latest(v)  == v \in Accounts => v = paired
At(stages) == \E c \in Lines : line[c] \in stages

OneAccount ==
    /\ Latest(disk) /\ Latest(db) /\ \A c \in Lines : Latest(held[c])
    /\ \A w \in storing \cup saving : Latest(w[2])
NewOnlyIfNone ==
    \A c \in Lines : line[c] \in AtWork =>
        /\ held[c] # Empty /\ (held[c] = 0 => Blank)
        /\ storing \subseteq {<<c, held[c]>>}
FirstWrites == \A w \in storing : w[2] # Empty /\ (w[2] = 0 => Blank)
BackupBehind ==
    /\ disk = 0 => NoBackup
    /\ up /\ disk = Empty /\ ~At({"loading", "loaded", "clearing"}) /\ (Busy = {} => ~resetFailed)
          => NoBackup
Restoring ==
    /\ At(Starting) => sock = NoLine /\ greeting = {} /\ storing = {} /\ saving = {}
    /\ \A c \in Lines :
         /\ line[c] = "backing" => held[c] = disk /\ disk # Empty
         /\ line[c] = "loading" => disk = Empty
         /\ line[c] = "loaded" => disk = Empty /\ held[c] = db

Keeps == OneAccount /\ NewOnlyIfNone /\ FirstWrites /\ BackupBehind /\ Restoring

Calm == TypeOK /\ Single /\ Forgetting /\ mishaps = {} /\ Keeps

LEMMA NoAccount == Empty \notin Accounts /\ 0 \notin Accounts /\ Empty # 0 /\ Empty \in Creds
BY BoundsAssumption DEF Empty, Accounts, Creds

LEMMA Alone ==
    ASSUME Calm, NEW c \in Busy
    PROVE  /\ \A d \in Lines : d # c => line[d] = "idle" /\ held[d] = Empty
           /\ c \in Lines /\ Busy = {c} /\ up
BY DEF Calm, Single, Forgetting, HeldInUse, Busy, Holding, Wire, TypeOK

LEMMA CalmTypes ==
    ASSUME Calm
    PROVE  /\ line \in [Lines -> Stages] /\ held \in [Lines -> Creds]
           /\ disk \in Creds /\ db \in Creds /\ paired \in 0..MaxPairings
           /\ storing \subseteq Lines \X Creds /\ saving \subseteq {"event", "timer"} \X Creds
BY DEF Calm, TypeOK

(* A line moves on, and the stores and what is on its way to them stay. *)
LEMMA QuietKeeps ==
    ASSUME Calm, NEW c \in Busy, NEW s,
           line' = [line EXCEPT ![c] = s], s \notin Starting,
           line[c] \notin {"loading", "loaded", "clearing"},
           \A d \in Lines : held'[d] \in {held[d], Empty},
           s \in AtWork => line[c] \in AtWork /\ held'[c] = held[c],
           UNCHANGED <<disk, db, storing, saving, paired>>
    PROVE  Keeps'
<1>1. /\ \A d \in Lines : d # c => line[d] = "idle" /\ held[d] = Empty
      /\ c \in Lines /\ Busy = {c} /\ up /\ line \in [Lines -> Stages]
  BY Alone, CalmTypes
<1>2. line'[c] = s /\ \A d \in Lines : d # c => line'[d] = "idle"
  BY <1>1
<1>3. Keeps
  BY DEF Calm
<1>4. OneAccount'
  BY <1>3, NoAccount DEF Keeps, OneAccount, Latest
<1>5. Blank' <=> Blank
  BY DEF Blank, NoBackup
<1>6. NewOnlyIfNone'
  BY <1>1, <1>2, <1>3, <1>5 DEF Keeps, NewOnlyIfNone, AtWork, Wire
<1>7. FirstWrites'
  BY <1>3, <1>5 DEF Keeps, FirstWrites
<1>8. disk = Empty => NoBackup
  BY <1>1, <1>3 DEF Keeps, BackupBehind, At
<1>9. BackupBehind'
  BY <1>3, <1>8 DEF Keeps, BackupBehind, NoBackup
<1>10. Restoring'
  BY <1>2 DEF Restoring, At, Starting
<1> QED BY <1>4, <1>6, <1>7, <1>9, <1>10 DEF Keeps

(* The process is gone: only the stores are left. *)
LEMMA DieKeeps ==
    ASSUME Calm, Die, UNCHANGED <<disk, db, paired>>
    PROVE  Keeps'
<1>1. Keeps
  BY DEF Calm
<1>2. OneAccount'
  BY <1>1, NoAccount DEF Keeps, OneAccount, Latest, Die
<1>3. NewOnlyIfNone' /\ FirstWrites' /\ Restoring'
  BY DEF NewOnlyIfNone, FirstWrites, Restoring, At, Die, AtWork, Wire, Starting
<1>4. BackupBehind'
  BY <1>1 DEF Keeps, BackupBehind, NoBackup, Die
<1> QED BY <1>2, <1>3, <1>4 DEF Keeps

(* A backup of the directory is added, or one is dropped. *)
LEMMA BackupKeeps ==
    ASSUME Calm, ~At(Starting),
           \A w \in saving' : w \in saving \/ w[2] = disk,
           \A d \in Lines : line'[d] = line[d] /\ held'[d] = held[d],
           UNCHANGED <<up, disk, db, storing, paired, resetFailed>>
    PROVE  Keeps'
<1>1. Keeps
  BY DEF Calm
<1>2. OneAccount'
  BY <1>1 DEF Keeps, OneAccount, Latest
<1>3. disk \notin Accounts /\ NoBackup => NoBackup'
  BY DEF NoBackup
<1>4. Blank => Blank'
  BY <1>3 DEF Blank
<1>5. NewOnlyIfNone'
  BY <1>1, <1>4 DEF Keeps, NewOnlyIfNone
<1>6. FirstWrites'
  BY <1>1, <1>4 DEF Keeps, FirstWrites
<1>7. Busy' = Busy /\ \A stages : At(stages)' <=> At(stages)
  BY DEF Busy, At
<1>8. BackupBehind'
  BY <1>1, <1>3, <1>7, NoAccount DEF Keeps, BackupBehind, At
<1>9. Restoring'
  BY <1>1 DEF Keeps, Restoring, At, Starting
<1> QED BY <1>2, <1>5, <1>6, <1>8, <1>9 DEF Keeps

LEMMA AdvanceKeeps ==
    ASSUME Calm, NEW c \in Lines, Advance(c)
    PROVE  Keeps'
<1> USE DEF process, counters, connections, pending, stores, past
<1>1. c \in Busy
  BY DEF Advance, BootSaves, Load, Restore, ReadAuthState, MakeSocket, ReconnectAtOnce,
         LoggedOut, Dropped, DroppedTooOften, TimerFires, ResetClears, ResetConnects, Busy
<1>2. /\ \A d \in Lines : d # c => line[d] = "idle" /\ held[d] = Empty
      /\ Busy = {c} /\ up
  BY <1>1, Alone
<1>3. /\ line \in [Lines -> Stages] /\ held \in [Lines -> Creds]
      /\ disk \in Creds /\ db \in Creds /\ paired \in 0..MaxPairings
      /\ saving \subseteq {"event", "timer"} \X Creds
  BY CalmTypes
<1>4. Keeps /\ HeldInUse /\ Emptied /\ mishaps = {} /\ ~Overtaken
  BY DEF Calm, Forgetting, Overtaken
<1>5. CASE DroppedTooOften(c)
  BY <1>5, DieKeeps DEF DroppedTooOften
<1>6. CASE MakeSocket(c) \/ ReconnectAtOnce(c) \/ Dropped(c) \/ TimerFires(c) \/ ResetConnects(c)
  <2>1. PICK s : /\ line' = [line EXCEPT ![c] = s] /\ s \notin Starting
                 /\ s \in AtWork => line[c] \in AtWork
                 /\ line[c] \notin {"loading", "loaded", "clearing"}
    BY <1>6 DEF MakeSocket, ReconnectAtOnce, Dropped, TimerFires, ResetConnects, Move,
                Starting, AtWork, Wire
  <2>2. UNCHANGED <<held, disk, db, storing, saving, paired>>
    BY <1>6 DEF MakeSocket, ReconnectAtOnce, Dropped, TimerFires, ResetConnects
  <2> QED BY <1>1, <2>1, <2>2, QuietKeeps
<1>7. CASE LoggedOut(c)
  <2>1. PICK s \in {"idle", "waiting"} : line' = [line EXCEPT ![c] = s]
    BY <1>7 DEF LoggedOut, Move
  <2>2. /\ line[c] = "loggedOut" /\ s \notin Starting /\ s \notin AtWork
        /\ UNCHANGED <<held, disk, db, storing, saving, paired>>
    BY <1>7, <2>1 DEF LoggedOut, Starting, AtWork, Wire
  <2> QED BY <1>1, <2>1, <2>2, QuietKeeps
<1>8. ASSUME NEW s, Move(c, s), s \notin AtWork
      PROVE  /\ line'[c] = s /\ (\A d \in Lines : d # c => line'[d] = "idle")
             /\ NewOnlyIfNone'
  <2>1. line'[c] = s /\ \A d \in Lines : d # c => line'[d] = "idle"
    BY <1>2, <1>3, <1>8 DEF Move
  <2>2. NewOnlyIfNone'
    BY <1>8, <2>1 DEF NewOnlyIfNone, AtWork, Wire
  <2> QED BY <2>1, <2>2
<1>9. CASE BootSaves(c)
  <2>1. /\ line[c] = "backing" /\ db' = disk /\ disk # Empty /\ disk' = disk
        /\ storing = {} /\ saving = {} /\ storing' = {} /\ saving' = {} /\ paired' = paired
        /\ Move(c, "reading") /\ Release
    BY <1>4, <1>9 DEF BootSaves, Keeps, Restoring, At, Starting
  <2>2. /\ line'[c] = "reading" /\ (\A d \in Lines : d # c => line'[d] = "idle")
        /\ NewOnlyIfNone'
    BY <1>8, <2>1 DEF AtWork, Wire
  <2>3. \A d \in Lines : held'[d] = Empty
    BY <2>1, <2>2 DEF Release, Holding, Wire
  <2>4. OneAccount'
    BY <1>4, <2>1, <2>3, NoAccount DEF Keeps, OneAccount, Latest
  <2>5. BackupBehind'
    BY <2>1, NoAccount DEF BackupBehind, NoBackup
  <2>6. FirstWrites' /\ Restoring'
    BY <2>1, <2>2 DEF FirstWrites, Restoring, At, Starting
  <2> QED BY <2>2, <2>4, <2>5, <2>6 DEF Keeps
<1>10. CASE Load(c)
  <2>1. /\ line[c] = "loading" /\ disk = Empty /\ held' = [held EXCEPT ![c] = db]
        /\ sock = NoLine /\ greeting = {} /\ storing = {} /\ saving = {}
        /\ UNCHANGED <<sock, greeting, storing, saving, disk, db, paired>>
        /\ Move(c, "loaded")
    BY <1>4, <1>10 DEF Load, Hold, Keeps, Restoring, At, Starting
  <2>2. /\ line'[c] = "loaded" /\ (\A d \in Lines : d # c => line'[d] = "idle")
        /\ NewOnlyIfNone'
    BY <1>8, <2>1 DEF AtWork, Wire
  <2>3. held'[c] = db /\ \A d \in Lines : d # c => held'[d] = Empty
    BY <1>2, <1>3, <2>1
  <2>4. OneAccount'
    BY <1>4, <2>1, <2>3, NoAccount DEF Keeps, OneAccount, Latest
  <2>5. FirstWrites'
    BY <2>1 DEF FirstWrites
  <2>6. BackupBehind'
    BY <2>1, <2>2, NoAccount DEF BackupBehind, At
  <2>7. Restoring'
    BY <2>1, <2>2, <2>3 DEF Restoring
  <2> QED BY <2>2, <2>4, <2>5, <2>6, <2>7 DEF Keeps
<1>11. CASE Restore(c)
  <2>1. /\ line[c] = "loaded" /\ disk = Empty /\ held[c] = db /\ disk' = db
        /\ storing = {} /\ saving = {}
        /\ UNCHANGED <<storing, saving, db, paired>>
        /\ Move(c, "reading") /\ Release
    BY <1>4, <1>11 DEF Restore, Keeps, Restoring, At, Starting
  <2>2. /\ line'[c] = "reading" /\ (\A d \in Lines : d # c => line'[d] = "idle")
        /\ NewOnlyIfNone'
    BY <1>8, <2>1 DEF AtWork, Wire
  <2>3. \A d \in Lines : held'[d] = Empty
    BY <2>1, <2>2 DEF Release, Holding, Wire
  <2>4. OneAccount'
    BY <1>4, <2>1, <2>3, NoAccount DEF Keeps, OneAccount, Latest
  <2>5. BackupBehind'
    BY <2>1, NoAccount DEF BackupBehind, NoBackup
  <2>6. FirstWrites' /\ Restoring'
    BY <2>1, <2>2 DEF FirstWrites, Restoring, At, Starting
  <2> QED BY <2>2, <2>4, <2>5, <2>6 DEF Keeps
<1>12. CASE ReadAuthState(c)
  <2>1. /\ line[c] = "reading" /\ storing = {}
        /\ held' = [held EXCEPT ![c] = IF disk = Empty THEN 0 ELSE disk]
        /\ line' = [line EXCEPT ![c] = "fetching"]
        /\ UNCHANGED <<storing, saving, disk, db, paired>>
    BY <1>12 DEF ReadAuthState, Hold, Move
  <2>2. /\ line'[c] = "fetching" /\ (\A d \in Lines : d # c => line'[d] = "idle")
        /\ held'[c] = (IF disk = Empty THEN 0 ELSE disk)
        /\ \A d \in Lines : d # c => held'[d] = Empty
    BY <1>2, <1>3, <2>1
  <2>3. disk = Empty => NoBackup
    <3>1. ~At({"loading", "loaded", "clearing"})
      BY <1>2, <2>1 DEF At
    <3> QED BY <1>2, <1>4, <3>1 DEF Keeps, BackupBehind
  <2>4. held'[c] = 0 => Blank
    BY <1>4, <2>1, <2>2, <2>3, NoAccount DEF Keeps, BackupBehind, Blank
  <2>5. Blank' <=> Blank
    BY <2>1 DEF Blank, NoBackup
  <2>6. NewOnlyIfNone'
    BY <2>1, <2>2, <2>4, <2>5, NoAccount DEF NewOnlyIfNone, AtWork, Wire
  <2>7. OneAccount'
    BY <1>4, <2>1, <2>2, NoAccount DEF Keeps, OneAccount, Latest
  <2>8. BackupBehind'
    BY <1>4, <2>1, <2>3 DEF Keeps, BackupBehind, NoBackup
  <2>9. FirstWrites' /\ Restoring'
    BY <2>1, <2>2 DEF FirstWrites, Restoring, At, Starting
  <2> QED BY <2>6, <2>7, <2>8, <2>9 DEF Keeps
<1>13. CASE ResetClears(c)
  <2>1. /\ line[c] = "clearing" /\ disk = Empty /\ storing = {} /\ \A w \in saving : w[2] = Empty
        /\ db' = Empty /\ UNCHANGED <<storing, saving, disk, paired, held>> /\ Move(c, "noting")
    BY <1>4, <1>13 DEF ResetClears, Emptied
  <2>2. /\ line'[c] = "noting" /\ (\A d \in Lines : d # c => line'[d] = "idle")
        /\ NewOnlyIfNone'
    BY <1>8, <2>1 DEF AtWork, Wire
  <2>3. OneAccount'
    BY <1>4, <2>1, NoAccount DEF Keeps, OneAccount, Latest
  <2>4. NoBackup'
    BY <2>1, NoAccount DEF NoBackup
  <2>5. BackupBehind'
    BY <2>4 DEF BackupBehind
  <2>6. FirstWrites' /\ Restoring'
    BY <2>1, <2>2 DEF FirstWrites, Restoring, At, Starting
  <2> QED BY <2>2, <2>3, <2>5, <2>6 DEF Keeps
<1> QED BY <1>5, <1>6, <1>7, <1>9, <1>10, <1>11, <1>12, <1>13 DEF Advance

LEMMA DisturbanceKeeps ==
    ASSUME Calm, NEW c \in Lines, Disturbance(c), mishaps' = {}
    PROVE  Keeps'
<1> USE DEF process, counters, connections, pending, stores, past
<1>1. /\ line \in [Lines -> Stages] /\ held \in [Lines -> Creds]
      /\ disk \in Creds /\ db \in Creds /\ paired \in 0..MaxPairings
      /\ saving \subseteq {"event", "timer"} \X Creds
  BY CalmTypes
<1>2. Keeps /\ HeldInUse /\ Emptied /\ mishaps = {} /\ ~Overtaken
  BY DEF Calm, Forgetting, Overtaken
<1>3. CASE Established(c) \/ ResetFails(c)
  <2>1. CASE Established(c)
    <3>1. /\ line' = [line EXCEPT ![c] = "open"] /\ line[c] = "opening" /\ c \in Busy
          /\ UNCHANGED <<held, disk, db, storing, saving, paired>>
      BY <2>1 DEF Established, Move, Busy
    <3> QED BY <3>1, QuietKeeps DEF AtWork, Wire, Starting
  <2>2. CASE ResetFails(c)
    <3>1. /\ line' = [line EXCEPT ![c] = "idle"] /\ line[c] \in Resetting /\ c \in Busy
          /\ UNCHANGED <<held, disk, db, storing, saving, paired>> /\ resetFailed' = TRUE
      BY <2>2 DEF ResetFails, Move, Busy, Resetting
    <3>2. \A d \in Lines : line'[d] = "idle"
      BY <1>1, <3>1, Alone
    <3>3. Busy' = {}
      BY <3>2 DEF Busy
    <3>4. OneAccount'
      BY <1>2, <3>1 DEF Keeps, OneAccount, Latest
    <3>5. Blank' <=> Blank
      BY <3>1 DEF Blank, NoBackup
    <3>6. FirstWrites'
      BY <1>2, <3>1, <3>5 DEF Keeps, FirstWrites
    <3>7. BackupBehind'
      BY <1>2, <3>1, <3>3 DEF Keeps, BackupBehind, NoBackup
    <3>8. NewOnlyIfNone' /\ Restoring'
      BY <3>2 DEF NewOnlyIfNone, Restoring, At, AtWork, Wire, Starting
    <3> QED BY <3>4, <3>6, <3>7, <3>8 DEF Keeps
  <2> QED BY <1>3, <2>1, <2>2
<1>4. CASE ClosedForShutdown(c) \/ \E reason \in Reasons : Closed(c, reason)
  <2>1. PICK s \in {"idle"} \cup Reasons : line' = [line EXCEPT ![c] = s] /\ Release
    BY <1>4 DEF ClosedForShutdown, Closed, Move
  <2>2. /\ c \in Live /\ UNCHANGED <<disk, db, storing, saving, paired>>
    BY <1>4 DEF ClosedForShutdown, Closed
  <2>3. \A d \in Lines : held'[d] \in {held[d], Empty}
    BY <2>1 DEF Release
  <2>4. c \in Busy /\ line[c] \notin {"loading", "loaded", "clearing"}
        /\ s \notin Starting /\ s \notin AtWork
    BY <2>1, <2>2 DEF Live, Busy, Wire, Starting, AtWork, Reasons
  <2> QED BY <2>1, <2>2, <2>3, <2>4, QuietKeeps
<1>5. CASE LoadGarbled(c)
  BY <1>5 DEF LoadGarbled
<1>6. CASE Pair(c)
  <2>1. /\ line[c] = "opening" /\ held[c] = 0 /\ paired' = paired + 1 /\ paired < MaxPairings
        /\ held' = [held EXCEPT ![c] = paired'] /\ line' = [line EXCEPT ![c] = "linked"]
        /\ storing' = {w \in storing : w[1] # c} \cup {<<c, paired'>>}
        /\ UNCHANGED <<disk, db, saving, up>> /\ c \in Busy
    BY <1>6 DEF Pair, Hold, Move, Busy
  <2>2. /\ Blank /\ storing \subseteq {<<c, held[c]>>}
    BY <1>2, <2>1 DEF Keeps, NewOnlyIfNone, AtWork, Wire
  <2>3. storing' = {<<c, paired'>>}
    BY <2>1, <2>2
  <2>4. /\ line'[c] = "linked" /\ held'[c] = paired'
        /\ \A d \in Lines : d # c => line'[d] = "idle" /\ held'[d] = Empty /\ line[d] = "idle"
    BY <1>1, <2>1, Alone
  <2>5. paired' \in Accounts /\ paired' # 0 /\ paired' # Empty
    BY <1>1, <2>1, BoundsAssumption DEF Accounts, Empty
  <2>6. OneAccount'
    BY <2>1, <2>2, <2>3, <2>4, NoAccount DEF OneAccount, Latest, Blank, NoBackup
  <2>7. NewOnlyIfNone'
    BY <2>3, <2>4, <2>5 DEF NewOnlyIfNone, AtWork, Wire
  <2>8. FirstWrites'
    BY <2>3, <2>5 DEF FirstWrites
  <2>9. NoBackup'
    BY <2>1, <2>2 DEF Blank, NoBackup
  <2>10. BackupBehind'
    BY <2>9 DEF BackupBehind
  <2>11. Restoring'
    BY <2>4 DEF Restoring, At, Starting
  <2> QED BY <2>6, <2>7, <2>8, <2>10, <2>11 DEF Keeps
<1>7. CASE CredsUpdate(c)
  <2>1. /\ line[c] \in Wire /\ storing' = storing \cup {<<c, held[c]>>} /\ c \in Busy
        /\ UNCHANGED <<line, held, disk, db, saving, up, paired, resetFailed>>
    BY <1>7 DEF CredsUpdate, Live, Busy, Wire
  <2>2. /\ storing \subseteq {<<c, held[c]>>} /\ held[c] # Empty /\ (held[c] = 0 => Blank)
    BY <1>2, <2>1 DEF Keeps, NewOnlyIfNone, AtWork
  <2>3. storing' = {<<c, held[c]>>}
    BY <2>1, <2>2
  <2>4. held[c] = 0 => Blank'
    BY <2>1, <2>2, <2>3, NoAccount DEF Blank, NoBackup
  <2>5. OneAccount'
    BY <1>2, <2>1, <2>3 DEF Keeps, OneAccount, Latest
  <2>6. \A d \in Lines : d # c => line[d] = "idle"
    BY <2>1, Alone
  <2>7. NewOnlyIfNone'
    BY <2>1, <2>2, <2>3, <2>4, <2>6 DEF NewOnlyIfNone, AtWork, Wire
  <2>8. FirstWrites'
    BY <2>2, <2>3, <2>4 DEF FirstWrites
  <2>9. BackupBehind'
    BY <1>2, <2>1 DEF Keeps, BackupBehind, NoBackup, At, Busy
  <2>10. Restoring'
    BY <2>1, <2>6 DEF Restoring, At, Starting, Wire
  <2> QED BY <2>5, <2>7, <2>8, <2>9, <2>10 DEF Keeps
<1>8. CASE Reset(c)
  <2>1. /\ Busy \subseteq Live \cap {sock} /\ storing = {} /\ saving = {}
        /\ UNCHANGED <<storing, saving, db, paired>> /\ disk' = Empty
        /\ line' = [d \in Lines |-> IF d = c THEN "clearing" ELSE AfterReset(d)]
        /\ Release
    BY <1>8 DEF Reset
  <2>2. /\ line'[c] = "clearing" /\ \A d \in Lines : d # c => line'[d] = "idle"
    BY <2>1 DEF AfterReset, Busy
  <2>3. \A d \in Lines : held'[d] = Empty
    BY <2>1, <2>2 DEF Release, Holding, Wire
  <2>4. OneAccount'
    BY <1>2, <2>1, <2>3, NoAccount DEF Keeps, OneAccount, Latest
  <2>5. NewOnlyIfNone' /\ FirstWrites' /\ Restoring'
    BY <2>1, <2>2 DEF NewOnlyIfNone, FirstWrites, Restoring, At, AtWork, Wire, Starting
  <2>6. BackupBehind'
    BY <2>1, <2>2, NoAccount DEF BackupBehind, At
  <2> QED BY <2>4, <2>5, <2>6 DEF Keeps
<1> QED BY <1>3, <1>4, <1>5, <1>6, <1>7, <1>8 DEF Disturbance

LEMMA ElsewhereKeeps ==
    ASSUME Calm, Elsewhere, mishaps' = {}
    PROVE  Keeps'
<1> USE DEF process, counters, connections, pending, stores, past
<1>1. /\ line \in [Lines -> Stages] /\ held \in [Lines -> Creds]
      /\ disk \in Creds /\ db \in Creds /\ paired \in 0..MaxPairings
  BY CalmTypes
<1>2. Keeps /\ HeldInUse
  BY DEF Calm, Forgetting
<1>3. CASE \E c \in Lines : Greeted(c)
  <2>1. ~At(Starting)
    BY <1>2, <1>3 DEF Keeps, Restoring, Greeted
  <2>2. /\ \A w \in saving' : w \in saving \/ w[2] = disk
        /\ UNCHANGED <<line, held, up, disk, db, storing, paired, resetFailed>>
    BY <1>3 DEF Greeted
  <2> QED BY <2>1, <2>2, BackupKeeps
<1>4. CASE PeriodicPersist
  <2>1. ~At(Starting)
    BY <1>2, <1>4 DEF Keeps, Restoring, PeriodicPersist
  <2>2. /\ \A w \in saving' : w \in saving \/ w[2] = disk
        /\ UNCHANGED <<line, held, up, disk, db, storing, paired, resetFailed>>
    BY <1>4 DEF PeriodicPersist
  <2> QED BY <2>1, <2>2, BackupKeeps
<1>5. CASE \E w \in saving : SaveFails(w)
  <2>1. ~At(Starting)
    BY <1>2, <1>5 DEF Keeps, Restoring
  <2>2. /\ \A w \in saving' : w \in saving \/ w[2] = disk
        /\ UNCHANGED <<line, held, up, disk, db, storing, paired, resetFailed>>
    BY <1>5 DEF SaveFails
  <2> QED BY <2>1, <2>2, BackupKeeps
<1>6. CASE \E w \in storing : StoreCreds(w)
  <2>1. PICK w \in storing : StoreCreds(w)
    BY <1>6
  <2>2. PICK v : v = w[2]
    OBVIOUS
  <2>3. /\ storing' = storing \ {w} /\ disk' = v /\ saving' = saving \cup {<<"event", v>>}
        /\ UNCHANGED <<line, held, up, db, paired, resetFailed, sock, greeting>>
    BY <2>1, <2>2 DEF StoreCreds
  <2>4. v # Empty /\ (v = 0 => Blank) /\ Latest(v) /\ ~At(Starting)
    BY <1>2, <2>2 DEF Keeps, FirstWrites, OneAccount, Restoring
  <2>5. Blank => v \notin Accounts
    BY <2>2 DEF Blank
  <2>6. Blank => Blank'
    BY <2>3, <2>5 DEF Blank, NoBackup
  <2>7. OneAccount'
    BY <1>2, <2>3, <2>4 DEF Keeps, OneAccount, Latest
  <2>8. NewOnlyIfNone'
    BY <1>2, <2>3, <2>6 DEF Keeps, NewOnlyIfNone
  <2>9. FirstWrites'
    BY <1>2, <2>3, <2>6 DEF Keeps, FirstWrites
  <2>10. BackupBehind'
    BY <2>3, <2>4, <2>6 DEF BackupBehind, Blank
  <2>11. Restoring'
    BY <2>3, <2>4 DEF Restoring, At, Starting
  <2> QED BY <2>7, <2>8, <2>9, <2>10, <2>11 DEF Keeps
<1>7. CASE \E w \in saving : SaveCredentials(w)
  <2>1. PICK w \in saving : SaveCredentials(w)
    BY <1>7
  <2>2. /\ saving' = saving \ {w} /\ db' = w[2]
        /\ UNCHANGED <<line, held, up, disk, storing, paired, resetFailed, sock, greeting>>
    BY <2>1 DEF SaveCredentials
  <2>3. ~At(Starting)
    BY <1>2, <2>1 DEF Keeps, Restoring
  <2>4. NoBackup => NoBackup'
    BY <2>2 DEF NoBackup
  <2>5. Blank => Blank'
    BY <2>2, <2>4 DEF Blank
  <2>6. OneAccount'
    BY <1>2, <2>2 DEF Keeps, OneAccount, Latest
  <2>7. NewOnlyIfNone' /\ FirstWrites'
    BY <1>2, <2>2, <2>5 DEF Keeps, NewOnlyIfNone, FirstWrites
  <2>8. BackupBehind'
    BY <1>2, <2>2, <2>4 DEF Keeps, BackupBehind, At, Busy
  <2>9. Restoring'
    BY <2>2, <2>3 DEF Restoring, At, Starting
  <2> QED BY <2>6, <2>7, <2>8, <2>9 DEF Keeps
<1>8. CASE Crash \/ Exit
  BY <1>8, DieKeeps DEF Crash, Exit
<1>9. CASE LoseDisk
  <2>1. /\ ~up /\ disk' = Empty /\ Busy = {} /\ storing = {} /\ saving = {}
        /\ UNCHANGED <<line, held, db, storing, saving, paired, up>>
    BY <1>9 DEF LoseDisk, Calm, TypeOK
  <2>2. OneAccount'
    BY <1>2, <2>1, NoAccount DEF Keeps, OneAccount, Latest
  <2>3. \A c \in Lines : line[c] = "idle"
    BY <2>1 DEF Busy
  <2>4. NewOnlyIfNone' /\ FirstWrites' /\ Restoring'
    BY <2>1, <2>3 DEF NewOnlyIfNone, FirstWrites, Restoring, At, AtWork, Wire, Starting
  <2>5. BackupBehind'
    BY <2>1, NoAccount DEF BackupBehind
  <2> QED BY <2>2, <2>4, <2>5 DEF Keeps
<1>10. CASE Terminate
  <2>1. CASE sock \in Live
    <3>1. /\ line' = [line EXCEPT ![sock] = "idle"] /\ Release /\ sock \in Lines
          /\ saving' = saving \cup {<<"event", disk>>}
          /\ UNCHANGED <<up, disk, db, storing, paired, resetFailed>>
      BY <1>1, <1>10, <2>1, NoLineAssumption DEF Terminate, Live
    <3>2. line[sock] \in Wire /\ sock \in Busy
      BY <2>1 DEF Live, Busy, Wire
    <3>3. \A d \in Lines : line'[d] = "idle"
      BY <1>1, <3>1, <3>2, Alone
    <3>4. \A d \in Lines : held'[d] = Empty
      BY <3>1, <3>3 DEF Release, Holding, Wire
    <3>5. OneAccount'
      BY <1>2, <3>1, <3>4, NoAccount DEF Keeps, OneAccount, Latest
    <3>6. disk \notin Accounts /\ NoBackup => NoBackup'
      BY <3>1 DEF NoBackup
    <3>7. Blank => Blank'
      BY <3>1, <3>6 DEF Blank
    <3>8. FirstWrites'
      BY <1>2, <3>1, <3>7 DEF Keeps, FirstWrites
    <3>9. disk = Empty => NoBackup
      <4>1. ~At({"loading", "loaded", "clearing"}) /\ Busy # {} /\ up
        BY <3>2, Alone DEF At, Wire
      <4> QED BY <1>2, <4>1 DEF Keeps, BackupBehind
    <3>10. BackupBehind'
      BY <1>2, <3>1, <3>6, <3>9, NoAccount DEF Keeps, BackupBehind
    <3>11. NewOnlyIfNone' /\ Restoring'
      BY <3>3 DEF NewOnlyIfNone, Restoring, At, AtWork, Wire, Starting
    <3> QED BY <3>5, <3>8, <3>10, <3>11 DEF Keeps
  <2>2. CASE sock \notin Live
    <3>1. /\ \A d \in Lines : line'[d] = line[d]
          /\ saving' = IF sock = NoLine THEN saving ELSE saving \cup {<<"event", disk>>}
          /\ UNCHANGED <<up, disk, db, storing, paired, resetFailed, sock, greeting>> /\ Release
      BY <1>10, <2>2 DEF Terminate
    <3>2. \A d \in Lines : held'[d] = held[d]
      BY <1>2, <3>1 DEF Release, HeldInUse
    <3>3. CASE ~At(Starting)
      <4>1. \A w \in saving' : w \in saving \/ w[2] = disk
        BY <3>1
      <4> QED BY <3>1, <3>2, <3>3, <4>1, BackupKeeps
    <3>4. CASE At(Starting)
      <4>1. sock = NoLine /\ saving' = saving
        BY <1>2, <3>1, <3>4 DEF Keeps, Restoring
      <4>2. Blank' <=> Blank
        BY <3>1, <4>1 DEF Blank, NoBackup
      <4>3. OneAccount' /\ NewOnlyIfNone' /\ FirstWrites'
        BY <1>2, <3>1, <3>2, <4>1, <4>2
        DEF Keeps, OneAccount, Latest, NewOnlyIfNone, FirstWrites
      <4>4. BackupBehind' /\ Restoring'
        BY <1>2, <3>1, <3>2, <4>1 DEF Keeps, BackupBehind, NoBackup, Restoring, At, Busy
      <4> QED BY <4>3, <4>4 DEF Keeps
    <3> QED BY <3>3, <3>4
  <2> QED BY <2>1, <2>2
<1> QED BY <1>3, <1>4, <1>5, <1>6, <1>7, <1>8, <1>9, <1>10 DEF Elsewhere, Persist

LEMMA BootKeeps ==
    ASSUME Calm, NEW c \in Lines, Boot(c)
    PROVE  Keeps'
<1> USE DEF process, counters, connections, pending, stores, past
<1>1. /\ line \in [Lines -> Stages] /\ held \in [Lines -> Creds]
  BY CalmTypes
<1>2. /\ Keeps /\ ~up /\ Busy = {} /\ sock = NoLine /\ greeting = {} /\ storing = {} /\ saving = {}
  BY DEF Calm, Boot, TypeOK
<1>3. /\ line' = [line EXCEPT ![c] = IF disk = Empty THEN "loading" ELSE "backing"]
      /\ held' = [held EXCEPT ![c] = disk]
      /\ UNCHANGED <<sock, greeting, storing, saving, disk, db, paired>>
  BY DEF Boot, Move, Hold
<1>4. /\ line'[c] = (IF disk = Empty THEN "loading" ELSE "backing") /\ held'[c] = disk
      /\ \A d \in Lines : d # c => line'[d] = "idle" /\ held'[d] = held[d]
  BY <1>1, <1>2, <1>3 DEF Busy
<1>5. OneAccount'
  BY <1>2, <1>3, <1>4 DEF Keeps, OneAccount, Latest
<1>6. NewOnlyIfNone' /\ FirstWrites'
  BY <1>2, <1>3, <1>4 DEF NewOnlyIfNone, FirstWrites, AtWork, Wire
<1>7. BackupBehind'
  BY <1>2, <1>3, <1>4, NoAccount DEF Keeps, BackupBehind, NoBackup, At
<1>8. Restoring'
  BY <1>2, <1>3, <1>4 DEF Restoring
<1> QED BY <1>5, <1>6, <1>7, <1>8 DEF Keeps

Keeping == mishaps = {} => Keeps

LEMMA KeepingKept ==
    ASSUME TypeOK, Single, Forgetting, Keeping, [Next]_vars
    PROVE  Keeping'
<1> SUFFICES ASSUME mishaps' = {} PROVE Keeps'
  BY DEF Keeping
<1>1. mishaps \subseteq mishaps'
  <2>1. CASE UNCHANGED vars
    BY <2>1 DEF vars, past
  <2>2. ASSUME NEW c \in Lines, Boot(c) \/ Reset(c) PROVE mishaps \subseteq mishaps'
    BY <2>2 DEF Boot, Reset, past
  <2> QED BY <2>1, <2>2, NoNewLine
<1>2. Calm
  BY <1>1 DEF Calm, Keeping
<1>3. CASE UNCHANGED vars
  <2>1. UNCHANGED <<up, line, held, sock, greeting, storing, saving, disk, db, paired, resetFailed>>
    BY <1>3 DEF vars, process, connections, pending, stores, past
  <2> QED BY <1>2, <2>1 DEF Calm, Keeps, OneAccount, Latest, NewOnlyIfNone, FirstWrites,
          BackupBehind, Restoring, Blank, NoBackup, At, Busy
<1> QED BY <1>2, <1>3, BootKeeps, AdvanceKeeps, DisturbanceKeeps, ElsewhereKeeps, NextCases

(* What a step may lose: a save, a backup or a restore that takes an account
   from one store finds it in the other; else it is the disk that is lost.   *)
LEMMA StepLosesNothing ==
    ASSUME Calm, Next, NEW CONSTANT g \in Accounts, Stored(g), ~Stored(g)',
           ~DiskLost, ~resetFailed
    PROVE  \E c \in Lines : "clearing" \in {line[c], line'[c]}
<1> USE DEF process, counters, connections, pending, stores, past
<1>1. Keeps /\ g \in Nat \ {0} /\ g = paired
      /\ Latest(disk) /\ Latest(db) /\ disk \in Creds /\ db \in Creds
  BY CalmTypes DEF Calm, Keeps, OneAccount, Latest, Stored, Accounts
<1>2. disk # g => disk = Empty \/ disk = 0
  BY <1>1 DEF Creds, Latest
<1>3. ~(disk = disk' /\ db = db')
  BY DEF Stored
<1>4. ASSUME NEW c \in Lines, Boot(c) PROVE FALSE
  BY <1>3, <1>4 DEF Boot
<1>5. ASSUME NEW c \in Lines, Advance(c), line[c] # "clearing" PROVE FALSE
  <2>1. BootSaves(c) \/ Restore(c)
    BY <1>3, <1>5 DEF Advance, Load, ReadAuthState, MakeSocket, ReconnectAtOnce, LoggedOut,
                      Dropped, DroppedTooOften, TimerFires, ResetClears, ResetConnects
  <2>2. CASE BootSaves(c)
    <3>1. db' = disk /\ disk' = disk /\ disk # Empty
      BY <1>1, <2>2 DEF BootSaves, Keeps, Restoring
    <3>2. disk = 0 /\ db = g
      BY <1>2, <3>1 DEF Stored
    <3> QED BY <1>1, <3>2 DEF Keeps, BackupBehind, NoBackup
  <2>3. CASE Restore(c)
    BY <1>1, <2>3, NoAccount DEF Restore, Keeps, Restoring, Stored
  <2> QED BY <2>1, <2>2, <2>3
<1>6. ASSUME NEW c \in Lines, Disturbance(c), ~Reset(c) PROVE FALSE
  BY <1>3, <1>6 DEF Disturbance, Pair, CredsUpdate, Established, ClosedForShutdown, Closed,
                    LoadGarbled, ResetFails
<1>7. ASSUME NEW c \in Lines, Reset(c) PROVE line'[c] = "clearing"
  BY <1>7 DEF Reset
<1>8. ASSUME Elsewhere, \A c \in Lines : line[c] # "clearing" PROVE FALSE
  <2>1. (\E w \in storing : StoreCreds(w)) \/ \E w \in saving : SaveCredentials(w)
    BY <1>3, <1>8 DEF Elsewhere, Persist, Greeted, PeriodicPersist, SaveFails, Crash, Terminate,
                      Exit, LoseDisk, DiskLost
  <2>2. ASSUME NEW w \in storing, StoreCreds(w) PROVE FALSE
    <3>1. disk' = w[2] /\ db' = db
      BY <2>2 DEF StoreCreds
    <3>2. disk = g /\ w[2] # g
      BY <3>1 DEF Stored
    <3>3. w[2] # Empty /\ Latest(w[2]) /\ w[2] \in Creds
      BY <1>1, CalmTypes DEF Keeps, FirstWrites, OneAccount
    <3>4. w[2] = 0
      BY <1>1, <3>2, <3>3 DEF Creds, Latest
    <3> QED BY <1>1, <3>2, <3>4 DEF Keeps, FirstWrites, Blank
  <2>3. ASSUME NEW w \in saving, SaveCredentials(w) PROVE FALSE
    <3>1. db = g /\ disk # g
      BY <2>3 DEF SaveCredentials, Stored
    <3>2. ~At(Starting) /\ up
      BY <1>1, <2>3 DEF Keeps, Restoring, Calm, TypeOK
    <3>3. ~At({"loading", "loaded", "clearing"})
      BY <1>8, <3>2 DEF At, Starting
    <3>4. NoBackup
      BY <1>1, <1>2, <3>1, <3>2, <3>3 DEF Keeps, BackupBehind
    <3> QED BY <3>1, <3>4 DEF NoBackup
  <2> QED BY <2>1, <2>2, <2>3
<1> QED BY <1>4, <1>5, <1>6, <1>7, <1>8, NextCases

(* An account that is stored is lost only through a reset or with the disk that
   alone held it: crashes and restarts at any point, restores, periodic backups
   and late writes of older states, in any order, never lose it, but for the
   mishaps.                                                                  *)
THEOREM KeptUntilResetAlways == Spec => KeptUntilReset
<1>1. Init => Keeping /\ Forgetting
  BY NoAccount DEF Init, Keeping, Keeps, OneAccount, Latest, NewOnlyIfNone, FirstWrites,
     BackupBehind, NoBackup, Restoring, At, AtWork, Wire, Starting,
     Forgetting, LastLinked, HeldInUse, NoneOld, Emptied, Old, Empty
<1>2. TypeOK /\ Single /\ Forgetting /\ Keeping /\ [Next]_vars
        => [mishaps' = {} => KeptStep]_vars
  <2> SUFFICES ASSUME TypeOK, Single, Forgetting, Keeping, Next, mishaps' = {} PROVE KeptStep
    OBVIOUS
  <2>1. mishaps \subseteq mishaps'
    <3>1. ASSUME NEW c \in Lines, Boot(c) \/ Reset(c) PROVE mishaps \subseteq mishaps'
      BY <3>1 DEF Boot, Reset, past
    <3> QED BY <3>1, NoNewLine
  <2>2. Calm
    BY <2>1 DEF Calm, Keeping
  <2> QED BY <2>2, StepLosesNothing DEF KeptStep
<1>3. TypeOK /\ Single /\ Forgetting /\ Keeping /\ [Next]_vars => Keeping'
  BY KeepingKept
<1>4. Spec => []Forgetting
  BY ForgettingAlways
<1> QED BY <1>1, <1>2, <1>3, <1>4, BridgeTypeCorrect, SingleAlways, PTL DEF Spec, KeptUntilReset
=============================================================================

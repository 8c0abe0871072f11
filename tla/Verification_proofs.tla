------------------------- MODULE Verification_proofs -------------------------
(* The app and the Telegram bot over the account handlers, for any number of
   calls, sessions, messages and disturbances.                               *)
EXTENDS Verification, Accounts_proofs

-----------------------------------------------------------------------------
(* What each client's call may be, from its request to its answer. *)
Requests(k) == k.by = "app" /\ k.session \in Sessions /\ k.at \in {"creating"} \cup Answers
Verifies(k) == /\ k.by = "app"
               /\ k.at \in {"selecting", "marking", "upserting"} \cup Answers
               /\ k.at = "ok" => k.account \in Accounts
Confirms(k) == k.by = "bot" /\ k.at \in {"linking", "upserting"} \cup Answers

(* A call that somebody waits for is the one that a variable names; the others
   end with their answer.                                                    *)
CallsOwned ==
    /\ requesting # Nobody => Requests(call[requesting]) /\ requesting # verifying
    /\ verifying # Nobody => Verifies(call[verifying])
    /\ serving # Nobody => Confirms(call[serving])
    /\ \A c \in Calls :
          /\ call[c].by \in {"app", "bot"} => c \in {requesting, verifying, serving}
          /\ call[c].at \in Answers => call[c].by \in {"app", "bot"}

(* Where the bot stands among the messages. *)
Reached == IF offset > acked THEN offset ELSE acked
BotPlace ==
    /\ bot = "batch" => acked <= offset /\ offset < last
    /\ bot \in {"replying", "confirming", "confirmed"} => acked < offset /\ offset <= last
    /\ bot \in {"confirming", "confirmed"} => inbox[offset].kind = "contact"
    /\ offset < acked => bot = "polling" /\ pending = [d \in Digits |-> Nobody]

(* The messages behind the bot have been handled, or their handler threw. *)
Behind == IF bot \in {"polling", "batch"} THEN offset ELSE offset - 1
NoneSkipped == 1..acked \cup 1..Behind \subseteq handled \cup thrown

(* A marked session has gone where it should, or a call other than a request's
   or the bot's still has it.                                                *)
MarkedInUse ==
    \A s \in Sessions :
        sessions[s].verified =>
            \/ s \in wasted \cup linked \cup delivered
            \/ \E c \in Calls \ {requesting, serving} : call[c].session = s /\ Spent(c)

(* A session is made once, before anybody names it. *)
MadeOnce ==
    /\ OneCreation
    /\ \A i \in 1..Len(inbox) :
          inbox[i].kind = "start" =>
              inbox[i].session \in Sessions /\ sessions[inbox[i].session].state # "none"
    /\ \A d \in Digits : pending[d] # Nobody => sessions[pending[d]].state # "none"

(* The session of each chat's last start is pending, or settled. *)
Settled(s) == sessions[s].verified \/ s \in forgotten \cup dropped
LastStart(d, i) ==
    /\ inbox[i].kind = "start" /\ inbox[i].chat = d
    /\ \A j \in 1..Reached : inbox[j].kind = "start" /\ inbox[j].chat = d => j <= i
PendingFits ==
    /\ \A d \in Digits : \A i \in 1..Reached :
          LastStart(d, i) => pending[d] = inbox[i].session \/ Settled(inbox[i].session)
    /\ bot = "confirming" =>
          /\ call[serving].session = pending[inbox[offset].chat]
          /\ call[serving].at \in {"upserting", "ok"} /\ call[serving].session # Nobody =>
                Settled(call[serving].session)
    /\ bot = "confirmed" => pending[inbox[offset].chat] = Nobody

ToldSettled == \A i \in told : \A s \in MeantFor(i) : Settled(s)

ClientInv == TypeOK /\ ApiInv /\ CallsOwned /\ BotPlace
Inv == ClientInv /\ NoneSkipped /\ MarkedInUse /\ MadeOnce /\ PendingFits /\ ToldSettled

-----------------------------------------------------------------------------
(* A link that goes on has marked its session, or dropped the error. *)
LEMMA LinksProceed ==
    ASSUME ApiInv, ApiStep
    PROVE  /\ linked \subseteq linked' /\ dropped \subseteq dropped'
           /\ \A c \in Calls :
                 call[c].at = "linking" /\ call'[c].at = "upserting" /\ call[c].session \in Rows =>
                    sessions'[call[c].session].verified \/ call[c].session \in dropped'
<1> USE DEF past, tables
<1>1. sessions \in [Sessions -> [state : {"none", "open", "expired"},
                                 target : Digits \cup {Nobody}, verified : BOOLEAN]]
      /\ call \in [Calls -> CallType] /\ \A c \in Calls : call[c].session \in Sessions \cup {Nobody}
  BY DEF ApiInv, ApiTypeOK, CallType
<1>2. ASSUME NEW c \in Calls, NEW answer \in Answers, Answer(c, answer), NEW d \in Calls,
             call'[d].at = "upserting"
      PROVE  call[d].at = "upserting"
  BY <1>1, <1>2 DEF Answer, Answers, NoCall
<1>3. ASSUME NEW c \in Calls, NEW stage, Go(c, stage), NEW d \in Calls, d # c
      PROVE  call'[d] = call[d]
  BY <1>1, <1>3 DEF Go
<1>4. {"ok", "refused", "failed"} \subseteq Answers
  BY DEF Answers
<1>5. ASSUME NEW c \in Calls, LinkSession(c), call[c].session \in Rows
      PROVE  sessions'[call[c].session].verified
  BY <1>5, LinkMarks DEF ApiInv
<1>6. ASSUME NEW c \in Calls, Step(c), ~LinkSession(c), NEW d \in Calls, call[d].at = "linking"
      PROVE  call'[d].at # "upserting" /\ linked' = linked /\ dropped' = dropped
  <2>1. CASE CreateSession(c) \/ RefuseSession(c) \/ UpsertUser(c) \/ InsertUser(c)
    BY <1>2, <1>4, <1>6, <2>1 DEF CreateSession, RefuseSession, UpsertUser, InsertUser
  <2>2. CASE MarkVerified(c) \/ AttestDevice(c)
    BY <1>3, <1>6, <2>2 DEF MarkVerified, AttestDevice
  <2>3. CASE CheckName(c)
    BY <1>2, <1>3, <1>4, <1>6, <2>3 DEF CheckName
  <2>4. CASE SelectSession(c)
    BY <1>1, <1>6, <2>4 DEF SelectSession
  <2> QED BY <1>6, <2>1, <2>2, <2>3, <2>4 DEF Step
<1>7. linked \subseteq linked' /\ dropped \subseteq dropped'
  BY DEF ApiStep, Step, Trouble, CreateSession, SelectSession, RefuseSession, MarkVerified,
         LinkSession, UpsertUser, CheckName, InsertUser, AttestDevice, LinkFails, CallFails,
         Expire, Created
<1> SUFFICES ASSUME NEW c \in Calls, call[c].at = "linking", call'[c].at = "upserting",
                    call[c].session \in Rows
             PROVE  sessions'[call[c].session].verified \/ call[c].session \in dropped'
  BY <1>7
<1>8. ASSUME NEW d \in Calls, LinkFails(d) PROVE call[c].session \in dropped'
  BY <1>3, <1>8 DEF LinkFails
<1>9. ASSUME NEW d \in Calls, CallFails(d) PROVE FALSE
  BY <1>2, <1>4, <1>9 DEF CallFails
<1>10. ASSUME NEW d \in Calls, LinkSession(d) PROVE sessions'[call[c].session].verified
  BY <1>3, <1>5, <1>10 DEF LinkSession
<1> QED BY <1>6, <1>8, <1>9, <1>10 DEF ApiStep, Trouble, Expire

-----------------------------------------------------------------------------
(* The API's statements keep the invariant, part by part. *)
LEMMA ApiTypes ==
    ASSUME Inv, ApiStep, NoteWaste, ApiUnchanged
    PROVE  TypeOK' /\ ApiInv'
<1> USE DEF Inv, ClientInv
<1>1. ApiInv'
  BY SessionStepsKeep, AccountStepsKeep, TroubleKeeps DEF ApiStep, Step
<1>2. wasted' \subseteq Sessions
  BY DEF TypeOK, NoteWaste
<1> QED BY <1>1, <1>2 DEF TypeOK, ApiInv, ApiUnchanged, app, telegram, botState, botPast

LEMMA ApiCallsOwned ==
    ASSUME Inv, ApiStep, NoteWaste, ApiUnchanged
    PROVE  CallsOwned'
<1> USE DEF Inv, ClientInv
<1>1. ApiTypeOK /\ CallsFit /\ {requesting, verifying, serving} \subseteq Calls \cup {Nobody}
      /\ call \in [Calls -> CallType] /\ call' \in [Calls -> CallType]
  BY ApiTypes DEF TypeOK, ApiInv, ApiTypeOK
<1>2. \A c \in Calls : Proceeds(call[c], call'[c])
  BY <1>1, CallsProceed
<1>3. ASSUME NEW k \in CallType, NEW m \in CallType, Proceeds(k, m)
      PROVE  /\ Requests(k) => Requests(m)
             /\ Confirms(k) => Confirms(m)
             /\ Verifies(k) /\ Fits(k, devices) => Verifies(m)
             /\ m.by \in {"app", "bot"} => k.by = m.by
             /\ m.at \in Answers /\ k.at \notin Answers => m.by \in {"app", "bot"}
             /\ k.at \in Answers => m = k
  <2>1. CASE m = k
    BY <2>1
  <2>2. CASE k.at \in Stages /\ k.by \notin {"app", "bot"} /\ m = NoCall
    BY <2>2 DEF NoCall, Requests, Confirms, Verifies, Answers, Stages
  <2>3. CASE /\ k.at \in Stages /\ k.by \in {"app", "bot"}
             /\ \/ m = [k EXCEPT !.at = "ok"] /\ k.at \in {"creating", "upserting", "naming"}
                \/ m = [k EXCEPT !.at = "refused"] \/ m = [k EXCEPT !.at = "failed"]
    BY <2>3 DEF Requests, Confirms, Verifies, Answers, Stages, Fits, CallType
  <2>4. CASE k.at = "selecting" /\ m.at = "marking" /\ m.by = k.by /\ m.session = k.session
    BY <2>4 DEF Requests, Confirms, Verifies, Answers
  <2>5. CASE k.at \in {"marking", "linking", "attesting"} /\ m = [k EXCEPT !.at = "upserting"]
    BY <2>5 DEF Requests, Confirms, Verifies, Answers, CallType
  <2>6. CASE k.at = "checking" /\ m = [k EXCEPT !.at = "naming"]
    BY <2>6 DEF Requests, Confirms, Verifies, Answers, CallType
  <2> QED BY <1>3, <2>1, <2>2, <2>3, <2>4, <2>5, <2>6 DEF Proceeds
<1>4. UNCHANGED <<requesting, verifying, serving>>
  BY DEF ApiUnchanged, app, botState
<1>5. \A c \in Calls : call[c] \in CallType /\ call'[c] \in CallType /\ Fits(call[c], devices)
  BY <1>1 DEF CallsFit
<1>6. ASSUME requesting # Nobody
      PROVE  Requests(call'[requesting]) /\ requesting # verifying
  BY <1>1, <1>2, <1>3, <1>5, <1>6 DEF CallsOwned
<1>7. ASSUME verifying # Nobody PROVE Verifies(call'[verifying])
  BY <1>1, <1>2, <1>3, <1>5, <1>7 DEF CallsOwned
<1>8. ASSUME serving # Nobody PROVE Confirms(call'[serving])
  BY <1>1, <1>2, <1>3, <1>5, <1>8 DEF CallsOwned
<1>9. ASSUME NEW c \in Calls
      PROVE  /\ call'[c].by \in {"app", "bot"} => c \in {requesting, verifying, serving}
             /\ call'[c].at \in Answers => call'[c].by \in {"app", "bot"}
  <2>1. call[c].by \in {"app", "bot"} => c \in {requesting, verifying, serving}
    BY DEF CallsOwned
  <2>2. call[c].at \in Answers => call[c].by \in {"app", "bot"}
    BY DEF CallsOwned
  <2> QED BY <1>2, <1>3, <1>5, <2>1, <2>2
<1> QED BY <1>4, <1>6, <1>7, <1>8, <1>9 DEF CallsOwned

LEMMA ApiMarkedInUse ==
    ASSUME Inv, ApiStep, NoteWaste, ApiUnchanged
    PROVE  MarkedInUse'
<1> USE DEF Inv, ClientInv
<1>1. ApiTypeOK /\ call \in [Calls -> CallType] /\ call' \in [Calls -> CallType]
      /\ {requesting, serving} \subseteq Calls \cup {Nobody} /\ Nobody \notin Calls \cup Sessions
      /\ UNCHANGED <<requesting, serving, delivered>>
  BY ApiTypes, NobodyAssumption DEF TypeOK, ApiInv, ApiTypeOK, ApiUnchanged, app, botState
<1> SUFFICES ASSUME NEW s \in Sessions, sessions'[s].verified,
                    s \notin wasted' \cup linked' \cup delivered'
             PROVE  \E c \in Calls \ {requesting, serving} : call'[c].session = s /\ Spent(c)'
  BY <1>1 DEF MarkedInUse
<1>2. s \notin wasted \cup linked \cup delivered
  BY <1>1, LinksProceed DEF NoteWaste
<1>3. CASE sessions[s].verified
  <2>1. PICK c \in Calls \ {requesting, serving} : call[c].session = s /\ Spent(c)
    BY <1>2, <1>3 DEF MarkedInUse
  <2>2. Proceeds(call[c], call'[c])
    BY <1>1, CallsProceed
  <2>3. call[c].at = "upserting" => call'[c].at \in {"upserting", "ok"}
    BY <2>1 DEF NoteWaste
  <2>4. call'[c].session = s /\ call'[c].at \in {"upserting", "ok"}
    <3>1. CASE call[c].at = "ok"
      BY <2>1, <2>2, <3>1 DEF Proceeds, Stages
    <3>2. CASE call[c].at = "upserting"
      BY <1>1, <2>1, <2>2, <2>3, <3>2 DEF Proceeds, NoCall, CallType
    <3> QED BY <2>1, <3>1, <3>2 DEF Spent
  <2> QED BY <1>1, <2>1, <2>4 DEF Spent
<1>4. CASE ~sessions[s].verified
  <2>1. PICK c \in Calls : /\ call[c].at = "marking" /\ call[c].session = s
                           /\ call'[c] = [call[c] EXCEPT !.at = "upserting"]
    BY <1>4, SessionsProceed DEF MadeOnce
  <2>2. c # requesting /\ c # serving
    BY <1>1, <2>1 DEF CallsOwned, Requests, Confirms, Answers
  <2>3. call'[c].at = "upserting" /\ call'[c].session = s
    BY <1>1, <2>1 DEF CallType
  <2> QED BY <1>1, <2>2, <2>3 DEF Spent
<1> QED BY <1>3, <1>4

LEMMA ApiMadeOnce ==
    ASSUME Inv, ApiStep, NoteWaste, ApiUnchanged
    PROVE  MadeOnce'
<1> USE DEF Inv, ClientInv
<1>1. call \in [Calls -> CallType] /\ ApiTypeOK /\ CallsFit
      /\ UNCHANGED <<inbox, pending>> /\ pending \in [Digits -> Sessions \cup {Nobody}]
  BY DEF TypeOK, ApiInv, ApiTypeOK, ApiUnchanged, telegram, botState
<1>2. ASSUME NEW c \in Calls, call'[c].at = "creating" PROVE call'[c] = call[c]
  <2>1. Proceeds(call[c], call'[c])
    BY <1>1, CallsProceed
  <2> QED BY <1>1, <1>2, <2>1 DEF Proceeds, NoCall, CallType
<1>3. ASSUME NEW c \in Calls, call'[c].at = "creating"
      PROVE  sessions'[call'[c].session].state = "none"
  <2>1. call'[c] = call[c] /\ call[c].session \in Sessions
        /\ sessions[call[c].session].state = "none"
    BY <1>1, <1>2, <1>3 DEF CallsFit, Fits, MadeOnce, OneCreation
  <2>2. SUFFICES ASSUME Made(call[c].session)' PROVE FALSE
    BY <2>1 DEF Made
  <2>3. PICK d \in Calls : /\ call[d].at = "creating" /\ call[d].session = call[c].session
                           /\ call'[d].at # "creating"
    BY <2>1, <2>2, SessionsProceed DEF Made, MadeOnce
  <2> QED BY <1>3, <2>1, <2>3 DEF MadeOnce, OneCreation
<1>4. \A s \in Sessions : sessions[s].state # "none" => sessions'[s].state # "none"
  BY SessionsProceed DEF Made, MadeOnce
<1> QED BY <1>1, <1>2, <1>3, <1>4 DEF MadeOnce, OneCreation

(* What is settled stays so, for a session that has been made. *)
LEMMA ApiSettles ==
    ASSUME Inv, ApiStep, ApiUnchanged, NEW s \in Sessions, Made(s), Settled(s)
    PROVE  Settled(s)'
  BY SessionsProceed, LinksProceed DEF Inv, ClientInv, Settled, MadeOnce, ApiUnchanged, botPast

(* The sessions that messages mean have been made. *)
LEMMA MeantAreMade ==
    ASSUME TypeOK, MadeOnce, NEW i \in 1..Len(inbox), NEW s \in MeantFor(i)
    PROVE  s \in Sessions /\ Made(s)
<1>1. Len(inbox) \in Nat
  BY DEF TypeOK
<1>2. PICK j \in Starts(i) : s = inbox[j].session
  BY DEF MeantFor
<1>3. j \in 1..Len(inbox) /\ inbox[j].kind = "start"
  BY <1>1, <1>2 DEF Starts
<1> QED BY <1>2, <1>3 DEF MadeOnce, Made

LEMMA ApiPendingFits ==
    ASSUME Inv, ApiStep, NoteWaste, ApiUnchanged
    PROVE  PendingFits' /\ ToldSettled'
<1> USE DEF Inv, ClientInv
<1>1. /\ call \in [Calls -> CallType] /\ ApiTypeOK /\ CallsFit
      /\ UNCHANGED <<inbox, acked, offset, last, bot, pending, serving, told>>
      /\ pending \in [Digits -> Sessions \cup {Nobody}]
      /\ {acked, offset} \subseteq 0..Len(inbox) /\ Len(inbox) \in Nat
      /\ told \subseteq 1..Len(inbox) /\ Nobody \notin Sessions
  BY NobodyAssumption
  DEF TypeOK, ApiInv, ApiTypeOK, ApiUnchanged, telegram, botState, botPast
<1>2. ASSUME NEW d \in Digits, NEW i \in 1..Reached, LastStart(d, i),
             NEW s, s = inbox[i].session
      PROVE  pending[d] = s \/ Settled(s)'
  <2>1. i \in 1..Len(inbox) /\ inbox[i].kind = "start"
    BY <1>1, <1>2 DEF Reached, LastStart
  <2>2. s \in Sessions /\ Made(s)
    BY <1>2, <2>1 DEF MadeOnce, Made
  <2> QED BY <1>2, <2>2, ApiSettles DEF PendingFits
<1>3. ASSUME bot = "confirming", NEW s, s = pending[inbox[offset].chat]
      PROVE  /\ call'[serving].session = s
             /\ call'[serving].at \in {"upserting", "ok"} /\ s # Nobody => Settled(s)'
  <2>1. serving \in Calls /\ Confirms(call[serving]) /\ Confirms(call'[serving])
        /\ inbox[offset].chat \in Digits
    <3>1. serving \in Calls /\ serving # Nobody
      BY <1>3 DEF TypeOK
    <3>2. Confirms(call[serving])
      BY <3>1 DEF CallsOwned
    <3>3. Confirms(call'[serving])
      BY <1>1, <3>1, ApiCallsOwned DEF CallsOwned
    <3>4. offset \in 1..Len(inbox) /\ inbox \in Seq(Message)
      BY <1>1, <1>3 DEF BotPlace, TypeOK
    <3>5. inbox[offset] \in Message
      BY <3>4
    <3> QED BY <3>1, <3>2, <3>3, <3>5 DEF Message
  <2>2. Proceeds(call[serving], call'[serving])
    BY <1>1, <2>1, CallsProceed
  <2>3. call'[serving].session = call[serving].session
    BY <1>1, <2>1, <2>2 DEF Proceeds, Confirms, CallType
  <2>4. call[serving].session = s
    BY <1>3 DEF PendingFits
  <2>5. SUFFICES ASSUME call'[serving].at \in {"upserting", "ok"}, s # Nobody
                 PROVE  Settled(s)'
    BY <2>3, <2>4
  <2>6. s \in Sessions /\ Made(s)
    BY <1>1, <1>3, <2>1, <2>5 DEF MadeOnce, Made
  <2>7. CASE call[serving].at \in {"upserting", "ok"}
    <3>1. Settled(s)
      BY <1>3, <2>4, <2>5, <2>7 DEF PendingFits
    <3> QED BY <2>6, <3>1, ApiSettles
  <2>8. CASE call[serving].at = "linking"
    <3>1. call'[serving].at = "upserting"
      BY <1>1, <2>1, <2>2, <2>5, <2>8 DEF Proceeds, Confirms, CallType, NoCall
    <3>2. s \in Rows
      BY <2>6 DEF Rows, Made
    <3> QED BY <2>1, <2>4, <2>5, <2>8, <3>1, <3>2, LinksProceed DEF Settled
  <2>9. call[serving].at \in {"linking", "upserting", "ok"}
    BY <1>1, <2>1, <2>2, <2>5 DEF Proceeds, Confirms, CallType, NoCall, Answers, Stages
  <2> QED BY <2>7, <2>8, <2>9
<1>4. ToldSettled'
  <2>1. ASSUME NEW i \in told, NEW s \in MeantFor(i) PROVE Settled(s)'
    <3>1. s \in Sessions /\ Made(s)
      BY <1>1, MeantAreMade
    <3> QED BY <3>1, ApiSettles DEF ToldSettled
  <2>2. \A i : MeantFor(i)' = MeantFor(i)
    BY <1>1 DEF MeantFor, Starts
  <2> QED BY <1>1, <2>1, <2>2 DEF ToldSettled
<1>5. Reached' = Reached /\ \A d, i : LastStart(d, i)' <=> LastStart(d, i)
  BY <1>1 DEF Reached, LastStart
<1>6. ASSUME NEW d \in Digits, NEW i \in 1..Reached, LastStart(d, i)
      PROVE  pending[d] = inbox[i].session \/ Settled(inbox[i].session)'
  <2>1. PICK s : s = inbox[i].session
    OBVIOUS
  <2> QED BY <1>1, <1>2, <1>6, <2>1 DEF Settled
<1>7. ASSUME bot = "confirming"
      PROVE  /\ call'[serving].session = pending[inbox[offset].chat]
             /\ call'[serving].at \in {"upserting", "ok"} /\ call'[serving].session # Nobody =>
                   Settled(call[serving].session)'
  <2>1. PICK s : s = pending[inbox[offset].chat]
    OBVIOUS
  <2>2. call[serving].session = pending[inbox[offset].chat]
    BY <1>7 DEF PendingFits
  <2> QED BY <1>1, <1>3, <1>7, <2>1, <2>2 DEF Settled
<1>8. bot = "confirmed" => pending[inbox[offset].chat] = Nobody
  BY DEF PendingFits
<1> QED BY <1>1, <1>4, <1>5, <1>6, <1>7, <1>8 DEF PendingFits

LEMMA ApiKeeps ==
    ASSUME Inv, ApiStep, NoteWaste, ApiUnchanged
    PROVE  Inv'
<1>1. BotPlace' /\ NoneSkipped'
  BY DEF Inv, ClientInv, BotPlace, NoneSkipped, Behind, ApiUnchanged, telegram, botState, botPast
<1> QED BY <1>1, ApiTypes, ApiCallsOwned, ApiMarkedInUse, ApiMadeOnce, ApiPendingFits
       DEF Inv, ClientInv

-----------------------------------------------------------------------------
(* The end of a client's wait: its call is gone, or goes on for nobody. *)
Ended(k, m) == m = NoCall \/ (k.at \notin Answers /\ m = [k EXCEPT !.by = "gone"])

LEMMA LetGoEnds ==
    ASSUME ApiInv, NEW c \in Calls, LetGo(c)
    PROVE  \E m \in CallType :
              Fits(m, devices) /\ call' = [call EXCEPT ![c] = m] /\ Ended(call[c], m)
<1>1. call \in [Calls -> CallType] /\ call[c] \in CallType /\ Fits(call[c], devices)
  BY DEF ApiInv, ApiTypeOK, CallsFit
<1>2. CASE call[c].at \in Answers
  BY <1>1, <1>2, NoCallFits DEF LetGo, Ended
<1>3. CASE call[c].at \notin Answers
  <2> DEFINE m == [call[c] EXCEPT !.by = "gone"]
  <2>1. m \in CallType /\ Fits(m, devices)
    BY <1>1 DEF CallType, Callers, Fits
  <2>2. call' = [call EXCEPT ![c] = m]
    BY <1>1, <1>3 DEF LetGo
  <2> QED BY <1>3, <2>1, <2>2 DEF Ended
<1> QED BY <1>2, <1>3

LEMMA TookEnds ==
    ASSUME ApiInv, NEW c \in Calls, Took(c)
    PROVE  \E m \in CallType :
              Fits(m, devices) /\ call' = [call EXCEPT ![c] = m] /\ Ended(call[c], m)
  BY NoCallFits DEF Took, Ended

(* A step of a client replaces one call and nothing else of the API. *)
Replaces(c, m) ==
    /\ m \in CallType /\ Fits(m, devices)
    /\ call' = [call EXCEPT ![c] = m]
    /\ UNCHANGED <<tables, past, begun>> /\ faults' \in Nat

LEMMA ReplacesKeeps ==
    ASSUME ApiInv, NEW c \in Calls, NEW m, Replaces(c, m)
    PROVE  ApiInv'
  BY MovesKeep DEF Replaces, tables, past, ApiInv, ApiTypeOK

LEMMA SentOrDisturbed ==
    ASSUME ApiInv, Sent \/ (Disturb /\ UNCHANGED <<tables, past, begun>>)
    PROVE  UNCHANGED <<tables, past, begun>> /\ faults' \in Nat
  BY DEF ApiInv, ApiTypeOK, Sent, Disturb

-----------------------------------------------------------------------------
(* The screen's steps: it asks, tries a code or a proof of work, or stops
   waiting for one of the two.                                               *)
Asks(c, m) ==
    /\ requesting = Nobody /\ requesting' = c /\ verifying' = verifying
    /\ call[c] = NoCall /\ m.by = "app" /\ m.at = "creating" /\ m.session \in FreshSessions
    /\ UNCHANGED <<delivered, wasted>>
Tries(c, m) ==
    /\ verifying = Nobody /\ verifying' = c /\ requesting' = requesting
    /\ call[c] = NoCall /\ m.by = "app" /\ m.at \in {"selecting", "upserting"}
    /\ UNCHANGED <<delivered, wasted>>
EndsRequest(c, m) ==
    /\ requesting = c /\ requesting' = Nobody /\ verifying' = verifying
    /\ Ended(call[c], m)
    /\ UNCHANGED <<delivered, wasted>>
EndsVerify(c, m) ==
    /\ verifying = c /\ verifying' = Nobody /\ requesting' = requesting
    /\ Ended(call[c], m)
    /\ delivered \subseteq delivered' /\ wasted \subseteq wasted'
    /\ Spent(c) => call[c].session \in delivered' \cup wasted'

AppMove(c, m) ==
    /\ Replaces(c, m) /\ AppUnchanged
    /\ Asks(c, m) \/ Tries(c, m) \/ EndsRequest(c, m) \/ EndsVerify(c, m)
    /\ held' \in Sessions \cup {Nobody} /\ token' \in Accounts \cup {Nobody}
    /\ retry' \in BOOLEAN /\ delivered' \subseteq Sessions /\ wasted' \subseteq Sessions

AppSteps == \/ RequestOtp \/ EnterCode \/ EnterWrongCode \/ ProveWork
            \/ AppStep \/ TimeOut

LEMMA AppMoves ==
    ASSUME Inv, AppSteps
    PROVE  \E c \in Calls, m \in CallType : AppMove(c, m)
<1> USE DEF Inv, ClientInv
<1>1. /\ ApiInv /\ call \in [Calls -> CallType]
      /\ {requesting, verifying} \subseteq Calls \cup {Nobody}
      /\ held \in Sessions \cup {Nobody} /\ token \in Accounts \cup {Nobody}
      /\ retry \in BOOLEAN /\ delivered \subseteq Sessions /\ wasted \subseteq Sessions
  BY DEF TypeOK, ApiInv, ApiTypeOK
<1>2. ASSUME NEW c \in Calls, NEW stage \in Stages, NEW s \in Sessions \cup {Nobody},
             NEW right \in BOOLEAN,
             NEW a \in Accounts \cup (Channels \X {Nobody}) \cup {Nobody}, NEW score \in Nat,
             Begin(c, stage, "app", s, right, a, score)
      PROVE  \E m \in CallType :
                /\ call[c] = NoCall /\ call' = [call EXCEPT ![c] = m]
                /\ m = [at |-> stage, by |-> "app", session |-> s, right |-> right,
                        account |-> a, score |-> score]
  BY <1>2 DEF Begin, CallType, Callers
<1>3. {"creating", "selecting", "upserting"} \subseteq Stages /\ {0, 10, 12} \subseteq Nat
  BY DEF Stages
<1>4. CASE RequestOtp
  <2>1. PICK c \in Calls, s \in NextSessions, d \in Digits :
           /\ Begin(c, "creating", "app", s, FALSE, <<ChannelOf[s], d>>, 0)
           /\ requesting' = c
    BY <1>4 DEF RequestOtp
  <2>2. s \in FreshSessions /\ s \in Sessions /\ ChannelOf[s] \in Channels
    BY ChannelAssumption DEF NextSessions, FreshSessions, Channels
  <2>3. <<ChannelOf[s], d>> \in Accounts
    BY <2>2 DEF Accounts
  <2>4. PICK m \in CallType :
           /\ call[c] = NoCall /\ call' = [call EXCEPT ![c] = m]
           /\ m = [at |-> "creating", by |-> "app", session |-> s, right |-> FALSE,
                   account |-> <<ChannelOf[s], d>>, score |-> 0]
    BY <1>2, <1>3, <2>1, <2>2, <2>3
  <2>5. Fits(m, devices)
    BY <2>2, <2>4 DEF Fits
  <2>6. Replaces(c, m)
    BY <1>1, <1>4, <2>4, <2>5, SentOrDisturbed DEF RequestOtp, Replaces
  <2>7. Asks(c, m)
    BY <1>4, <2>1, <2>2, <2>4 DEF RequestOtp, Asks
  <2> QED BY <1>1, <1>4, <2>6, <2>7 DEF RequestOtp, AppMove
<1>5. ASSUME NEW c \in Calls, NEW right \in BOOLEAN, held # Nobody,
             Begin(c, "selecting", "app", held, right, Nobody, 12),
             verifying = Nobody, verifying' = c, Sent \/ (Disturb /\ UNCHANGED <<tables, past, begun>>),
             AppUnchanged, UNCHANGED <<held, requesting, token, retry, delivered, wasted>>
      PROVE  \E m \in CallType : AppMove(c, m)
  <2>1. PICK m \in CallType :
           /\ call[c] = NoCall /\ call' = [call EXCEPT ![c] = m]
           /\ m = [at |-> "selecting", by |-> "app", session |-> held, right |-> right,
                   account |-> Nobody, score |-> 12]
    BY <1>1, <1>2, <1>3, <1>5
  <2>2. Fits(m, devices)
    BY <1>1, <1>5, <2>1 DEF Fits
  <2>3. Replaces(c, m)
    BY <1>1, <1>5, <2>1, <2>2, SentOrDisturbed DEF Replaces
  <2>4. Tries(c, m)
    BY <1>5, <2>1 DEF Tries
  <2> QED BY <1>1, <1>5, <2>3, <2>4 DEF AppMove
<1>6. CASE EnterCode
  <2>1. held \in Sessions /\ held # Nobody
    BY <1>6, NobodyAssumption DEF EnterCode
  <2> QED BY <1>5, <1>6, <2>1 DEF EnterCode
<1>7. CASE EnterWrongCode
  BY <1>5, <1>7 DEF EnterWrongCode
<1>8. CASE ProveWork
  <2>1. PICK c \in Calls, d \in Devices :
           /\ Begin(c, "upserting", "app", Nobody, TRUE, <<"anon", d>>, 10)
           /\ verifying' = c
    BY <1>8 DEF ProveWork
  <2> DEFINE m == [at |-> "upserting", by |-> "app", session |-> Nobody, right |-> TRUE,
                   account |-> <<"anon", d>>, score |-> 10]
  <2>2. <<"anon", d>> \in Accounts
    BY DEF Accounts
  <2>3. call[c] = NoCall /\ call' = [call EXCEPT ![c] = m] /\ m \in CallType
    BY <1>3, <2>1, <2>2 DEF Begin, CallType, Callers
  <2>4. Fits(m, devices)
    BY <2>2 DEF Fits, Channels
  <2>5. Replaces(c, m)
    BY <1>1, <1>8, <2>3, <2>4, SentOrDisturbed DEF ProveWork, Replaces
  <2>6. Tries(c, m)
    BY <1>8, <2>1, <2>3 DEF ProveWork, Tries
  <2> HIDE DEF m
  <2> QED BY <1>1, <1>8, <2>3, <2>5, <2>6 DEF ProveWork, AppMove
<1>9. ASSUME NEW c \in Calls, Took(c) \/ LetGo(c),
             Sent \/ (Disturb /\ UNCHANGED <<tables, past, begun>>)
      PROVE  \E m \in CallType : Replaces(c, m) /\ Ended(call[c], m)
  BY <1>1, <1>9, TookEnds, LetGoEnds, SentOrDisturbed DEF Replaces
<1>10. CASE OtpRequested
  <2>1. requesting \in Calls /\ Requests(call[requesting])
    BY <1>1, <1>10 DEF OtpRequested, CallsOwned
  <2>2. PICK m \in CallType : Replaces(requesting, m) /\ Ended(call[requesting], m)
    BY <1>9, <1>10, <2>1 DEF OtpRequested
  <2>3. EndsRequest(requesting, m)
    BY <1>10, <2>2 DEF OtpRequested, EndsRequest
  <2>4. held' \in Sessions \cup {Nobody} /\ retry' \in BOOLEAN
    BY <1>1, <1>10, <2>1 DEF OtpRequested, Requests
  <2> QED BY <1>1, <1>10, <2>1, <2>2, <2>3, <2>4 DEF OtpRequested, AppMove
<1>11. CASE RequestTimesOut
  <2>1. requesting \in Calls
    BY <1>1, <1>11 DEF RequestTimesOut
  <2>2. PICK m \in CallType : Replaces(requesting, m) /\ Ended(call[requesting], m)
    BY <1>9, <1>11, <2>1 DEF RequestTimesOut
  <2>3. EndsRequest(requesting, m)
    BY <1>11, <2>2 DEF RequestTimesOut, EndsRequest
  <2> QED BY <1>1, <1>11, <2>1, <2>2, <2>3 DEF RequestTimesOut, AppMove
<1>12. CASE Verified
  <2>1. verifying \in Calls /\ Verifies(call[verifying]) /\ call[verifying] \in CallType
        /\ call[verifying].session \in Sessions \cup {Nobody}
    BY <1>1, <1>12 DEF Verified, CallsOwned, CallType
  <2>2. PICK m \in CallType : Replaces(verifying, m) /\ Ended(call[verifying], m)
    BY <1>9, <1>12, <2>1 DEF Verified
  <2>3. EndsVerify(verifying, m)
    BY <1>12, <2>2 DEF Verified, EndsVerify, Spent
  <2>4. delivered' \subseteq Sessions /\ token' \in Accounts
    BY <1>1, <1>12, <2>1 DEF Verified, Verifies
  <2> QED BY <1>1, <1>12, <2>1, <2>2, <2>3, <2>4 DEF Verified, AppMove
<1>13. CASE NotVerified
  <2>1. verifying \in Calls
    BY <1>1, <1>13 DEF NotVerified
  <2>2. PICK m \in CallType : Replaces(verifying, m) /\ Ended(call[verifying], m)
    BY <1>9, <1>13, <2>1 DEF NotVerified
  <2>3. EndsVerify(verifying, m)
    BY <1>13, <2>2 DEF NotVerified, EndsVerify, Spent
  <2> QED BY <1>1, <1>13, <2>1, <2>2, <2>3 DEF NotVerified, AppMove
<1>14. CASE VerifyTimesOut
  <2>1. verifying \in Calls /\ call[verifying].session \in Sessions \cup {Nobody}
    BY <1>1, <1>14 DEF VerifyTimesOut, CallType
  <2>2. PICK m \in CallType : Replaces(verifying, m) /\ Ended(call[verifying], m)
    BY <1>9, <1>14, <2>1 DEF VerifyTimesOut
  <2>3. EndsVerify(verifying, m)
    BY <1>14, <2>2 DEF VerifyTimesOut, EndsVerify, Spent
  <2>4. wasted' \subseteq Sessions
    BY <1>1, <1>14, <2>1 DEF VerifyTimesOut
  <2> QED BY <1>1, <1>14, <2>1, <2>2, <2>3, <2>4 DEF VerifyTimesOut, AppMove
<1> QED BY <1>4, <1>6, <1>7, <1>8, <1>10, <1>11, <1>12, <1>13, <1>14
       DEF AppSteps, AppStep, TimeOut

(* The bot's call is not one of the screen's. *)
LEMMA AppLeavesBot ==
    ASSUME Inv, NEW c \in Calls, NEW m, AppMove(c, m), serving # Nobody
    PROVE  serving \in Calls /\ serving # c /\ call'[serving] = call[serving]
<1>1. serving \in Calls /\ Confirms(call[serving]) /\ call \in [Calls -> CallType]
  BY DEF Inv, ClientInv, TypeOK, CallsOwned, ApiTypeOK
<1>2. call[c] = NoCall \/ call[c].by = "app"
  BY NobodyAssumption
  DEF Inv, ClientInv, CallsOwned, AppMove, Asks, Tries, EndsRequest, EndsVerify,
      Requests, Verifies
<1>3. serving # c
  BY <1>1, <1>2 DEF Confirms, NoCall
<1> QED BY <1>1, <1>3 DEF AppMove, Replaces

LEMMA AppTypes ==
    ASSUME Inv, NEW c \in Calls, NEW m, AppMove(c, m)
    PROVE  TypeOK' /\ ApiInv' /\ BotPlace' /\ NoneSkipped'
<1> USE DEF Inv, ClientInv
<1>1. ApiInv'
  BY ReplacesKeeps DEF AppMove
<1>2. requesting' \in Calls \cup {Nobody} /\ verifying' \in Calls \cup {Nobody}
  BY DEF AppMove, Asks, Tries, EndsRequest, EndsVerify, TypeOK
<1>3. TypeOK'
  BY <1>1, <1>2 DEF TypeOK, ApiInv, AppMove, AppUnchanged, telegram, botState, botPast
<1> QED BY <1>1, <1>3 DEF BotPlace, NoneSkipped, Behind, AppMove, AppUnchanged, telegram,
                         botState, botPast

LEMMA AppCallsOwned ==
    ASSUME Inv, NEW c \in Calls, NEW m, AppMove(c, m)
    PROVE  CallsOwned'
<1> USE DEF Inv, ClientInv
<1>1. /\ call \in [Calls -> CallType] /\ m \in CallType /\ call' = [call EXCEPT ![c] = m]
      /\ {requesting, verifying, serving} \subseteq Calls \cup {Nobody} /\ Nobody \notin Calls
      /\ serving' = serving
  BY NobodyAssumption DEF TypeOK, ApiTypeOK, AppMove, Replaces, AppUnchanged, botState
<1>2. serving # Nobody => Confirms(call'[serving])
  BY AppLeavesBot DEF CallsOwned
<1>3. ASSUME Asks(c, m) \/ Tries(c, m)
      PROVE  c # requesting /\ c # verifying
  BY <1>1, <1>3 DEF Asks, Tries, CallsOwned, Requests, Verifies, NoCall, Answers
<1>4. CASE Asks(c, m)
  <2>1. Requests(m)
    BY <1>4 DEF Asks, Requests, FreshSessions
  <2>2. m.at \notin Answers
    BY <1>4 DEF Asks, Answers
  <2> QED BY <1>1, <1>2, <1>3, <1>4, <2>1, <2>2 DEF Asks, CallsOwned
<1>5. CASE Tries(c, m)
  <2>1. Verifies(m) /\ m.at \notin Answers
    BY <1>5 DEF Tries, Verifies, Answers
  <2> QED BY <1>1, <1>2, <1>3, <1>5, <2>1 DEF Tries, CallsOwned
<1>6. ASSUME Ended(call[c], m)
      PROVE  m.by \notin {"app", "bot"} /\ m.at \notin Answers
  <2>1. CASE m = NoCall
    BY <2>1 DEF NoCall, Answers
  <2>2. CASE m # NoCall
    BY <1>1, <1>6, <2>2 DEF Ended, CallType
  <2> QED BY <2>1, <2>2
<1>7. CASE EndsRequest(c, m)
  BY <1>1, <1>2, <1>6, <1>7 DEF EndsRequest, CallsOwned
<1>8. CASE EndsVerify(c, m)
  BY <1>1, <1>2, <1>6, <1>8 DEF EndsVerify, CallsOwned
<1> QED BY <1>4, <1>5, <1>7, <1>8 DEF AppMove

LEMMA AppMarkedInUse ==
    ASSUME Inv, NEW c \in Calls, NEW m, AppMove(c, m)
    PROVE  MarkedInUse'
<1> USE DEF Inv, ClientInv
<1>1. /\ call \in [Calls -> CallType] /\ call' = [call EXCEPT ![c] = m]
      /\ Nobody \notin Calls /\ UNCHANGED <<serving, sessions, linked>>
  BY NobodyAssumption DEF TypeOK, ApiTypeOK, AppMove, Replaces, AppUnchanged, botState, tables, past
<1>2. wasted \subseteq wasted' /\ delivered \subseteq delivered'
  BY DEF AppMove, Asks, Tries, EndsRequest, EndsVerify
<1> SUFFICES ASSUME NEW s \in Sessions, sessions[s].verified,
                    s \notin wasted' \cup linked \cup delivered'
             PROVE  \E d \in Calls \ {requesting', serving} : call'[d].session = s /\ Spent(d)'
  BY <1>1 DEF MarkedInUse
<1>3. PICK d \in Calls \ {requesting, serving} : call[d].session = s /\ Spent(d)
  BY <1>2 DEF MarkedInUse
<1>4. d # c
  <2>1. CASE Asks(c, m) \/ Tries(c, m)
    BY <1>3, <2>1 DEF Asks, Tries, Spent, NoCall
  <2>2. CASE EndsRequest(c, m)
    BY <1>3, <2>2 DEF EndsRequest
  <2>3. CASE EndsVerify(c, m)
    BY <1>3, <2>3 DEF EndsVerify
  <2> QED BY <2>1, <2>2, <2>3 DEF AppMove
<1>5. d # requesting'
  BY <1>1, <1>3, <1>4 DEF AppMove, Asks, Tries, EndsRequest, EndsVerify
<1> QED BY <1>1, <1>3, <1>4, <1>5 DEF Spent

LEMMA AppMadeOnce ==
    ASSUME Inv, NEW c \in Calls, NEW m, AppMove(c, m)
    PROVE  MadeOnce'
<1> USE DEF Inv, ClientInv
<1>1. /\ call \in [Calls -> CallType] /\ call' = [call EXCEPT ![c] = m]
      /\ UNCHANGED <<sessions, inbox, pending>>
  BY DEF TypeOK, ApiTypeOK, AppMove, Replaces, AppUnchanged, telegram, botState, tables
<1>2. m.at = "creating" =>
        \/ m.session \in FreshSessions
        \/ call[c].at = "creating" /\ call[c].session = m.session
  <2>1. ASSUME Ended(call[c], m), m.at = "creating"
        PROVE  call[c].at = "creating" /\ call[c].session = m.session
    BY <1>1, <2>1 DEF Ended, NoCall, CallType
  <2> QED BY <2>1 DEF AppMove, Asks, Tries, EndsRequest, EndsVerify
<1>3. ASSUME NEW a \in Calls, NEW d \in Calls, call'[a].at = "creating"
      PROVE  /\ sessions[call'[a].session].state = "none"
             /\ call'[d].at = "creating" /\ call'[d].session = call'[a].session => a = d
  BY <1>1, <1>2, <1>3 DEF MadeOnce, OneCreation, FreshSessions
<1> QED BY <1>1, <1>3 DEF MadeOnce, OneCreation

LEMMA AppPendingFits ==
    ASSUME Inv, NEW c \in Calls, NEW m, AppMove(c, m)
    PROVE  PendingFits' /\ ToldSettled'
<1> USE DEF Inv, ClientInv
<1>1. UNCHANGED <<sessions, inbox, acked, offset, bot, pending, serving, told, forgotten, dropped>>
  BY DEF AppMove, Replaces, AppUnchanged, telegram, botState, botPast, tables, past
<1>2. bot = "confirming" => call'[serving] = call[serving]
  BY AppLeavesBot DEF TypeOK
<1>3. Reached' = Reached /\ \A d, i : LastStart(d, i)' <=> LastStart(d, i)
  BY <1>1 DEF Reached, LastStart
<1>4. \A i : MeantFor(i)' = MeantFor(i)
  BY <1>1 DEF MeantFor, Starts
<1> QED BY <1>1, <1>2, <1>3, <1>4 DEF PendingFits, ToldSettled, Settled

LEMMA AppKeeps == ASSUME Inv, AppSteps PROVE Inv'
<1>1. PICK c \in Calls, m \in CallType : AppMove(c, m)
  BY AppMoves
<1> QED BY <1>1, AppTypes, AppCallsOwned, AppMarkedInUse, AppMadeOnce, AppPendingFits
       DEF Inv, ClientInv

-----------------------------------------------------------------------------
(* A message that arrives changes nothing about those before it. *)
LEMMA WritesKeep == ASSUME Inv, UserWrites PROVE Inv'
<1> USE DEF Inv, ClientInv
<1>1. /\ UNCHANGED <<api, app, acked, botState, botPast, delivered, wasted>>
      /\ Nobody \notin Sessions
  BY NobodyAssumption DEF UserWrites
<1>2. PICK m \in Message :
         /\ m.kind = "start" => m.session \in OnTelegram /\ sessions[m.session].state # "none"
         /\ inbox' = Append(inbox, m)
  BY DEF UserWrites
<1>3. /\ inbox \in Seq(Message) /\ Len(inbox) \in Nat /\ {acked, offset, last} \subseteq 0..Len(inbox)
      /\ told \subseteq 1..Len(inbox)
  BY DEF TypeOK
<1>4. /\ inbox' \in Seq(Message) /\ Len(inbox') = Len(inbox) + 1
      /\ \A i \in 1..Len(inbox) : inbox'[i] = inbox[i]
      /\ inbox'[Len(inbox) + 1] = m
  BY <1>2, <1>3
<1>5. ApiInv' /\ CallsOwned' /\ MarkedInUse'
  BY <1>1 DEF api, app, botState, tables, past, ApiInv, ApiTypeOK, CallsFit, CreatedIsStored,
              AttestedOrRegistered, CallsOwned, MarkedInUse, Spent
<1>6. TypeOK'
  BY <1>1, <1>3, <1>4, <1>5 DEF TypeOK, ApiInv, app, botState, botPast
<1>7. BotPlace'
  BY <1>1, <1>3, <1>4 DEF BotPlace, botState
<1>8. NoneSkipped'
  BY <1>1 DEF NoneSkipped, Behind, botState, botPast
<1>9. MadeOnce'
  <2>1. UNCHANGED <<sessions, call, pending>>
    BY <1>1 DEF api, tables, botState
  <2>2. ASSUME NEW i \in 1..Len(inbox'), inbox'[i].kind = "start"
        PROVE  inbox'[i].session \in Sessions /\ sessions[inbox'[i].session].state # "none"
    <3>1. CASE i \in 1..Len(inbox)
      BY <1>4, <2>2, <3>1 DEF MadeOnce
    <3>2. CASE i = Len(inbox) + 1
      BY <1>2, <1>4, <2>2, <3>2 DEF OnTelegram
    <3> QED BY <1>3, <1>4, <2>2, <3>1, <3>2
  <2> QED BY <2>1, <2>2 DEF MadeOnce, OneCreation
<1>10. UNCHANGED <<sessions, call, dropped, bot, offset, acked, pending, serving, forgotten, told>>
  BY <1>1 DEF api, tables, past, botState, botPast
<1>11. PendingFits'
  <2>1. Reached' = Reached /\ Reached \in 0..Len(inbox)
    BY <1>3, <1>10 DEF Reached
  <2>2. ASSUME NEW d \in Digits, NEW i \in 1..Reached, LastStart(d, i)'
        PROVE  LastStart(d, i) /\ inbox'[i] = inbox[i]
    BY <1>3, <1>4, <2>1, <2>2 DEF LastStart
  <2>3. bot \in {"confirming", "confirmed"} => inbox'[offset] = inbox[offset]
    BY <1>3, <1>4 DEF BotPlace
  <2> QED BY <1>10, <2>1, <2>2, <2>3 DEF PendingFits, Settled
<1>12. ToldSettled'
  <2>1. ASSUME NEW i \in told PROVE MeantFor(i)' = MeantFor(i)
    <3>1. \A j \in 1..i : inbox'[j] = inbox[j]
      BY <1>3, <1>4
    <3>2. i \in Nat /\ Starts(i)' = Starts(i)
      BY <1>3, <3>1 DEF Starts
    <3>3. \A j \in Starts(i) : inbox'[j] = inbox[j]
      BY <3>1, <3>2 DEF Starts
    <3> QED BY <3>2, <3>3 DEF MeantFor
  <2> QED BY <1>10, <2>1 DEF ToldSettled, Settled
<1> QED BY <1>5, <1>6, <1>7, <1>8, <1>9, <1>11, <1>12

-----------------------------------------------------------------------------
(* What the bot's steps do to the API: nothing, a new call, or the end of one. *)
Confirming(c, m) ==
    /\ call[c] = NoCall /\ serving = Nobody /\ serving' = c
    /\ Replaces(c, m) /\ m.by = "bot" /\ m.at = "linking"
EndsConfirm(c, m) ==
    serving = c /\ serving' = Nobody /\ Replaces(c, m) /\ Ended(call[c], m)

BotMove ==
    \/ UNCHANGED <<tables, call, past, begun, serving>> /\ faults' \in Nat
    \/ \E c \in Calls, m \in CallType : Confirming(c, m)
    \/ \E c \in Calls, m \in CallType : EndsConfirm(c, m)

BotSteps == BotStep \/ BotFault

LEMMA BotMoves == ASSUME Inv, BotSteps PROVE BotMove /\ BotUnchanged
<1> USE DEF Inv, ClientInv
<1>1. /\ ApiInv /\ call \in [Calls -> CallType] /\ serving \in Calls \cup {Nobody}
      /\ faults \in Nat /\ (bot = "confirming" <=> serving # Nobody)
      /\ offset \in 0..Len(inbox) /\ last \in 0..Len(inbox) /\ inbox \in Seq(Message)
      /\ pending \in [Digits -> Sessions \cup {Nobody}]
  BY DEF TypeOK, ApiInv, ApiTypeOK
<1>2. CASE Poll \/ ReplyOnly \/ StartSession \/ Replied
  BY <1>1, <1>2 DEF Poll, ReplyOnly, StartSession, Replied, BotMove, api
<1>3. CASE ConfirmContact
  <2> DEFINE d == inbox[offset + 1].chat
             m == [at |-> "linking", by |-> "bot", session |-> pending[d], right |-> TRUE,
                   account |-> <<"tg", d>>, score |-> 15]
  <2>1. offset' = offset + 1 /\ inbox' = inbox
    BY <1>3 DEF ConfirmContact, BotUnchanged
  <2>2. PICK c \in Calls :
           Begin(c, "linking", "bot", pending[d], TRUE, <<"tg", d>>, 15) /\ serving' = c
    BY <1>3, <2>1 DEF ConfirmContact
  <2>3. d \in Digits
    <3>1. bot = "batch" /\ offset < last
      BY <1>3 DEF ConfirmContact, BotPlace
    <3>2. offset + 1 \in 1..Len(inbox)
      BY <1>1, <3>1
    <3>3. inbox[offset + 1] \in Message
      BY <1>1, <3>2
    <3> QED BY <3>3 DEF Message
  <2>4. m \in CallType /\ Fits(m, devices)
    BY <1>1, <2>3 DEF CallType, Callers, Stages, Accounts, Fits
  <2>5. serving = Nobody
    BY <1>1, <1>3 DEF ConfirmContact
  <2>6. call[c] = NoCall /\ call' = [call EXCEPT ![c] = m]
    BY <2>2 DEF Begin
  <2>7. Confirming(c, m)
    BY <1>1, <1>3, <2>2, <2>4, <2>5, <2>6, SentOrDisturbed
    DEF ConfirmContact, Confirming, Replaces
  <2> HIDE DEF m
  <2> QED BY <1>3, <2>4, <2>7 DEF ConfirmContact, BotMove
<1>4. ASSUME serving \in Calls, Took(serving) \/ LetGo(serving), serving' = Nobody,
             Sent \/ (Disturb /\ UNCHANGED <<tables, past, begun>>)
      PROVE  BotMove
  <2>1. PICK m \in CallType : /\ Fits(m, devices) /\ call' = [call EXCEPT ![serving] = m]
                              /\ Ended(call[serving], m)
    BY <1>1, <1>4, TookEnds, LetGoEnds
  <2>2. EndsConfirm(serving, m)
    BY <1>1, <1>4, <2>1, SentOrDisturbed DEF EndsConfirm, Replaces
  <2> QED BY <1>4, <2>2 DEF BotMove
<1>5. CASE Confirmed \/ NotConfirmed
  BY <1>1, <1>4, <1>5 DEF Confirmed, NotConfirmed
<1>6. CASE ConfirmBreaks
  <2>1. CASE bot = "confirming"
    BY <1>1, <1>4, <1>6, <2>1 DEF ConfirmBreaks
  <2>2. CASE bot # "confirming"
    BY <1>1, <1>6, <2>2, SentOrDisturbed DEF ConfirmBreaks, BotMove
  <2> QED BY <1>6, <2>1, <2>2 DEF ConfirmBreaks
<1>7. CASE ReplyThrows
  BY <1>1, <1>7, SentOrDisturbed DEF ReplyThrows, BotMove
<1>8. CASE BotRestarts
  <2>1. CASE serving = Nobody
    BY <1>1, <1>8, <2>1, SentOrDisturbed DEF BotRestarts, BotMove
  <2>2. CASE serving # Nobody
    BY <1>1, <1>4, <1>8, <2>2 DEF BotRestarts
  <2> QED BY <1>8, <2>1, <2>2 DEF BotRestarts
<1> QED BY <1>2, <1>3, <1>5, <1>6, <1>7, <1>8 DEF BotSteps, BotStep, BotFault

LEMMA BotCallsOwned ==
    ASSUME Inv, BotMove, BotUnchanged
    PROVE  ApiInv' /\ CallsOwned'
<1> USE DEF Inv, ClientInv
<1>1. /\ call \in [Calls -> CallType] /\ Nobody \notin Calls
      /\ {requesting, verifying, serving} \subseteq Calls \cup {Nobody}
      /\ UNCHANGED <<requesting, verifying>>
  BY NobodyAssumption DEF TypeOK, ApiTypeOK, BotUnchanged, app
<1>2. CASE UNCHANGED <<tables, call, past, begun, serving>> /\ faults' \in Nat
  BY <1>1, <1>2 DEF ApiInv, ApiTypeOK, CallsFit, CreatedIsStored, AttestedOrRegistered,
                    CallsOwned, tables, past
<1>3. ASSUME NEW c \in Calls, NEW m \in CallType, Confirming(c, m) PROVE ApiInv' /\ CallsOwned'
  <2>1. c # requesting /\ c # verifying
    BY <1>1, <1>3 DEF Confirming, CallsOwned, Requests, Verifies, NoCall, Answers
  <2>2. Confirms(m) /\ m.at \notin Answers
    BY <1>3 DEF Confirming, Confirms, Answers
  <2> QED BY <1>1, <1>3, <2>1, <2>2, ReplacesKeeps DEF Confirming, Replaces, CallsOwned
<1>4. ASSUME NEW c \in Calls, NEW m \in CallType, EndsConfirm(c, m) PROVE ApiInv' /\ CallsOwned'
  <2>1. m.by \notin {"app", "bot"} /\ m.at \notin Answers
    <3>1. CASE m = NoCall
      BY <3>1 DEF NoCall, Answers
    <3>2. CASE m # NoCall
      BY <1>1, <1>4, <3>2 DEF EndsConfirm, Ended, CallType
    <3> QED BY <3>1, <3>2
  <2>2. c # requesting /\ c # verifying
    BY <1>1, <1>4 DEF EndsConfirm, CallsOwned, Requests, Verifies, Confirms
  <2> QED BY <1>1, <1>4, <2>1, <2>2, ReplacesKeeps DEF EndsConfirm, Replaces, CallsOwned
<1> QED BY <1>2, <1>3, <1>4 DEF BotMove

LEMMA BotMarkedInUse ==
    ASSUME Inv, BotMove, BotUnchanged
    PROVE  MarkedInUse'
<1> USE DEF Inv, ClientInv
<1>1. /\ call \in [Calls -> CallType] /\ Nobody \notin Calls
      /\ UNCHANGED <<requesting, sessions, linked, delivered, wasted>>
  BY NobodyAssumption
  DEF TypeOK, ApiTypeOK, BotMove, BotUnchanged, app, Confirming, EndsConfirm, Replaces, tables, past
<1> SUFFICES ASSUME NEW s \in Sessions, sessions[s].verified,
                    s \notin wasted \cup linked \cup delivered
             PROVE  \E d \in Calls \ {requesting, serving'} : call'[d].session = s /\ Spent(d)'
  BY <1>1 DEF MarkedInUse
<1>2. PICK d \in Calls \ {requesting, serving} : call[d].session = s /\ Spent(d)
  BY DEF MarkedInUse
<1>3. call'[d] = call[d] /\ d # serving'
  BY <1>1, <1>2 DEF BotMove, Confirming, EndsConfirm, Replaces, Spent, NoCall
<1> QED BY <1>1, <1>2, <1>3 DEF Spent

LEMMA BotMadeOnce ==
    ASSUME Inv, BotSteps
    PROVE  MadeOnce'
<1> USE DEF Inv, ClientInv
<1>1. BotMove /\ BotUnchanged
  BY BotMoves
<1>2. /\ call \in [Calls -> CallType] /\ serving \in Calls \cup {Nobody} /\ Nobody \notin Calls
      /\ UNCHANGED <<sessions, inbox>> /\ inbox \in Seq(Message) /\ Len(inbox) \in Nat
      /\ offset \in 0..Len(inbox) /\ last \in 0..Len(inbox)
      /\ pending \in [Digits -> Sessions \cup {Nobody}]
  BY <1>1, NobodyAssumption
  DEF TypeOK, ApiTypeOK, BotMove, BotUnchanged, Confirming, EndsConfirm, Replaces, tables
<1>3. \A c \in Calls : call'[c].at = "creating" => call'[c] = call[c]
  <2>1. CASE call' = call
    BY <2>1
  <2>2. ASSUME NEW c \in Calls, NEW m \in CallType, Confirming(c, m)
        PROVE  \A d \in Calls : call'[d].at = "creating" => call'[d] = call[d]
    BY <1>2, <2>2 DEF Confirming, Replaces
  <2>3. ASSUME NEW c \in Calls, NEW m \in CallType, EndsConfirm(c, m)
        PROVE  \A d \in Calls : call'[d].at = "creating" => call'[d] = call[d]
    <3>1. m.at # "creating"
      BY <1>2, <2>3 DEF EndsConfirm, Ended, NoCall, CallsOwned, Confirms, CallType, Answers
    <3> QED BY <1>2, <2>3, <3>1 DEF EndsConfirm, Replaces
  <2> QED BY <1>1, <2>1, <2>2, <2>3 DEF BotMove
<1>4. \A d \in Digits : pending'[d] # Nobody => sessions[pending'[d]].state # "none"
  <2>1. CASE StartSession
    <3>1. bot = "batch" /\ offset < last
      BY <2>1 DEF StartSession, BotPlace
    <3>2. offset + 1 \in 1..Len(inbox) /\ offset' = offset + 1
      BY <1>2, <2>1, <3>1 DEF StartSession
    <3>3. sessions[inbox[offset + 1].session].state # "none"
      BY <2>1, <3>2 DEF StartSession, MadeOnce
    <3>4. pending' = [pending EXCEPT ![inbox[offset + 1].chat] = inbox[offset + 1].session]
      BY <1>2, <2>1, <3>2 DEF StartSession
    <3> QED BY <1>2, <3>3, <3>4 DEF MadeOnce
  <2>2. ASSUME BotSteps, ~StartSession
        PROVE  \A d \in Digits : pending'[d] = pending[d] \/ pending'[d] = Nobody
    BY <1>2, <2>2 DEF BotSteps, BotStep, BotFault, Poll, ReplyOnly, ConfirmContact, Confirmed,
                      NotConfirmed, Replied, ConfirmBreaks, ReplyThrows, BotRestarts
  <2> QED BY <2>1, <2>2 DEF MadeOnce
<1> QED BY <1>2, <1>3, <1>4 DEF MadeOnce, OneCreation

(* The bot's place in the inbox, step by step, and what is behind it. *)
LEMMA BotTypes ==
    ASSUME Inv, BotSteps
    PROVE  TypeOK' /\ BotPlace' /\ NoneSkipped'
<1> USE DEF Inv, ClientInv
<1>1. BotMove /\ BotUnchanged
  BY BotMoves
<1>2. ApiInv'
  BY <1>1, BotCallsOwned
<1>3. /\ inbox' = inbox /\ inbox \in Seq(Message) /\ Len(inbox) \in Nat
      /\ acked \in 0..Len(inbox) /\ offset \in 0..Len(inbox) /\ last \in 0..Len(inbox)
      /\ bot \in BotStages /\ (bot = "confirming" <=> serving # Nobody)
      /\ pending \in [Digits -> Sessions \cup {Nobody}] /\ serving \in Calls \cup {Nobody}
      /\ handled \cup thrown \cup told \subseteq 1..Len(inbox) /\ forgotten \subseteq Sessions
      /\ Nobody \notin Calls
  BY <1>1, NobodyAssumption DEF TypeOK, BotUnchanged
<1> DEFINE Place == /\ acked' \in 0..Len(inbox) /\ offset' \in 0..Len(inbox) /\ last' \in 0..Len(inbox)
                    /\ bot' \in BotStages /\ (bot' = "confirming" <=> serving' # Nobody)
                    /\ pending' \in [Digits -> Sessions \cup {Nobody}]
                    /\ serving' \in Calls \cup {Nobody}
                    /\ handled' \cup thrown' \cup told' \subseteq 1..Len(inbox)
                    /\ forgotten' \subseteq Sessions
<1>4. SUFFICES Place /\ BotPlace' /\ NoneSkipped'
  BY <1>1, <1>2, <1>3 DEF TypeOK, ApiInv, BotUnchanged, app
<1> USE DEF botPast
<1>5. \A i \in 1..Len(inbox) : inbox[i] \in Message
  BY <1>3
<1>6. CASE Poll
  <2>1. acked' = Reached /\ offset' = Reached /\ last' = Len(inbox) /\ Reached \in 0..Len(inbox)
    BY <1>3, <1>6 DEF Poll, Reached
  <2>2. Place
    BY <1>3, <1>6, <2>1 DEF Poll, BotStages
  <2>3. BotPlace'
    BY <1>3, <1>6, <2>1 DEF Poll, BotPlace
  <2>4. NoneSkipped'
    BY <1>3, <1>6, <2>1 DEF Poll, NoneSkipped, Behind, Reached
  <2> QED BY <2>2, <2>3, <2>4
<1>7. ASSUME bot = "batch" PROVE offset + 1 \in 1..Len(inbox) /\ acked <= offset /\ offset < last
  BY <1>3, <1>7 DEF BotPlace
<1>8. ASSUME offset' = offset + 1, bot = "batch", bot' \in {"replying", "confirming"},
             bot' = "confirming" => inbox[offset + 1].kind = "contact",
             UNCHANGED <<acked, last, handled, thrown>>
      PROVE  BotPlace' /\ NoneSkipped'
  <2>1. BotPlace'
    BY <1>3, <1>7, <1>8 DEF BotPlace
  <2>2. Behind' = offset /\ Behind = offset
    BY <1>3, <1>8 DEF Behind
  <2> QED BY <1>8, <2>1, <2>2 DEF NoneSkipped
<1>9. CASE ReplyOnly
  BY <1>3, <1>7, <1>8, <1>9 DEF ReplyOnly, BotStages
<1>10. CASE StartSession
  <2>1. inbox[offset + 1].session \in Sessions /\ inbox[offset + 1].chat \in Digits
    BY <1>5, <1>7, <1>10 DEF StartSession, MadeOnce, Message
  <2>2. Place
    BY <1>3, <1>7, <1>10, <2>1 DEF StartSession, BotStages
  <2> QED BY <1>3, <1>8, <1>10, <2>2 DEF StartSession
<1>11. CASE ConfirmContact
  <2>1. serving' \in Calls
    BY <1>11 DEF ConfirmContact
  <2>2. Place
    BY <1>3, <1>7, <1>11, <2>1 DEF ConfirmContact, BotStages
  <2> QED BY <1>3, <1>8, <1>11, <2>2 DEF ConfirmContact
<1>12. CASE Confirmed
  <2>1. Place
    BY <1>3, <1>12 DEF Confirmed, BotStages
  <2>2. BotPlace'
    BY <1>3, <1>12 DEF Confirmed, BotPlace
  <2>3. NoneSkipped'
    BY <1>3, <1>12 DEF Confirmed, NoneSkipped, Behind
  <2> QED BY <2>1, <2>2, <2>3
<1>13. CASE NotConfirmed \/ ConfirmBreaks
  <2>1. Place
    BY <1>3, <1>13 DEF NotConfirmed, ConfirmBreaks, BotStages
  <2>2. BotPlace'
    BY <1>3, <1>13 DEF NotConfirmed, ConfirmBreaks, BotPlace
  <2>3. NoneSkipped'
    BY <1>3, <1>13 DEF NotConfirmed, ConfirmBreaks, NoneSkipped, Behind
  <2> QED BY <2>1, <2>2, <2>3
<1>14. CASE Replied
  <2>1. acked < offset /\ offset <= last
    BY <1>14 DEF Replied, BotPlace
  <2>2. Place
    BY <1>3, <1>14, <2>1 DEF Replied, BotStages
  <2>3. BotPlace'
    BY <1>3, <1>14, <2>1 DEF Replied, BotPlace
  <2>4. Behind = offset - 1 /\ Behind' = offset /\ acked' = acked
    BY <1>14 DEF Replied, Behind
  <2>5. NoneSkipped'
    BY <1>3, <1>14, <2>4 DEF Replied, NoneSkipped
  <2> QED BY <2>2, <2>3, <2>5
<1>15. CASE ReplyThrows
  <2>1. acked < offset /\ offset <= last
    BY <1>15 DEF ReplyThrows, BotPlace
  <2>2. Place
    BY <1>3, <1>15, <2>1 DEF ReplyThrows, BotStages
  <2>3. BotPlace'
    BY <1>3, <1>15, <2>1 DEF ReplyThrows, BotPlace
  <2>4. Behind = offset - 1 /\ Behind' = offset /\ acked' = acked
    BY <1>15 DEF ReplyThrows, Behind
  <2>5. NoneSkipped'
    BY <1>3, <1>15, <2>4 DEF ReplyThrows, NoneSkipped
  <2> QED BY <2>2, <2>3, <2>5
<1>16. CASE BotRestarts
  <2>1. forgotten' \subseteq Sessions
    BY <1>3, <1>16 DEF BotRestarts, MadeOnce
  <2>2. Place
    BY <1>3, <1>16, <2>1 DEF BotRestarts, BotStages
  <2>3. BotPlace'
    BY <1>3, <1>16 DEF BotRestarts, BotPlace
  <2>4. NoneSkipped'
    BY <1>3, <1>16 DEF BotRestarts, NoneSkipped, Behind
  <2> QED BY <2>2, <2>3, <2>4
<1> QED BY <1>6, <1>9, <1>10, <1>11, <1>12, <1>13, <1>14, <1>15, <1>16
       DEF BotSteps, BotStep, BotFault

(* With the offset one further, the last starts are those before it unless the
   message is a start.                                                       *)
LEMMA NextMessage ==
    ASSUME Inv, bot = "batch", offset' = offset + 1, acked' = acked, inbox' = inbox
    PROVE  /\ Reached = offset /\ Reached' = offset + 1 /\ offset + 1 \in 1..Len(inbox)
           /\ \A d \in Digits : \A i \in 1..Reached' :
                 LastStart(d, i)' =>
                    \/ i \in 1..Reached /\ LastStart(d, i)
                    \/ i = offset + 1 /\ inbox[i].kind = "start"
           /\ inbox[offset + 1].kind = "start" =>
                 \A d : d = inbox[offset + 1].chat =>
                    \A i \in 1..Reached' : LastStart(d, i)' => i = offset + 1
<1>1. /\ offset \in Nat /\ acked \in Nat /\ acked <= offset /\ offset < last
      /\ last \in 0..Len(inbox) /\ Len(inbox) \in Nat
  BY DEF Inv, ClientInv, TypeOK, BotPlace
<1>2. Reached = offset /\ Reached' = offset + 1 /\ offset + 1 \in 1..Len(inbox)
  BY <1>1 DEF Reached
<1>3. ASSUME NEW d, NEW i \in 1..Reached', LastStart(d, i)', i # offset + 1
      PROVE  i \in 1..Reached /\ LastStart(d, i)
  BY <1>1, <1>2, <1>3 DEF LastStart
<1>4. ASSUME NEW d, NEW i \in 1..Reached', LastStart(d, i)' PROVE inbox[i].kind = "start"
  BY <1>4 DEF LastStart
<1>5. ASSUME inbox[offset + 1].kind = "start", NEW i \in 1..Reached',
             NEW d, d = inbox[offset + 1].chat, LastStart(d, i)'
      PROVE  i = offset + 1
  BY <1>1, <1>2, <1>5 DEF LastStart
<1> QED BY <1>2, <1>3, <1>4, <1>5

(* The bot's steps settle nothing and unsettle nothing. *)
LEMMA BotSettles ==
    ASSUME Inv, BotSteps
    PROVE  /\ UNCHANGED <<sessions, dropped, inbox>> /\ forgotten \subseteq forgotten'
           /\ \A s : Settled(s) => Settled(s)'
<1>1. UNCHANGED <<sessions, dropped, inbox>>
  BY BotMoves DEF BotMove, BotUnchanged, Confirming, EndsConfirm, Replaces, tables, past
<1>2. forgotten \subseteq forgotten'
  BY DEF BotSteps, BotStep, BotFault, Poll, ReplyOnly, StartSession, ConfirmContact, Confirmed,
         NotConfirmed, Replied, ConfirmBreaks, ReplyThrows, BotRestarts, botPast
<1> QED BY <1>1, <1>2 DEF Settled

LEMMA BotPendingFits ==
    ASSUME Inv, BotSteps
    PROVE  PendingFits'
<1> USE DEF Inv, ClientInv
<1>1. /\ UNCHANGED <<sessions, dropped, inbox>> /\ forgotten \subseteq forgotten'
      /\ \A s : Settled(s) => Settled(s)'
  BY BotSettles
<1>2. /\ inbox \in Seq(Message) /\ Len(inbox) \in Nat
      /\ acked \in 0..Len(inbox) /\ offset \in 0..Len(inbox) /\ last \in 0..Len(inbox)
      /\ (bot = "confirming" <=> serving # Nobody) /\ serving \in Calls \cup {Nobody}
      /\ pending \in [Digits -> Sessions \cup {Nobody}] /\ call \in [Calls -> CallType]
      /\ Nobody \notin Calls /\ Nobody \notin Sessions
      /\ \A i \in 1..Len(inbox) : inbox[i] \in Message
  BY NobodyAssumption DEF TypeOK, ApiTypeOK
<1> DEFINE Kept == \A d \in Digits : \A i \in 1..Reached' :
                      LastStart(d, i)' => pending'[d] = inbox[i].session \/ Settled(inbox[i].session)'
<1>3. ASSUME Reached' = Reached,
             \A d \in Digits : pending'[d] = pending[d]
                               \/ \A i \in 1..Reached : LastStart(d, i) => Settled(inbox[i].session)
      PROVE  Kept
  <2> SUFFICES ASSUME NEW d \in Digits, NEW i \in 1..Reached, LastStart(d, i)'
               PROVE  pending'[d] = inbox[i].session \/ Settled(inbox[i].session)'
    BY <1>3
  <2>1. LastStart(d, i)
    BY <1>1, <1>3 DEF LastStart
  <2>2. pending'[d] = inbox[i].session \/ Settled(inbox[i].session)
    BY <1>3, <2>1 DEF PendingFits
  <2> QED BY <1>1, <2>2 DEF Settled
<1>4. ASSUME UNCHANGED <<acked, offset>> PROVE Reached' = Reached
  BY <1>4 DEF Reached
<1>5. ASSUME bot = "batch", offset' = offset + 1, acked' = acked, UNCHANGED pending,
             inbox[offset + 1].kind # "start"
      PROVE  Kept
  <2> SUFFICES ASSUME NEW d \in Digits, NEW i \in 1..Reached', LastStart(d, i)'
               PROVE  pending[d] = inbox[i].session \/ Settled(inbox[i].session)'
    BY <1>5
  <2>1. i \in 1..Reached /\ LastStart(d, i)
    BY <1>1, <1>5, NextMessage
  <2>2. pending[d] = inbox[i].session \/ Settled(inbox[i].session)
    BY <2>1 DEF PendingFits
  <2> QED BY <1>1, <2>2 DEF Settled
<1>6. ASSUME Kept, bot' \notin {"confirming", "confirmed"} PROVE PendingFits'
  BY <1>1, <1>6 DEF PendingFits
<1>7. CASE Poll
  <2>1. Reached' = Reached
    BY <1>2, <1>7 DEF Poll, Reached
  <2> QED BY <1>3, <1>6, <1>7, <2>1 DEF Poll
<1>8. CASE ReplyOnly
  BY <1>5, <1>6, <1>8 DEF ReplyOnly
<1>9. CASE StartSession
  <2> DEFINE m == inbox[offset + 1]
  <2>1. bot = "batch" /\ offset' = offset + 1 /\ acked' = acked /\ m.kind = "start"
        /\ pending' = [pending EXCEPT ![m.chat] = m.session]
    BY <1>1, <1>9 DEF StartSession
  <2>2. m.chat \in Digits
    BY <1>1, <1>2, <2>1, NextMessage DEF Message
  <2>3. Kept
    <3> SUFFICES ASSUME NEW d \in Digits, NEW i \in 1..Reached', LastStart(d, i)'
                 PROVE  pending'[d] = inbox[i].session \/ Settled(inbox[i].session)'
      OBVIOUS
    <3>1. CASE i = offset + 1
      <4>1. d = m.chat
        BY <1>1, <2>1, <3>1 DEF LastStart
      <4> QED BY <1>2, <2>1, <2>2, <3>1, <4>1
    <3>2. CASE i # offset + 1
      <4>1. i \in 1..Reached /\ LastStart(d, i) /\ d # m.chat
        BY <1>1, <2>1, <2>2, <3>2, NextMessage
      <4>2. pending[d] = inbox[i].session \/ Settled(inbox[i].session)
        BY <4>1 DEF PendingFits
      <4>3. pending'[d] = pending[d]
        BY <1>2, <2>1, <4>1
      <4> QED BY <1>1, <4>2, <4>3 DEF Settled
    <3> QED BY <3>1, <3>2
  <2> QED BY <1>6, <1>9, <2>3 DEF StartSession
<1>10. CASE ConfirmContact
  <2>1. Kept
    BY <1>5, <1>10 DEF ConfirmContact
  <2>2. call'[serving'].session = pending[inbox[offset + 1].chat]
        /\ call'[serving'].at = "linking"
    BY <1>1, <1>2, <1>10 DEF ConfirmContact, Begin
  <2>3. bot' = "confirming" /\ offset' = offset + 1 /\ pending' = pending
    BY <1>10 DEF ConfirmContact
  <2> QED BY <1>1, <2>1, <2>2, <2>3 DEF PendingFits
<1>11. CASE Confirmed
  <2> DEFINE d == inbox[offset].chat
  <2>1. bot = "confirming" /\ pending' = [pending EXCEPT ![d] = Nobody]
        /\ call[serving].at = "ok" /\ UNCHANGED <<acked, offset>> /\ bot' = "confirmed"
    BY <1>1, <1>11 DEF Confirmed
  <2>2. offset \in 1..Len(inbox)
    BY <1>2, <2>1 DEF BotPlace
  <2>3. d \in Digits
    BY <1>2, <2>2 DEF Message
  <2>4. pending[d] = Nobody \/ Settled(pending[d])
    BY <2>1 DEF PendingFits, Settled
  <2>5. ASSUME NEW i \in 1..Reached, LastStart(d, i) PROVE Settled(inbox[i].session)
    <3>1. i \in 1..Len(inbox) /\ inbox[i].session \in Sessions
      BY <1>2, <2>5 DEF Reached, LastStart, MadeOnce
    <3>2. pending[d] = inbox[i].session \/ Settled(inbox[i].session)
      BY <2>3, <2>5 DEF PendingFits
    <3> QED BY <1>2, <2>4, <3>1, <3>2 DEF Settled
  <2>6. Kept
    BY <1>2, <1>3, <1>4, <2>1, <2>5
  <2>7. pending'[inbox'[offset'].chat] = Nobody
    BY <1>1, <1>2, <2>1, <2>3
  <2> QED BY <1>1, <2>1, <2>6, <2>7 DEF PendingFits
<1>12. CASE NotConfirmed \/ Replied \/ ConfirmBreaks \/ ReplyThrows
  <2>1. UNCHANGED <<acked, offset, pending>> /\ bot' \notin {"confirming", "confirmed"}
    BY <1>12 DEF NotConfirmed, Replied, ConfirmBreaks, ReplyThrows
  <2> QED BY <1>3, <1>4, <1>6, <2>1
<1>13. CASE BotRestarts
  <2>1. /\ offset' = 0 /\ acked' = acked /\ bot' = "polling"
        /\ forgotten' = forgotten \cup
              {inbox[j].session : j \in {i \in 1..offset : inbox[i].kind = "start"}}
    BY <1>13 DEF BotRestarts
  <2>2. Reached' = acked
    BY <1>2, <2>1 DEF Reached
  <2>3. ASSUME NEW d \in Digits, NEW i \in 1..acked, LastStart(d, i)'
        PROVE  Settled(inbox[i].session)'
    <3>1. inbox[i].kind = "start" /\ i \in 1..Len(inbox)
      BY <1>1, <1>2, <2>3 DEF LastStart
    <3>2. CASE acked <= offset
      <4>1. i \in 1..offset
        BY <1>2, <3>2
      <4>2. inbox[i].session \in forgotten'
        BY <2>1, <3>1, <4>1
      <4> QED BY <1>1, <4>2 DEF Settled
    <3>3. CASE offset < acked
      <4>1. Reached = acked /\ pending[d] = Nobody
        BY <1>2, <3>3 DEF Reached, BotPlace
      <4>2. LastStart(d, i)
        BY <1>1, <2>2, <2>3, <4>1 DEF LastStart
      <4>3. inbox[i].session # Nobody
        BY <1>2, <3>1 DEF MadeOnce
      <4>4. Settled(inbox[i].session)
        BY <4>1, <4>2, <4>3 DEF PendingFits
      <4> QED BY <1>1, <4>4 DEF Settled
    <3> QED BY <1>2, <3>2, <3>3
  <2>4. Kept
    BY <2>2, <2>3
  <2> QED BY <1>6, <2>1, <2>4
<1> QED BY <1>7, <1>8, <1>9, <1>10, <1>11, <1>12, <1>13 DEF BotSteps, BotStep, BotFault

LEMMA BotToldSettled ==
    ASSUME Inv, BotSteps
    PROVE  ToldSettled'
<1> USE DEF Inv, ClientInv
<1>1. inbox' = inbox /\ \A s : Settled(s) => Settled(s)'
  BY BotSettles
<1>2. \A i : MeantFor(i)' = MeantFor(i)
  BY <1>1 DEF MeantFor, Starts
<1>3. ASSUME bot = "confirmed", NEW s \in MeantFor(offset) PROVE Settled(s)
  <2>1. PICK j \in Starts(offset) : s = inbox[j].session /\ \A i \in Starts(offset) : i <= j
    BY DEF MeantFor
  <2>2. /\ offset \in Nat /\ acked \in Nat /\ acked < offset /\ offset \in 1..Len(inbox)
        /\ inbox[offset].kind = "contact" /\ inbox \in Seq(Message)
    BY <1>3 DEF TypeOK, BotPlace
  <2>3. inbox[offset].chat \in Digits
    <3>1. inbox[offset] \in Message
      BY <2>2
    <3> QED BY <3>1 DEF Message
  <2>4. Reached = offset /\ j \in 1..Reached /\ LastStart(inbox[offset].chat, j)
    BY <2>1, <2>2 DEF Reached, LastStart, Starts
  <2>5. s \in Sessions
    BY <1>3, <2>2, MeantAreMade
  <2>6. pending[inbox[offset].chat] = Nobody
    BY <1>3 DEF PendingFits
  <2> QED BY <2>1, <2>3, <2>4, <2>5, <2>6, NobodyAssumption DEF PendingFits
<1>4. told' = told \/ (bot = "confirmed" /\ told' = told \cup {offset})
  <2>1. CASE Replied
    BY <2>1 DEF Replied
  <2>2. CASE Poll \/ ReplyOnly \/ StartSession \/ ConfirmContact \/ Confirmed \/ NotConfirmed
    BY <2>2 DEF Poll, ReplyOnly, StartSession, ConfirmContact, Confirmed, NotConfirmed, botPast
  <2>3. CASE BotFault
    BY <2>3 DEF BotFault, ConfirmBreaks, ReplyThrows, BotRestarts, botPast
  <2> QED BY <2>1, <2>2, <2>3 DEF BotSteps, BotStep
<1>5. ASSUME NEW i \in told', NEW s \in MeantFor(i) PROVE Settled(s)
  BY <1>3, <1>4, <1>5 DEF ToldSettled
<1> QED BY <1>1, <1>2, <1>5 DEF ToldSettled

LEMMA BotKeeps == ASSUME Inv, BotSteps PROVE Inv'
  BY BotMoves, BotCallsOwned, BotMarkedInUse, BotMadeOnce, BotTypes, BotPendingFits,
     BotToldSettled DEF Inv, ClientInv

-----------------------------------------------------------------------------
(* The invariant, for every step of the app, the bot, the API and its failures. *)
THEOREM VerificationInvariant == Spec => []Inv
<1>1. Init => Inv
  <2> SUFFICES ASSUME Init PROVE Inv
    OBVIOUS
  <2>1. ApiInv /\ call = [c \in Calls |-> NoCall] /\ sessions = [s \in Sessions |->
                      [state |-> "none", target |-> Nobody, verified |-> FALSE]]
    BY InitKeeps DEF Init, ApiInit
  <2>2. TypeOK
    <3>1. inbox \in Seq(Message) /\ Len(inbox) = 0
      BY DEF Init
    <3>2. /\ {acked, offset, last} \subseteq 0..Len(inbox)
          /\ handled \cup thrown \cup told \subseteq 1..Len(inbox)
      BY <3>1 DEF Init
    <3>3. /\ bot \in BotStages /\ (bot = "confirming" <=> serving # Nobody)
          /\ pending \in [Digits -> Sessions \cup {Nobody}]
      BY DEF Init, BotStages
    <3>4. /\ {held, requesting, verifying, token, serving} \subseteq {Nobody}
          /\ retry \in BOOLEAN /\ delivered = {} /\ wasted = {} /\ forgotten = {}
      BY DEF Init
    <3> QED BY <2>1, <3>1, <3>2, <3>3, <3>4 DEF ApiInv, TypeOK
  <2>3. CallsOwned
    BY <2>1 DEF Init, CallsOwned, NoCall, Answers
  <2>4. BotPlace /\ NoneSkipped
    BY DEF Init, BotPlace, NoneSkipped, Behind
  <2>5. MarkedInUse
    BY <2>1 DEF MarkedInUse
  <2>6. MadeOnce
    BY <2>1 DEF Init, MadeOnce, OneCreation, NoCall
  <2>7. PendingFits /\ ToldSettled
    BY DEF Init, PendingFits, ToldSettled, Reached
  <2> QED BY <2>1, <2>2, <2>3, <2>4, <2>5, <2>6, <2>7 DEF Inv, ClientInv
<1>2. Inv /\ [Next]_vars => Inv'
  <2> SUFFICES ASSUME Inv, [Next]_vars PROVE Inv'
    OBVIOUS
  <2>1. ASSUME NEW c \in Calls, Served(c) PROVE Inv'
    BY <2>1, ApiKeeps DEF Served, ApiStep
  <2>2. CASE ApiFault
    BY <2>2, ApiKeeps DEF ApiFault, ApiStep
  <2>3. CASE AppSteps
    BY <2>3, AppKeeps
  <2>4. CASE UserWrites
    BY <2>4, WritesKeep
  <2>5. CASE BotSteps
    BY <2>5, BotKeeps
  <2>6. CASE UNCHANGED vars
    <3>1. TypeOK' /\ ApiInv'
      BY <2>6 DEF vars, api, app, telegram, botState, botPast, tables, past, Inv, ClientInv,
                  TypeOK, ApiInv, ApiTypeOK, CallsFit, CreatedIsStored, AttestedOrRegistered
    <3>2. CallsOwned' /\ BotPlace' /\ NoneSkipped' /\ MarkedInUse' /\ MadeOnce'
      BY <2>6 DEF vars, api, app, telegram, botState, botPast, tables, past, Inv, ClientInv,
                  CallsOwned, BotPlace, NoneSkipped, Behind, MarkedInUse, Spent, MadeOnce, OneCreation
    <3>3. PendingFits' /\ ToldSettled'
      BY <2>6 DEF vars, api, app, telegram, botState, botPast, tables, past, Inv, PendingFits,
                  Reached, LastStart, Settled, ToldSettled, MeantFor, Starts
    <3> QED BY <3>1, <3>2, <3>3 DEF Inv, ClientInv
  <2> QED BY <2>1, <2>2, <2>3, <2>4, <2>5, <2>6 DEF Next, AppSteps, BotSteps
<1> QED BY <1>1, <1>2, PTL DEF Spec

(* The variables of the app, of Telegram, of the bot and of the API have their
   types, and the bot waits for the API in one place only.                   *)
THEOREM VerificationTypeCorrect == Spec => []TypeOK
<1>1. Inv => TypeOK
  BY DEF Inv, ClientInv
<1> QED BY <1>1, VerificationInvariant, PTL

(* verify_otp marks before it makes the account, and a marked session is never
   taken again: what is used up without a token in the app was confirmed by
   Telegram, failed after its mark or was given up.                          *)
THEOREM SessionsBurntOnlyByFailure == Spec => []BurntOnlyByFailure
<1>1. Inv => BurntOnlyByFailure
  BY DEF Inv, MarkedInUse, BurntOnlyByFailure
<1> QED BY <1>1, VerificationInvariant, PTL

(* Batches, polls and restarts lose no message whose handler did not throw. *)
THEOREM MessagesLostOnlyByThrow == Spec => []LostOnlyByThrow
<1>1. Inv => LostOnlyByThrow
  BY DEF Inv, NoneSkipped, LostOnlyByThrow
<1> QED BY <1>1, VerificationInvariant, PTL

(* Whoever is told to return to the app has a verified session, unless the bot
   forgot it or the API dropped the error of its mark.                       *)
THEOREM WhoeverIsToldIsVerified == Spec => []ToldIsVerified
<1>1. Inv => ToldIsVerified
  BY DEF Inv, ToldSettled, Settled, ToldIsVerified
<1> QED BY <1>1, VerificationInvariant, PTL
=============================================================================

--------------------------- MODULE Accounts_proofs ---------------------------
(* The account handlers for any number of calls, sessions, names and devices. *)
EXTENDS Accounts, TLAPS

-----------------------------------------------------------------------------
(* What a call carries at each stage, given the devices on record. *)
Fits(k, known) ==
    /\ k.at \in {"creating", "selecting", "marking"} => k.session \in Sessions
    /\ k.at = "creating" => k.account \in Channels \X (Digits \cup {Nobody})
    /\ k.at = "marking" => k.account \in Channels \X (Digits \cup Sessions)
    /\ k.at = "linking" => k.account \in {"tg"} \X Digits
    /\ k.at \in {"checking", "naming"} => k.account \in Accounts /\ k.score = 10
    /\ k.at = "attesting" => k.account \in {"attested"} \X Devices
    /\ k.at = "upserting" =>
          /\ k.account \in Accounts
          /\ k.account[1] = "attested" => k.account[2] \in known
          /\ k.account[1] \in Channels => k.session \in Sessions

CallsFit == \A c \in Calls : Fits(call[c], devices)

(* An account that register answered for exists, once. *)
CreatedIsStored ==
    \A a \in Accounts : created[a] <= 1 /\ (created[a] > 0 => users[a] # 0)

ApiInv == ApiTypeOK /\ CallsFit /\ CreatedIsStored /\ AttestedOrRegistered

LEMMA NoCallFits ==
    ASSUME NEW known PROVE NoCall \in CallType /\ Fits(NoCall, known)
  BY DEF NoCall, CallType, Callers, Fits

(* An answered call has the type of a call and nothing left to carry. *)
LEMMA AnswerFits ==
    ASSUME ApiTypeOK, CallsFit, NEW c \in Calls, NEW answer \in Answers, Answer(c, answer),
           NEW known, devices \subseteq known
    PROVE  call' \in [Calls -> CallType] /\ \A d \in Calls : Fits(call'[d], known)
<1>1. call \in [Calls -> CallType]
  BY DEF ApiTypeOK
<1>2. [call[c] EXCEPT !.at = answer] \in CallType /\ Fits([call[c] EXCEPT !.at = answer], known)
  <2>1. call[c] \in CallType
    BY <1>1
  <2> QED BY <2>1 DEF CallType, Answers, Fits
<1>3. call'[c] \in CallType /\ Fits(call'[c], known)
  BY <1>1, <1>2, NoCallFits DEF Answer
<1>4. ASSUME NEW d \in Calls, d # c PROVE call'[d] = call[d]
  BY <1>1, <1>4 DEF Answer
<1>5. ASSUME NEW d \in Calls PROVE call'[d] \in CallType /\ Fits(call'[d], known)
  BY <1>1, <1>3, <1>4 DEF CallsFit, Fits
<1>6. call' = [d \in Calls |-> call'[d]]
  BY <1>1 DEF Answer
<1> QED BY <1>5, <1>6

(* So does a call that goes on with what the next stage needs. *)
LEMMA GoFits ==
    ASSUME ApiTypeOK, CallsFit, NEW c \in Calls, NEW k \in CallType,
           call' = [call EXCEPT ![c] = k],
           NEW known, devices \subseteq known, Fits(k, known)
    PROVE  call' \in [Calls -> CallType] /\ \A d \in Calls : Fits(call'[d], known)
<1>1. call \in [Calls -> CallType]
  BY DEF ApiTypeOK
<1>2. ASSUME NEW d \in Calls PROVE Fits(call'[d], known)
  <2>1. CASE d = c
    BY <1>1, <2>1
  <2>2. CASE d # c
    BY <1>1, <2>2 DEF CallsFit, Fits
  <2> QED BY <2>1, <2>2
<1> QED BY <1>1, <1>2

-----------------------------------------------------------------------------
LEMMA BeginKeeps == ASSUME ApiInv, Request PROVE ApiInv'
<1> USE DEF ApiInv
<1>1. PICK c \in Calls : AnyCall(c)
  BY DEF Request
<1> DEFINE K(stage, s, right, a, score) ==
      [at |-> stage, by |-> "other", session |-> s, right |-> right, account |-> a, score |-> score]
      Starts == \E k \in CallType : call' = [call EXCEPT ![c] = k] /\ Fits(k, devices)
<1>2. Starts
  <2>1. ASSUME NEW s \in NextSessions, NEW d \in Digits \cup {Nobody},
               Begin(c, "creating", "other", s, FALSE, <<ChannelOf[s], d>>, 0)
        PROVE  Starts
    <3>1. s \in Sessions
      BY DEF NextSessions, FreshSessions
    <3>2. ChannelOf[s] \in Channels
      BY <3>1, ChannelAssumption DEF Channels
    <3>3. K("creating", s, FALSE, <<ChannelOf[s], d>>, 0) \in CallType
      BY <3>1, <3>2 DEF CallType, Accounts, Stages, Callers
    <3>4. Fits(K("creating", s, FALSE, <<ChannelOf[s], d>>, 0), devices)
      BY <3>1, <3>2 DEF Fits
    <3> QED BY <2>1, <3>3, <3>4 DEF Begin
  <2>2. ASSUME NEW s \in Sessions \ FreshSessions, NEW right \in BOOLEAN,
               Begin(c, "selecting", "other", s, right, Nobody, 12)
        PROVE  Starts
    <3>1. K("selecting", s, right, Nobody, 12) \in CallType
      BY DEF CallType, Stages, Callers
    <3>2. Fits(K("selecting", s, right, Nobody, 12), devices)
      BY DEF Fits
    <3> QED BY <2>2, <3>1, <3>2 DEF Begin
  <2>3. ASSUME NEW s \in (Sessions \ FreshSessions) \cup {Nobody}, NEW d \in Digits,
               Begin(c, "linking", "other", s, TRUE, <<"tg", d>>, 15)
        PROVE  Starts
    <3>1. K("linking", s, TRUE, <<"tg", d>>, 15) \in CallType
      BY DEF CallType, Accounts, Stages, Callers
    <3>2. Fits(K("linking", s, TRUE, <<"tg", d>>, 15), devices)
      BY DEF Fits
    <3> QED BY <2>3, <3>1, <3>2 DEF Begin
  <2>4. ASSUME NEW a \in Accounts, Begin(c, "checking", "other", Nobody, FALSE, a, 10)
        PROVE  Starts
    <3>1. K("checking", Nobody, FALSE, a, 10) \in CallType
      BY DEF CallType, Stages, Callers
    <3>2. Fits(K("checking", Nobody, FALSE, a, 10), devices)
      BY DEF Fits
    <3> QED BY <2>4, <3>1, <3>2 DEF Begin
  <2>5. ASSUME NEW d \in Devices,
               Begin(c, "attesting", "other", Nobody, FALSE, <<"attested", d>>, 18)
        PROVE  Starts
    <3>1. K("attesting", Nobody, FALSE, <<"attested", d>>, 18) \in CallType
      BY DEF CallType, Accounts, Stages, Callers
    <3>2. Fits(K("attesting", Nobody, FALSE, <<"attested", d>>, 18), devices)
      BY DEF Fits
    <3> QED BY <2>5, <3>1, <3>2 DEF Begin
  <2>6. ASSUME NEW d \in Devices,
               Begin(c, "upserting", "other", Nobody, TRUE, <<"anon", d>>, 10)
        PROVE  Starts
    <3>1. <<"anon", d>> \in Accounts
      BY DEF Accounts
    <3>2. K("upserting", Nobody, TRUE, <<"anon", d>>, 10) \in CallType
      BY <3>1 DEF CallType, Stages, Callers
    <3>3. Fits(K("upserting", Nobody, TRUE, <<"anon", d>>, 10), devices)
      BY <3>1 DEF Fits, Channels
    <3> QED BY <2>6, <3>2, <3>3 DEF Begin
  <2> QED BY <1>1, <2>1, <2>2, <2>3, <2>4, <2>5, <2>6 DEF AnyCall
<1>3. call' \in [Calls -> CallType] /\ \A d \in Calls : Fits(call'[d], devices)
  BY <1>2, GoFits
<1>4. UNCHANGED <<tables, past, faults>> /\ begun' \in Nat
  BY DEF Request, ApiTypeOK
<1> QED BY <1>3, <1>4 DEF ApiTypeOK, CallsFit, CreatedIsStored, AttestedOrRegistered, tables, past

-----------------------------------------------------------------------------
(* A statement that leaves the tables of accounts alone, and answers or goes on
   with the call.                                                           *)
LEMMA MovesKeep ==
    ASSUME ApiInv, NEW c \in Calls,
           \/ \E answer \in Answers : Answer(c, answer)
           \/ \E k \in CallType : Fits(k, devices) /\ call' = [call EXCEPT ![c] = k],
           sessions' \in [Sessions -> [state : {"none", "open", "expired"},
                                      target : Digits \cup {Nobody}, verified : BOOLEAN]],
           UNCHANGED <<users, devices, created, begun>>,
           linked' \subseteq Sessions, dropped' \subseteq Sessions, redeemed' \subseteq Sessions,
           faults' \in Nat
    PROVE  ApiInv'
<1> USE DEF ApiInv
<1>1. call' \in [Calls -> CallType] /\ \A d \in Calls : Fits(call'[d], devices)
  BY AnswerFits, GoFits
<1> QED BY <1>1 DEF ApiTypeOK, CallsFit, CreatedIsStored, AttestedOrRegistered

(* A call that goes on to a stage with the session and the account it has. *)
LEMMA GoIsType ==
    ASSUME ApiTypeOK, NEW c \in Calls, NEW stage \in Stages
    PROVE  /\ [call[c] EXCEPT !.at = stage] \in CallType
           /\ call[c] \in CallType
  BY DEF ApiTypeOK, CallType

LEMMA SessionStepsKeep ==
    ASSUME ApiInv, NEW c \in Calls,
           CreateSession(c) \/ SelectSession(c) \/ RefuseSession(c) \/ MarkVerified(c)
           \/ LinkSession(c)
    PROVE  ApiInv'
<1> USE DEF ApiInv, past, tables
<1>1. call[c] \in CallType /\ Fits(call[c], devices) /\ faults \in Nat
      /\ linked \subseteq Sessions /\ dropped \subseteq Sessions /\ redeemed \subseteq Sessions
  BY DEF ApiTypeOK, CallsFit
<1>2. CASE CreateSession(c)
  <2>1. call[c].session \in Sessions /\ call[c].account[2] \in Digits \cup {Nobody}
    BY <1>1, <1>2 DEF CreateSession, Fits
  <2>2. "ok" \in Answers
    BY DEF Answers
  <2> QED BY <1>1, <1>2, <2>1, <2>2, MovesKeep DEF CreateSession, ApiTypeOK
<1>3. CASE SelectSession(c)
  <2> DEFINE k == [call[c] EXCEPT !.at = "marking", !.account = Identity(c)]
  <2>1. call[c].session \in Sessions
    BY <1>1, <1>3 DEF SelectSession, Fits
  <2>2. Identity(c) \in Channels \X (Digits \cup Sessions)
    BY <2>1, ChannelAssumption DEF Identity, ApiTypeOK, Channels
  <2>3. k \in CallType
    BY <1>1, <2>2 DEF CallType, Accounts, Stages
  <2>4. Fits(k, devices)
    BY <1>1, <2>1, <2>2 DEF Fits, CallType
  <2>5. call' = [call EXCEPT ![c] = k]
    BY <1>1, <1>3 DEF SelectSession, ApiTypeOK
  <2> QED BY <1>1, <1>3, <2>3, <2>4, <2>5, MovesKeep DEF SelectSession, ApiTypeOK
<1>4. CASE RefuseSession(c)
  <2>1. "refused" \in Answers
    BY DEF Answers
  <2> QED BY <1>1, <1>4, <2>1, MovesKeep DEF RefuseSession, ApiTypeOK
<1>5. ASSUME call[c].at \in {"marking", "linking"}, Go(c, "upserting")
      PROVE  \E k \in CallType : Fits(k, devices) /\ call' = [call EXCEPT ![c] = k]
  <2> DEFINE k == [call[c] EXCEPT !.at = "upserting"]
  <2>1. k \in CallType
    BY GoIsType DEF Stages
  <2>2. /\ call[c].account \in Accounts /\ call[c].account[1] # "attested"
        /\ call[c].account[1] \in Channels => call[c].session \in Sessions
    BY <1>1, <1>5 DEF Fits, Accounts, Channels
  <2>3. Fits(k, devices)
    BY <1>1, <2>2 DEF Fits, CallType
  <2>4. call' = [call EXCEPT ![c] = k]
    BY <1>1, <1>5 DEF Go, ApiTypeOK
  <2> QED BY <2>1, <2>3, <2>4
<1>6. CASE MarkVerified(c)
  <2>1. call[c].session \in Sessions
    BY <1>1, <1>6 DEF MarkVerified, Fits
  <2>2. sessions' \in [Sessions -> [state : {"none", "open", "expired"},
                                   target : Digits \cup {Nobody}, verified : BOOLEAN]]
    BY <1>6, <2>1 DEF MarkVerified, ApiTypeOK
  <2>3. redeemed' \subseteq Sessions /\ linked' \subseteq Sessions /\ dropped' \subseteq Sessions
        /\ UNCHANGED <<users, devices, created, begun, faults>> /\ Go(c, "upserting")
        /\ call[c].at = "marking"
    BY <1>6 DEF MarkVerified, ApiTypeOK
  <2> QED BY <1>1, <1>5, <2>2, <2>3, MovesKeep
<1>7. CASE LinkSession(c)
  <2>1. call[c].account[2] \in Digits /\ call[c].session \in Sessions \cup {Nobody}
    BY <1>1, <1>7 DEF LinkSession, Fits, CallType
  <2>2. linked' \subseteq Sessions /\ redeemed' \subseteq Sessions
    BY <1>1, <1>7 DEF LinkSession, Rows
  <2>3. sessions' \in [Sessions -> [state : {"none", "open", "expired"},
                                   target : Digits \cup {Nobody}, verified : BOOLEAN]]
    <3>1. CASE call[c].session \notin Rows
      BY <1>7, <3>1 DEF LinkSession, ApiTypeOK
    <3>2. CASE call[c].session \in Rows
      <4> DEFINE Row == [state : {"none", "open", "expired"},
                         target : Digits \cup {Nobody}, verified : BOOLEAN]
                 new == [sessions[call[c].session] EXCEPT !.verified = TRUE,
                                                         !.target = call[c].account[2]]
      <4>1. call[c].session \in Sessions /\ sessions \in [Sessions -> Row]
        BY <3>2 DEF Rows, ApiTypeOK
      <4>2. new \in Row
        BY <2>1, <4>1
      <4>3. sessions' = [sessions EXCEPT ![call[c].session] = new]
        BY <1>7, <3>2 DEF LinkSession
      <4> QED BY <4>1, <4>2, <4>3
    <3> QED BY <3>1, <3>2
  <2>4. Go(c, "upserting") /\ UNCHANGED <<users, devices, dropped, created, begun, faults>>
        /\ call[c].at = "linking"
    BY <1>7 DEF LinkSession
  <2> QED BY <1>1, <1>5, <2>2, <2>3, <2>4, MovesKeep
<1> QED BY <1>2, <1>3, <1>4, <1>6, <1>7

LEMMA AccountStepsKeep ==
    ASSUME ApiInv, NEW c \in Calls,
           UpsertUser(c) \/ CheckName(c) \/ InsertUser(c) \/ AttestDevice(c)
    PROVE  ApiInv'
<1> USE DEF ApiInv, past, tables
<1>1. call[c] \in CallType /\ Fits(call[c], devices) /\ faults \in Nat
      /\ linked \subseteq Sessions /\ dropped \subseteq Sessions /\ redeemed \subseteq Sessions
  BY DEF ApiTypeOK, CallsFit
<1>2. {"ok", "refused", "failed"} \subseteq Answers
  BY DEF Answers
<1>3. CASE UpsertUser(c)
  <2>1. /\ call[c].account \in Accounts /\ call[c].score \in Nat
        /\ call[c].account[1] = "attested" => call[c].account[2] \in devices
        /\ redeemed' \subseteq Sessions
    BY <1>1, <1>3 DEF UpsertUser, Fits, CallType
  <2>2. call' \in [Calls -> CallType] /\ \A d \in Calls : Fits(call'[d], devices)
    BY <1>2, <1>3, AnswerFits DEF UpsertUser
  <2>3. users' \in [Accounts -> Nat] /\ \A a \in Accounts : users[a] # 0 => users'[a] # 0
    BY <1>3, <2>1 DEF UpsertUser, ApiTypeOK
  <2>4. AttestedOrRegistered'
    <3> SUFFICES ASSUME NEW d \in Devices, users'[<<"attested", d>>] # 0
                 PROVE  d \in devices \/ (created[<<"attested", d>>] = 1 /\ users'[<<"attested", d>>] = 10)
      BY <1>3 DEF AttestedOrRegistered, UpsertUser
    <3>1. <<"attested", d>> \in Accounts
      BY DEF Accounts
    <3>2. CASE call[c].account = <<"attested", d>>
      BY <2>1, <3>2
    <3>3. CASE call[c].account # <<"attested", d>>
      BY <1>3, <3>1, <3>3 DEF UpsertUser, ApiTypeOK, AttestedOrRegistered
    <3> QED BY <3>2, <3>3
  <2>5. CreatedIsStored'
    BY <1>3, <2>3 DEF UpsertUser, CreatedIsStored
  <2> QED BY <1>3, <2>1, <2>2, <2>3, <2>4, <2>5 DEF UpsertUser, ApiTypeOK, CallsFit
<1>4. CASE CheckName(c)
  <2>1. CASE users[call[c].account] = 0
    <3> DEFINE k == [call[c] EXCEPT !.at = "naming"]
    <3>1. k \in CallType
      BY GoIsType DEF Stages
    <3>2. Fits(k, devices)
      BY <1>1, <1>4 DEF CheckName, Fits, CallType
    <3>3. call' = [call EXCEPT ![c] = k]
      BY <1>1, <1>4, <2>1 DEF CheckName, Go, ApiTypeOK
    <3> QED BY <1>1, <1>4, <3>1, <3>2, <3>3, MovesKeep DEF CheckName, ApiTypeOK
  <2>2. CASE users[call[c].account] # 0
    BY <1>1, <1>2, <1>4, <2>2, MovesKeep DEF CheckName, ApiTypeOK
  <2> QED BY <2>1, <2>2
<1>5. CASE InsertUser(c)
  <2> DEFINE a == call[c].account
  <2>1. a \in Accounts /\ call[c].score = 10
    BY <1>1, <1>5 DEF InsertUser, Fits
  <2>2. CASE users[a] = 0
    <3>1. call' \in [Calls -> CallType] /\ \A d \in Calls : Fits(call'[d], devices)
      BY <1>2, <1>5, <2>2, AnswerFits DEF InsertUser
    <3>2. users' = [users EXCEPT ![a] = 10] /\ created' = [created EXCEPT ![a] = @ + 1]
      BY <1>5, <2>1, <2>2 DEF InsertUser, Created
    <3>3. created[a] = 0 /\ users \in [Accounts -> Nat] /\ created \in [Accounts -> Nat]
      BY <2>1, <2>2 DEF CreatedIsStored, ApiTypeOK
    <3>4. users' \in [Accounts -> Nat] /\ created' \in [Accounts -> Nat]
          /\ users'[a] = 10 /\ created'[a] = 1
      BY <2>1, <3>2, <3>3
    <3>5. \A b \in Accounts : b # a => users'[b] = users[b] /\ created'[b] = created[b]
      BY <3>2, <3>3
    <3>6. CreatedIsStored'
      BY <3>4, <3>5 DEF CreatedIsStored
    <3>7. AttestedOrRegistered'
      <4>1. \A d \in Devices : <<"attested", d>> \in Accounts
        BY DEF Accounts
      <4> QED BY <1>5, <3>4, <3>5, <4>1 DEF InsertUser, AttestedOrRegistered
    <3> QED BY <1>5, <3>1, <3>4, <3>6, <3>7 DEF InsertUser, ApiTypeOK, CallsFit
  <2>3. CASE users[a] # 0
    BY <1>1, <1>2, <1>5, <2>1, <2>3, MovesKeep DEF InsertUser, ApiTypeOK
  <2> QED BY <2>2, <2>3
<1>6. CASE AttestDevice(c)
  <2> DEFINE k == [call[c] EXCEPT !.at = "upserting"]
  <2>1. PICK d \in Devices : call[c].account = <<"attested", d>>
    BY <1>1, <1>6 DEF AttestDevice, Fits
  <2>2. devices' = devices \cup {d} /\ devices' \subseteq Devices
    BY <1>6, <2>1 DEF AttestDevice, ApiTypeOK
  <2>3. k \in CallType
    BY GoIsType DEF Stages
  <2>4. <<"attested", d>> \in Accounts
    BY DEF Accounts
  <2>5. Fits(k, devices')
    BY <1>1, <2>1, <2>2, <2>4 DEF Fits, CallType, Channels
  <2>6. call' = [call EXCEPT ![c] = k]
    BY <1>1, <1>6 DEF AttestDevice, Go, ApiTypeOK
  <2>7. call' \in [Calls -> CallType] /\ \A e \in Calls : Fits(call'[e], devices')
    BY <2>2, <2>3, <2>5, <2>6, GoFits
  <2> QED BY <1>6, <2>2, <2>7 DEF AttestDevice, ApiTypeOK, CallsFit, CreatedIsStored,
                                 AttestedOrRegistered
<1> QED BY <1>3, <1>4, <1>5, <1>6

LEMMA TroubleKeeps == ASSUME ApiInv, Trouble PROVE ApiInv'
<1> USE DEF ApiInv, past, tables
<1>1. faults \in Nat /\ (Disturb => faults' \in Nat)
      /\ linked \subseteq Sessions /\ dropped \subseteq Sessions /\ redeemed \subseteq Sessions
  BY DEF ApiTypeOK, Disturb
<1>2. ASSUME NEW c \in Calls, LinkFails(c) PROVE ApiInv'
  <2>1. call[c] \in CallType /\ Fits(call[c], devices)
    BY DEF ApiTypeOK, CallsFit
  <2> DEFINE k == [call[c] EXCEPT !.at = "upserting"]
  <2>2. k \in CallType
    BY GoIsType DEF Stages
  <2>3. call[c].account \in Accounts /\ call[c].account[1] # "attested"
        /\ call[c].session \in Sessions
    BY <1>2, <2>1 DEF LinkFails, Fits, Accounts, CallType
  <2>4. Fits(k, devices)
    BY <2>1, <2>3 DEF Fits, CallType
  <2>5. call' = [call EXCEPT ![c] = k]
    BY <1>2, <2>1 DEF LinkFails, Go, ApiTypeOK
  <2> QED BY <1>1, <1>2, <2>2, <2>3, <2>4, <2>5, MovesKeep DEF LinkFails, ApiTypeOK
<1>3. ASSUME NEW c \in Calls, CallFails(c) PROVE ApiInv'
  <2>1. "failed" \in Answers
    BY DEF Answers
  <2> QED BY <1>1, <1>3, <2>1, MovesKeep DEF CallFails, ApiTypeOK
<1>4. ASSUME NEW s \in Sessions, Expire(s) PROVE ApiInv'
  BY <1>1, <1>4 DEF Expire, ApiTypeOK, CallsFit, CreatedIsStored, AttestedOrRegistered
<1> QED BY <1>2, <1>3, <1>4 DEF Trouble

LEMMA InitKeeps == ASSUME ApiInit PROVE ApiInv
<1>1. ApiTypeOK
  BY NoCallFits DEF ApiInit, ApiTypeOK
<1>2. CallsFit
  BY NoCallFits DEF ApiInit, CallsFit
<1>3. CreatedIsStored
  BY DEF ApiInit, CreatedIsStored
<1>4. AttestedOrRegistered
  <2>1. \A d \in Devices : <<"attested", d>> \in Accounts
    BY DEF Accounts
  <2> QED BY <2>1 DEF ApiInit, AttestedOrRegistered
<1> QED BY <1>1, <1>2, <1>3, <1>4 DEF ApiInv

(* The invariant: with it, whatever fails between two statements of a call. *)
THEOREM AccountsInvariant == ApiSpec => []ApiInv
<1>1. ApiInit => ApiInv
  BY InitKeeps
<1>2. ApiInv /\ [ApiNext]_api => ApiInv'
  <2> SUFFICES ASSUME ApiInv, [ApiNext]_api PROVE ApiInv'
    OBVIOUS
  <2>1. CASE Request
    BY <2>1, BeginKeeps
  <2>2. ASSUME NEW c \in Calls, Step(c) PROVE ApiInv'
    BY <2>2, SessionStepsKeep, AccountStepsKeep DEF Step
  <2>3. CASE Trouble
    BY <2>3, TroubleKeeps
  <2>4. CASE UNCHANGED api
    BY <2>4 DEF api, tables, past, ApiInv, ApiTypeOK, CallsFit, CreatedIsStored,
                AttestedOrRegistered
  <2> QED BY <2>1, <2>2, <2>3, <2>4 DEF ApiNext, Serving
<1> QED BY <1>1, <1>2, PTL DEF ApiSpec

(* However many calls of register choose a name at once and however they
   interleave, one makes the account and is answered so.                    *)
THEOREM NamesCreatedOnce == ApiSpec => []CreatedOnce
<1>1. ApiInv => CreatedOnce
  BY DEF ApiInv, CreatedIsStored, CreatedOnce
<1> QED BY <1>1, AccountsInvariant, PTL

(* No failure of verify_hardware_attest, and no call of register for one of its
   usernames, leaves an account with a device's name but without the device,
   unless register made it, with the reputation register gives.              *)
THEOREM AttestedHasDeviceOrName == ApiSpec => []AttestedOrRegistered
<1>1. ApiInv => AttestedOrRegistered
  BY DEF ApiInv
<1> QED BY <1>1, AccountsInvariant, PTL

-----------------------------------------------------------------------------
(* Sessions.  One is made once, before any statement reads it; a call has a
   usable session's row when it marks it, and a marked one when it gives a token
   for it.                                                                   *)
OneCreation ==
    \A c, d \in Calls :
        call[c].at = "creating" =>
            /\ sessions[call[c].session].state = "none"
            /\ call[d].at = "creating" /\ call[d].session = call[c].session => c = d

Made(s)   == sessions[s].state # "none"
Marked(s) == Made(s) /\ sessions[s].verified

CallsMarked ==
    \A c \in Calls :
        /\ call[c].at = "marking" => Made(call[c].session)
        /\ call[c].at = "upserting" /\ call[c].account[1] \in Channels => Marked(call[c].session)

UsedAreMarked == \A s \in redeemed \cup linked : Marked(s)

SessionInv == OneCreation /\ CallsMarked /\ UsedAreMarked

(* What a statement of the API, done or failed, does to a call. *)
Proceeds(k, m) ==
    \/ m = k
    \/ k.at \in Stages /\ k.by \notin {"app", "bot"} /\ m = NoCall
    \/ /\ k.at \in Stages /\ k.by \in {"app", "bot"}
       /\ \/ m = [k EXCEPT !.at = "ok"] /\ k.at \in {"creating", "upserting", "naming"}
          \/ m = [k EXCEPT !.at = "refused"] \/ m = [k EXCEPT !.at = "failed"]
    \/ k.at = "selecting" /\ m.at = "marking" /\ m.by = k.by /\ m.session = k.session
    \/ k.at \in {"marking", "linking", "attesting"} /\ m = [k EXCEPT !.at = "upserting"]
    \/ k.at = "checking" /\ m = [k EXCEPT !.at = "naming"]

ApiStep == (\E c \in Calls : Step(c)) \/ Trouble

LEMMA AnswerProceeds ==
    ASSUME ApiTypeOK, NEW c \in Calls, NEW answer \in Answers, Answer(c, answer),
           call[c].at \in Stages, answer = "ok" => call[c].at \in {"creating", "upserting", "naming"}
    PROVE  \A d \in Calls : Proceeds(call[d], call'[d])
<1>1. call \in [Calls -> CallType]
  BY DEF ApiTypeOK
<1>2. ASSUME NEW d \in Calls, d # c PROVE Proceeds(call[d], call'[d])
  BY <1>1, <1>2 DEF Answer, Proceeds
<1>3. Proceeds(call[c], call'[c])
  BY <1>1 DEF Answer, Proceeds, Answers
<1> QED BY <1>2, <1>3

LEMMA GoProceeds ==
    ASSUME ApiTypeOK, NEW c \in Calls, NEW stage, Go(c, stage),
           \/ call[c].at \in {"marking", "linking", "attesting"} /\ stage = "upserting"
           \/ call[c].at = "checking" /\ stage = "naming"
    PROVE  \A d \in Calls : Proceeds(call[d], call'[d])
  BY DEF ApiTypeOK, Go, Proceeds

LEMMA CallsProceed ==
    ASSUME ApiTypeOK, ApiStep
    PROVE  \A d \in Calls : Proceeds(call[d], call'[d])
<1>1. {"ok", "refused", "failed"} \subseteq Answers
  BY DEF Answers
<1>2. {"creating", "selecting", "marking", "upserting", "checking", "naming"} \subseteq Stages
  BY DEF Stages
<1>3. ASSUME NEW c \in Calls, Step(c) PROVE \A d \in Calls : Proceeds(call[d], call'[d])
  <2>1. CASE CreateSession(c) \/ RefuseSession(c) \/ UpsertUser(c) \/ InsertUser(c)
    BY <1>1, <1>2, <2>1, AnswerProceeds
    DEF CreateSession, RefuseSession, UpsertUser, InsertUser
  <2>2. CASE MarkVerified(c) \/ LinkSession(c) \/ AttestDevice(c)
    BY <2>2, GoProceeds DEF MarkVerified, LinkSession, AttestDevice
  <2>3. CASE CheckName(c)
    BY <1>1, <1>2, <2>3, AnswerProceeds, GoProceeds DEF CheckName
  <2>4. CASE SelectSession(c)
    BY <2>4 DEF SelectSession, Proceeds, ApiTypeOK, CallType
  <2> QED BY <1>3, <2>1, <2>2, <2>3, <2>4 DEF Step
<1>4. CASE Trouble
  <2>1. ASSUME NEW c \in Calls, LinkFails(c) PROVE \A d \in Calls : Proceeds(call[d], call'[d])
    BY <2>1, GoProceeds DEF LinkFails
  <2>2. ASSUME NEW c \in Calls, CallFails(c) PROVE \A d \in Calls : Proceeds(call[d], call'[d])
    BY <1>1, <2>2, AnswerProceeds DEF CallFails
  <2>3. ASSUME NEW s \in Sessions, Expire(s) PROVE \A d \in Calls : Proceeds(call[d], call'[d])
    BY <2>3 DEF Expire, Proceeds
  <2> QED BY <1>4, <2>1, <2>2, <2>3 DEF Trouble
<1> QED BY <1>3, <1>4 DEF ApiStep

(* What it does to a session: nobody's session is made again, only a mark or a
   link verifies one, and a link that fails is noted.                        *)
LEMMA SessionsProceed ==
    ASSUME ApiInv, OneCreation, ApiStep, NEW s \in Sessions
    PROVE  /\ Made(s) => Made(s)' /\ (sessions[s].verified => sessions'[s].verified)
           /\ Made(s)' => \/ Made(s)
                          \/ \E c \in Calls : /\ call[c].at = "creating" /\ call[c].session = s
                                              /\ call'[c].at # "creating"
           /\ sessions'[s].verified =>
                 \/ sessions[s].verified \/ s \in linked'
                 \/ \E c \in Calls : /\ call[c].at = "marking" /\ call[c].session = s
                                     /\ call'[c] = [call[c] EXCEPT !.at = "upserting"]
<1> USE DEF Made, past, tables
<1>1. sessions \in [Sessions -> [state : {"none", "open", "expired"},
                                 target : Digits \cup {Nobody}, verified : BOOLEAN]]
      /\ call \in [Calls -> CallType] /\ CallsFit
  BY DEF ApiInv, ApiTypeOK
<1>2. ASSUME NEW c \in Calls, CreateSession(c)
      PROVE  /\ Made(s) => sessions'[s] = sessions[s]
             /\ sessions'[s].verified => sessions'[s] = sessions[s]
             /\ sessions'[s] # sessions[s] =>
                   call[c].at = "creating" /\ call[c].session = s /\ call'[c].at # "creating"
  <2>1. /\ call[c].session \in Sessions /\ sessions[call[c].session].state = "none"
        /\ call[c].at = "creating"
    BY <1>1, <1>2 DEF CreateSession, CallsFit, Fits, OneCreation
  <2>2. call'[c].at # "creating"
    BY <1>1, <1>2 DEF CreateSession, Answer, NoCall
  <2>3. CASE s = call[c].session
    BY <1>1, <1>2, <2>1, <2>2, <2>3 DEF CreateSession
  <2>4. CASE s # call[c].session
    BY <1>1, <1>2, <2>4 DEF CreateSession
  <2> QED BY <2>3, <2>4
<1>3. ASSUME NEW c \in Calls, MarkVerified(c)
      PROVE  /\ sessions'[s].state = sessions[s].state
             /\ sessions[s].verified => sessions'[s].verified
             /\ sessions'[s] # sessions[s] =>
                   /\ call[c].at = "marking" /\ call[c].session = s
                   /\ call'[c] = [call[c] EXCEPT !.at = "upserting"]
  <2>1. call[c].at = "marking" /\ call'[c] = [call[c] EXCEPT !.at = "upserting"]
    BY <1>1, <1>3 DEF MarkVerified, Go
  <2>2. sessions'[s] = IF s = call[c].session THEN [sessions[s] EXCEPT !.verified = TRUE]
                       ELSE sessions[s]
    BY <1>1, <1>3 DEF MarkVerified
  <2> QED BY <1>1, <2>1, <2>2
<1>4. ASSUME NEW c \in Calls, LinkSession(c)
      PROVE  /\ sessions'[s].state = sessions[s].state
             /\ sessions[s].verified => sessions'[s].verified
             /\ sessions'[s] # sessions[s] => s \in linked'
  <2>1. CASE call[c].session \notin Rows
    BY <1>4, <2>1 DEF LinkSession
  <2>2. CASE call[c].session \in Rows
    <3> DEFINE new(r) == [r EXCEPT !.verified = TRUE, !.target = call[c].account[2]]
    <3>1. /\ sessions' = [sessions EXCEPT ![call[c].session] = new(@)]
          /\ linked' = linked \cup {call[c].session}
      BY <1>4, <2>2 DEF LinkSession
    <3>2. CASE s = call[c].session
      BY <1>1, <3>1, <3>2
    <3>3. CASE s # call[c].session
      BY <1>1, <3>1, <3>3
    <3> QED BY <3>2, <3>3
  <2> QED BY <2>1, <2>2
<1>5. ASSUME NEW r \in Sessions, Expire(r)
      PROVE  /\ sessions'[s].verified = sessions[s].verified /\ (Made(s)' <=> Made(s))
  BY <1>1, <1>5 DEF Expire
<1>6. ASSUME NEW c \in Calls, Step(c), ~CreateSession(c), ~MarkVerified(c), ~LinkSession(c)
      PROVE  sessions' = sessions
  BY <1>6 DEF Step, SelectSession, RefuseSession, UpsertUser, CheckName, InsertUser, AttestDevice
<1>7. ASSUME NEW c \in Calls, LinkFails(c) \/ CallFails(c) PROVE sessions' = sessions
  BY <1>7 DEF LinkFails, CallFails
<1> QED BY <1>2, <1>3, <1>4, <1>5, <1>6, <1>7 DEF ApiStep, Trouble

(* Which statements bring a call to a mark, and past it. *)
LEMMA SelectedBySelect ==
    ASSUME ApiTypeOK, ApiStep, NEW c \in Calls, call[c].at = "selecting", call'[c].at = "marking"
    PROVE  SelectSession(c)
<1>1. call \in [Calls -> CallType] /\ call'[c] # call[c] /\ call'[c] # NoCall
  BY DEF ApiTypeOK, NoCall
<1>2. ASSUME NEW d \in Calls, NEW answer \in Answers, Answer(d, answer) PROVE FALSE
  BY <1>1, <1>2 DEF Answer, Answers
<1>3. ASSUME NEW d \in Calls, NEW stage, Go(d, stage), stage # "marking" PROVE FALSE
  BY <1>1, <1>3 DEF Go
<1>4. {"ok", "refused", "failed"} \subseteq Answers
  BY DEF Answers
<1>5. ASSUME NEW d \in Calls, SelectSession(d) PROVE d = c
  BY <1>1, <1>5 DEF SelectSession
<1>6. ASSUME NEW d \in Calls, Step(d), ~SelectSession(d) PROVE FALSE
  BY <1>2, <1>3, <1>4, <1>6 DEF Step, CreateSession, RefuseSession, MarkVerified, LinkSession,
     UpsertUser, CheckName, InsertUser, AttestDevice
<1>7. ~Trouble
  BY <1>1, <1>2, <1>3, <1>4 DEF Trouble, LinkFails, CallFails, Expire
<1> QED BY <1>5, <1>6, <1>7 DEF ApiStep

LEMMA MarkedByMark ==
    ASSUME ApiTypeOK, ApiStep, NEW c \in Calls, call[c].at = "marking", call'[c].at = "upserting"
    PROVE  MarkVerified(c)
<1>1. call \in [Calls -> CallType] /\ call'[c] # call[c] /\ call'[c] # NoCall
  BY DEF ApiTypeOK, NoCall
<1>2. ASSUME NEW d \in Calls, NEW answer \in Answers, Answer(d, answer) PROVE FALSE
  BY <1>1, <1>2 DEF Answer, Answers
<1>3. ASSUME NEW d \in Calls, NEW stage, Go(d, stage) PROVE d = c
  BY <1>1, <1>3 DEF Go
<1>4. {"ok", "refused", "failed"} \subseteq Answers
  BY DEF Answers
<1>5. ASSUME NEW d \in Calls, SelectSession(d) PROVE FALSE
  BY <1>1, <1>5 DEF SelectSession
<1>6. ASSUME NEW d \in Calls, Step(d) PROVE MarkVerified(c)
  BY <1>2, <1>3, <1>4, <1>5, <1>6 DEF Step, CreateSession, RefuseSession, MarkVerified, LinkSession,
     UpsertUser, CheckName, InsertUser, AttestDevice
<1>7. ~Trouble
  BY <1>1, <1>2, <1>3, <1>4 DEF Trouble, LinkFails, CallFails, Expire
<1> QED BY <1>6, <1>7 DEF ApiStep

LEMMA BeginKeepsSessions ==
    ASSUME ApiInv, SessionInv, Request
    PROVE  SessionInv'
<1> USE DEF ApiInv, SessionInv, tables, past
<1>1. PICK c \in Calls : AnyCall(c)
  BY DEF Request
<1>2. UNCHANGED <<sessions, linked, redeemed>> /\ call \in [Calls -> CallType]
  BY DEF Request, ApiTypeOK
<1>3. /\ \A d \in Calls : d # c => call'[d] = call[d]
      /\ call'[c].at = "creating" => call'[c].session \in FreshSessions
      /\ call'[c].at = "upserting" => call'[c].account[1] = "anon"
      /\ call'[c].at # "marking"
  BY <1>1, <1>2 DEF AnyCall, Begin, NextSessions, FreshSessions
<1>4. OneCreation'
  <2> SUFFICES ASSUME NEW d \in Calls, NEW e \in Calls, call'[d].at = "creating"
               PROVE  /\ sessions[call'[d].session].state = "none"
                      /\ call'[e].at = "creating" /\ call'[e].session = call'[d].session => d = e
    BY <1>2 DEF OneCreation
  <2>1. \A s \in FreshSessions : sessions[s].state = "none" /\ \A f \in Calls : call[f].session # s
    BY DEF FreshSessions
  <2> QED BY <1>3, <2>1 DEF OneCreation
<1>5. CallsMarked'
  <2>1. "anon" \notin Channels
    BY DEF Channels
  <2> QED BY <1>2, <1>3, <2>1 DEF CallsMarked, Marked, Made
<1>6. UsedAreMarked'
  BY <1>2 DEF UsedAreMarked, Marked, Made
<1> QED BY <1>4, <1>5, <1>6

LEMMA LinkMarks ==
    ASSUME ApiTypeOK, NEW c \in Calls, LinkSession(c), call[c].session \in Rows
    PROVE  sessions'[call[c].session].verified
<1> DEFINE s == call[c].session
           row == [sessions[s] EXCEPT !.verified = TRUE, !.target = call[c].account[2]]
<1>1. s \in Sessions /\ sessions' = [sessions EXCEPT ![s] = row]
  BY DEF LinkSession, Rows
<1>2. sessions'[s] = row /\ row.verified
  BY <1>1 DEF ApiTypeOK
<1> QED BY <1>2

(* A mark that is made stays, so do the sessions of calls on their way. *)
LEMMA StepsKeepSessions ==
    ASSUME ApiInv, SessionInv, ApiStep
    PROVE  SessionInv'
<1> USE DEF ApiInv, SessionInv, tables, past
<1>1. call \in [Calls -> CallType] /\ ApiTypeOK /\ CallsFit /\ redeemed \cup linked \subseteq Sessions
  BY DEF ApiTypeOK
<1>2. \A c \in Calls : Proceeds(call[c], call'[c])
  BY CallsProceed
<1>3. ASSUME NEW s \in Sessions, Made(s)
      PROVE  /\ sessions'[s].state # "none"
             /\ sessions[s].verified => sessions'[s].verified
  BY <1>3, SessionsProceed DEF Made
<1>4. OneCreation'
  <2>1. ASSUME NEW c \in Calls, call'[c].at = "creating" PROVE call'[c] = call[c]
    <3>1. Proceeds(call[c], call'[c])
      BY <1>2
    <3> QED BY <1>1, <2>1, <3>1 DEF Proceeds, NoCall, CallType
  <2>2. ASSUME NEW c \in Calls, call'[c].at = "creating"
        PROVE  sessions'[call'[c].session].state = "none"
    <3>1. call'[c] = call[c] /\ call[c].session \in Sessions /\ ~Made(call[c].session)
      BY <1>1, <2>1, <2>2 DEF CallsFit, Fits, OneCreation, Made
    <3>2. SUFFICES ASSUME sessions'[call[c].session].state # "none" PROVE FALSE
      BY <3>1
    <3>3. PICK d \in Calls : /\ call[d].at = "creating" /\ call[d].session = call[c].session
                             /\ call'[d].at # "creating"
      BY <3>1, <3>2, SessionsProceed DEF Made
    <3> QED BY <2>2, <3>1, <3>3 DEF OneCreation
  <2> QED BY <2>1, <2>2 DEF OneCreation
<1>5. CallsMarked'
  <2> SUFFICES ASSUME NEW c \in Calls, call'[c].at \in {"marking", "upserting"},
                      call'[c].at = "upserting" => call'[c].account[1] \in Channels
               PROVE  /\ sessions'[call'[c].session].state # "none"
                      /\ call'[c].at = "upserting" => sessions'[call'[c].session].verified
    BY DEF CallsMarked, Marked, Made
  <2>1. CASE call'[c] = call[c]
    <3>1. call[c].session \in Sessions
      BY <1>1, <2>1 DEF CallsFit, Fits
    <3> QED BY <1>3, <2>1, <3>1 DEF CallsMarked, Marked, Made
  <2>2. CASE call[c].at = "selecting" /\ call'[c].at = "marking" /\ call'[c].session = call[c].session
    <3>1. SelectSession(c)
      BY <1>1, <2>2, SelectedBySelect
    <3>2. call[c].session \in Sessions /\ Made(call[c].session)
      BY <1>1, <2>2, <3>1 DEF SelectSession, Usable, CallsFit, Fits, Made
    <3> QED BY <1>3, <2>2, <3>2
  <2>3. CASE call[c].at = "marking" /\ call'[c] = [call[c] EXCEPT !.at = "upserting"]
    <3>1. call'[c].session = call[c].session /\ call'[c].at = "upserting"
      BY <1>1, <2>3 DEF CallType
    <3>2. MarkVerified(c)
      BY <1>1, <2>3, <3>1, MarkedByMark
    <3>3. call[c].session \in Sessions /\ Made(call[c].session)
      BY <1>1, <2>3 DEF CallsFit, Fits, CallsMarked
    <3>4. sessions'[call[c].session].verified
      BY <1>1, <3>2, <3>3 DEF MarkVerified, ApiTypeOK
    <3> QED BY <1>3, <3>1, <3>3, <3>4
  <2>4. CASE call[c].at \in {"linking", "attesting"} /\ call'[c] = [call[c] EXCEPT !.at = "upserting"]
    <3>1. call'[c].at = "upserting" /\ call'[c].account[1] \notin Channels
      BY <1>1, <2>4 DEF CallsFit, Fits, Channels, CallType
    <3> QED BY <3>1
  <2>5. Proceeds(call[c], call'[c])
    BY <1>2
  <2> QED BY <1>1, <2>1, <2>2, <2>3, <2>4, <2>5 DEF Proceeds, NoCall, CallType
<1>6. UsedAreMarked'
  <2> SUFFICES ASSUME NEW s \in redeemed' \cup linked' 
               PROVE  sessions'[s].state # "none" /\ sessions'[s].verified
    BY DEF UsedAreMarked, Marked, Made
  <2>1. CASE s \in redeemed \cup linked
    BY <1>1, <1>3, <2>1 DEF UsedAreMarked, Marked, Made
  <2>2. ASSUME NEW c \in Calls, UpsertUser(c), s \notin redeemed \cup linked
        PROVE  sessions'[s].state # "none" /\ sessions'[s].verified
    <3>1. s = call[c].session /\ call[c].at = "upserting" /\ call[c].account[1] \in Channels
      BY <2>2 DEF UpsertUser
    <3>2. s \in Sessions /\ Marked(s)
      BY <1>1, <3>1 DEF CallsFit, Fits, CallsMarked
    <3> QED BY <1>3, <3>2 DEF Marked, Made
  <2>3. ASSUME NEW c \in Calls, LinkSession(c), s \notin redeemed \cup linked
        PROVE  sessions'[s].state # "none" /\ sessions'[s].verified
    <3>1. s = call[c].session /\ s \in Rows
      BY <2>3 DEF LinkSession
    <3>2. s \in Sessions /\ sessions'[s].state # "none"
      BY <1>3, <3>1 DEF Rows, Made
    <3> QED BY <1>1, <2>3, <3>1, <3>2, LinkMarks
  <2>4. ASSUME NEW c \in Calls, Step(c), ~UpsertUser(c), ~LinkSession(c)
        PROVE  UNCHANGED <<redeemed, linked>>
    BY <2>4 DEF Step, CreateSession, SelectSession, RefuseSession, MarkVerified, CheckName,
                InsertUser, AttestDevice
  <2>5. Trouble => UNCHANGED <<redeemed, linked>>
    BY DEF Trouble, LinkFails, CallFails, Expire
  <2> QED BY <2>1, <2>2, <2>3, <2>4, <2>5 DEF ApiStep
<1> QED BY <1>4, <1>5, <1>6

LEMMA InitSessions == ASSUME ApiInit PROVE SessionInv
BY DEF ApiInit, SessionInv, OneCreation, CallsMarked, UsedAreMarked, NoCall

(* Once verify_otp has given a token for a session or telegram_confirm has marked
   it, the session is redeemed by no call that had not read it before, however
   calls that create, confirm, redeem or fail interleave.                    *)
THEOREM SessionsUsedUp == ApiSpec => UsedUpForGood
<1>1. ApiInv /\ SessionInv /\ [ApiNext]_api =>
        \A s \in redeemed \cup linked : Redeeming(s)' \subseteq Redeeming(s)
  <2> SUFFICES ASSUME ApiInv, SessionInv, [ApiNext]_api, NEW s \in redeemed \cup linked,
                      NEW c \in Calls, call'[c].session = s,
                      call'[c].at \in {"marking", "upserting"},
                      call'[c].account[1] \in Channels
               PROVE  c \in Redeeming(s)
    BY DEF Redeeming
  <2> USE DEF Redeeming
  <2>1. call \in [Calls -> CallType] /\ CallsFit
    BY DEF ApiInv, ApiTypeOK
  <2>2. CASE call'[c] = call[c]
    BY <2>2
  <2>3. ASSUME call'[c] # call[c], Request PROVE FALSE
    <3>1. PICK d \in Calls : AnyCall(d)
      BY <2>3 DEF Request
    <3>2. d = c
      BY <2>1, <2>3, <3>1 DEF AnyCall, Begin
    <3>3. call'[c].at = "upserting" => call'[c].account[1] = "anon"
      BY <2>1, <3>1, <3>2 DEF AnyCall, Begin
    <3>4. call'[c].at # "marking"
      BY <2>1, <3>1, <3>2 DEF AnyCall, Begin
    <3> QED BY <3>3, <3>4 DEF Channels
  <2>4. ASSUME NEW d \in Calls, NEW answer \in Answers, Answer(d, answer), call'[c] # call[c]
        PROVE  FALSE
    BY <2>1, <2>4 DEF Answer, Answers, NoCall
  <2>5. ASSUME NEW d \in Calls, Go(d, "upserting"), call'[c] # call[c],
               call[d].at \in {"marking", "linking", "attesting"}
        PROVE  c \in Redeeming(s)
    <3>1. c = d /\ call'[c].session = call[c].session /\ call'[c].account = call[c].account
      BY <2>1, <2>5 DEF Go
    <3>2. Fits(call[d], devices)
      BY <2>1 DEF CallsFit
    <3>3. call[d].at = "marking"
      BY <2>5, <3>1, <3>2 DEF Fits, Channels
    <3> QED BY <3>1, <3>3
  <2>6. ASSUME NEW d \in Calls, SelectSession(d), call'[c] # call[c] PROVE FALSE
    <3>1. c = d /\ call[c].session = s
      BY <2>1, <2>6 DEF SelectSession
    <3> QED BY <2>6, <3>1 DEF SelectSession, Usable, SessionInv, UsedAreMarked, Marked
  <2>7. ASSUME NEW d \in Calls, Step(d), call'[c] # call[c] PROVE c \in Redeeming(s)
    <3>1. {"ok", "refused", "failed"} \subseteq Answers
      BY DEF Answers
    <3>2. CASE CheckName(d)
      <4>1. Go(d, "naming") => call'[c] = call[c] \/ call'[c].at = "naming"
        BY <2>1 DEF Go
      <4> QED BY <2>4, <2>7, <3>1, <3>2, <4>1 DEF CheckName
    <3>3. CASE CreateSession(d) \/ RefuseSession(d) \/ UpsertUser(d) \/ InsertUser(d)
      BY <2>4, <2>7, <3>1, <3>3 DEF CreateSession, RefuseSession, UpsertUser, InsertUser
    <3>4. CASE MarkVerified(d) \/ LinkSession(d) \/ AttestDevice(d)
      BY <2>5, <2>7, <3>4 DEF MarkVerified, LinkSession, AttestDevice
    <3> QED BY <2>6, <2>7, <3>2, <3>3, <3>4 DEF Step
  <2>8. ASSUME Trouble, call'[c] # call[c] PROVE c \in Redeeming(s)
    <3>1. "failed" \in Answers
      BY DEF Answers
    <3> QED BY <2>4, <2>5, <2>8, <3>1 DEF Trouble, LinkFails, CallFails, Expire
  <2>9. CASE UNCHANGED api
    BY <2>2, <2>9 DEF api
  <2> QED BY <2>2, <2>3, <2>7, <2>8, <2>9 DEF ApiNext, Serving
<1>2. ApiInv /\ SessionInv /\ [ApiNext]_api => SessionInv'
  <2> SUFFICES ASSUME ApiInv, SessionInv, [ApiNext]_api PROVE SessionInv'
    OBVIOUS
  <2>1. CASE UNCHANGED api
    BY <2>1 DEF api, tables, past, SessionInv, OneCreation, CallsMarked, UsedAreMarked, Marked, Made
  <2> QED BY <2>1, BeginKeepsSessions, StepsKeepSessions DEF ApiNext, Serving, ApiStep
<1>3. ApiInit => SessionInv
  BY InitSessions
<1> QED BY <1>1, <1>2, <1>3, AccountsInvariant, PTL DEF ApiSpec, UsedUpForGood
=============================================================================

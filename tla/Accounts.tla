------------------------------ MODULE Accounts ------------------------------
(***************************************************************************)
(* The API's account handlers over their tables: request_otp, verify_otp,  *)
(* telegram_confirm, register, verify_hardware_attest and                  *)
(* verify_anonymous_attestation.  A handler is a call; each of its         *)
(* statements is an action, and nothing but a statement is atomic.         *)
(*                                                                         *)
(* An account is named by what its username is made of; usernames are      *)
(* unique, and register takes any of them, those the other handlers make   *)
(* included.  Devices are what usernames keep of device ids and            *)
(* fingerprints, their first characters.  A code is right or wrong.        *)
(* Hashing, proof of work and JWTs are computations between two statements *)
(* and are left out; login and me only read.                               *)
(***************************************************************************)
EXTENDS Integers, FiniteSets

CONSTANTS
    Sessions,    \* session_ids; a pool per channel bounds the requests
    ChannelOf,   \* the channel each of them is requested on
    Digits,      \* phone numbers, as their digits
    Names,       \* usernames only register's callers make
    Devices,     \* device ids and fingerprints
    Calls,       \* bounds the calls under way at a time
    Nobody,      \* no session, no call, no token
    MaxCalls,    \* bound on the calls of Request
    MaxFaults    \* bound on failures, time-outs, crashes and slow users

ASSUME ChannelAssumption ==
    ChannelOf \in [Sessions -> {"telegram", "whatsapp", "android_gateway"}]
ASSUME NobodyAssumption == Nobody \notin Sessions \cup Digits \cup Calls
ASSUME BoundsAssumption == MaxCalls \in Nat /\ MaxFaults \in Nat

VARIABLES
    sessions,    \* verification_sessions
    users,       \* reputation_score of each account, in tenths; 0 for no row
    devices,     \* attested_devices
    call,        \* the handlers under way
    linked,      \* history: sessions telegram_confirm has marked
    dropped,     \* history: sessions whose mark failed in telegram_confirm
    created,     \* history: times register answered 201 for a username
    redeemed,    \* history: sessions verify_otp has given a token for
    begun,       \* calls of Request so far
    faults

tables == <<sessions, users, devices>>
past   == <<linked, dropped, created, redeemed>>
api    == <<tables, call, past, begun, faults>>

Channels == {"telegram", "whatsapp", "android_gateway"}
Accounts == (Channels \X (Digits \cup Sessions)) \cup ({"tg"} \X Digits)
            \cup ({"own"} \X Names) \cup ({"anon", "attested"} \X Devices)
Stages == {"creating", "selecting", "marking", "linking", "upserting",
           "checking", "naming", "attesting"}
Callers == {"app", "bot", "other", "gone"}

NoCall == [at |-> "free", by |-> "gone", session |-> Nobody, right |-> FALSE,
           account |-> Nobody, score |-> 0]

Disturb == faults < MaxFaults /\ faults' = faults + 1

-----------------------------------------------------------------------------
(* A call arrives, in the first stage of its handler.  Which of the free names
   it has makes no difference.                                              *)
FreeCall == CHOOSE c \in Calls : call[c] = NoCall

Begin(c, stage, by, session, right, account, score) ==
    /\ call[c] = NoCall /\ c = FreeCall
    /\ call' = [call EXCEPT ![c] =
           [at |-> stage, by |-> by, session |-> session, right |-> right,
            account |-> account, score |-> score]]

Go(c, stage) == call' = [call EXCEPT ![c].at = stage]

(* It is answered: only the app and the bot look at the answer. *)
Answer(c, answer) ==
    call' = [call EXCEPT ![c] = IF @.by \in {"app", "bot"}
                                THEN [@ EXCEPT !.at = answer]
                                ELSE NoCall]

Answers == {"ok", "refused", "failed"}

ApiInit ==
    /\ sessions = [s \in Sessions |->
                      [state |-> "none", target |-> Nobody, verified |-> FALSE]]
    /\ users = [a \in Accounts |-> 0]
    /\ devices = {}
    /\ call = [c \in Calls |-> NoCall]
    /\ linked = {} /\ dropped = {} /\ redeemed = {}
    /\ created = [a \in Accounts |-> 0]
    /\ begun = 0 /\ faults = 0

-----------------------------------------------------------------------------
(* request_otp: one insert. *)
CreateSession(c) ==
    /\ call[c].at = "creating"
    /\ LET s == call[c].session IN
       sessions' = [sessions EXCEPT ![s] =
           [state |-> "open", target |-> call[c].account[2], verified |-> FALSE]]
    /\ Answer(c, "ok")
    /\ UNCHANGED <<users, devices, past, begun, faults>>

(* expires_at passes. *)
Expire(s) ==
    /\ sessions[s].state = "open"
    /\ Disturb
    /\ sessions' = [sessions EXCEPT ![s].state = "expired"]
    /\ UNCHANGED <<users, devices, call, past, begun>>

-----------------------------------------------------------------------------
(* verify_otp.  The row is read once: whether the call goes on and the account
   it ends in are decided here.                                             *)
Usable(c) ==
    LET row == sessions[call[c].session]
    IN  row.state = "open" /\ ~row.verified /\ call[c].right

(* Without a number the account is named after the session. *)
Identity(c) ==
    LET s == call[c].session
    IN  <<ChannelOf[s], IF sessions[s].target = Nobody THEN s ELSE sessions[s].target>>

SelectSession(c) ==
    /\ call[c].at = "selecting"
    /\ Usable(c)
    /\ call' = [call EXCEPT ![c].at = "marking", ![c].account = Identity(c)]
    /\ UNCHANGED <<tables, past, begun, faults>>

(* Mutated: a try uses the session up. *)
RefuseSessionForGood(c) ==
    /\ call[c].at = "selecting"
    /\ ~Usable(c)
    /\ sessions' = [sessions EXCEPT ![call[c].session].verified = TRUE]
    /\ Answer(c, "refused")
    /\ UNCHANGED <<users, devices, past, begun, faults>>

RefuseSession(c) ==
    /\ call[c].at = "selecting"
    /\ ~Usable(c)
    /\ Answer(c, "refused")
    /\ UNCHANGED <<tables, past, begun, faults>>

(* Mutated: the session is not marked. *)
MarkForgotten(c) ==
    /\ call[c].at = "marking"
    /\ Go(c, "upserting")
    /\ UNCHANGED <<tables, past, begun, faults>>

MarkVerified(c) ==
    /\ call[c].at = "marking"
    /\ sessions' = [sessions EXCEPT ![call[c].session].verified = TRUE]
    /\ Go(c, "upserting")
    /\ UNCHANGED <<users, devices, past, begun, faults>>

(* The last statement of every verification: the account is made, or found
   and left as it is, and its token is the answer.                          *)
UpsertUser(c) ==
    /\ call[c].at = "upserting"
    /\ users' = [users EXCEPT ![call[c].account] = IF @ = 0 THEN call[c].score ELSE @]
    /\ redeemed' = redeemed \cup (IF call[c].account[1] \in Channels
                                  THEN {call[c].session} ELSE {})
    /\ Answer(c, "ok")
    /\ UNCHANGED <<sessions, devices, linked, dropped, created, begun, faults>>

-----------------------------------------------------------------------------
Rows == {s \in Sessions : sessions[s].state # "none"}

(* telegram_confirm marks the session, whatever its state; without a row the
   update finds nothing.                                                    *)
LinkSession(c) ==
    /\ call[c].at = "linking"
    /\ LET s == call[c].session IN
       IF s \in Rows
       THEN /\ sessions' = [sessions EXCEPT ![s] =
                  [@ EXCEPT !.verified = TRUE, !.target = call[c].account[2]]]
            /\ linked' = linked \cup {s}
       ELSE UNCHANGED <<sessions, linked>>
    /\ Go(c, "upserting")
    /\ UNCHANGED <<users, devices, dropped, created, redeemed, begun, faults>>

(* The error of that statement is dropped. *)
LinkFails(c) ==
    /\ call[c].at = "linking"
    /\ call[c].session # Nobody
    /\ Disturb
    /\ dropped' = dropped \cup {call[c].session}
    /\ Go(c, "upserting")
    /\ UNCHANGED <<tables, linked, created, redeemed, begun>>

-----------------------------------------------------------------------------
(* register: is the name taken, then, after the hashing, the insert.  A name
   taken meanwhile is a unique violation and a 500.                         *)
CheckName(c) ==
    /\ call[c].at = "checking"
    /\ IF users[call[c].account] = 0 THEN Go(c, "naming") ELSE Answer(c, "refused")
    /\ UNCHANGED <<tables, past, begun, faults>>

Created(c) == created' = [created EXCEPT ![call[c].account] = @ + 1]

(* Mutated: the insert takes over an existing row, as the other inserts do. *)
InsertUserAnyway(c) ==
    /\ call[c].at = "naming"
    /\ users' = [users EXCEPT ![call[c].account] = call[c].score]
    /\ Created(c)
    /\ Answer(c, "ok")
    /\ UNCHANGED <<sessions, devices, linked, dropped, redeemed, begun, faults>>

InsertUser(c) ==
    /\ call[c].at = "naming"
    /\ IF users[call[c].account] = 0
       THEN /\ users' = [users EXCEPT ![call[c].account] = call[c].score]
            /\ Created(c)
            /\ Answer(c, "ok")
       ELSE /\ Answer(c, "failed")
            /\ UNCHANGED <<users, created>>
    /\ UNCHANGED <<sessions, devices, linked, dropped, redeemed, begun, faults>>

-----------------------------------------------------------------------------
(* Mutated: the account first. *)
AttestDeviceLater(c) ==
    /\ call[c].at = "attesting"
    /\ users' = [users EXCEPT ![call[c].account] = IF @ = 0 THEN call[c].score ELSE @]
    /\ Go(c, "upserting")
    /\ UNCHANGED <<sessions, devices, past, begun, faults>>

(* verify_hardware_attest: the device's row, then the account's. *)
AttestDevice(c) ==
    /\ call[c].at = "attesting"
    /\ devices' = devices \cup {call[c].account[2]}
    /\ Go(c, "upserting")
    /\ UNCHANGED <<sessions, users, past, begun, faults>>

(* A statement fails, or the API dies: nothing is undone. *)
CallFails(c) ==
    /\ call[c].at \in Stages
    /\ Disturb
    /\ Answer(c, "failed")
    /\ UNCHANGED <<tables, past, begun>>

-----------------------------------------------------------------------------
(* A session id is new; ids of one channel are alike. *)
FreshSessions == {s \in Sessions : sessions[s].state = "none"
                                   /\ \A c \in Calls : call[c].session # s}
NextSessions ==
    {CHOOSE s \in FreshSessions : ChannelOf[s] = ch : ch \in {ChannelOf[s] : s \in FreshSessions}}

(* Any client of the API: a session is asked for before it is verified or
   confirmed.                                                               *)
AnyCall(c) ==
    \/ \E s \in NextSessions, d \in Digits \cup {Nobody} :
          Begin(c, "creating", "other", s, FALSE, <<ChannelOf[s], d>>, 0)
    \/ \E s \in Sessions \ FreshSessions, right \in BOOLEAN :
          Begin(c, "selecting", "other", s, right, Nobody, 12)
    \/ \E s \in (Sessions \ FreshSessions) \cup {Nobody}, d \in Digits :
          Begin(c, "linking", "other", s, TRUE, <<"tg", d>>, 15)
    \/ \E a \in Accounts :
          Begin(c, "checking", "other", Nobody, FALSE, a, 10)
    \/ \E d \in Devices :
          Begin(c, "attesting", "other", Nobody, FALSE, <<"attested", d>>, 18)
    \/ \E d \in Devices :
          Begin(c, "upserting", "other", Nobody, TRUE, <<"anon", d>>, 10)

Request ==
    /\ begun < MaxCalls
    /\ begun' = begun + 1
    /\ \E c \in Calls : AnyCall(c)
    /\ UNCHANGED <<tables, past, faults>>

Step(c) ==
    \/ CreateSession(c)
    \/ SelectSession(c) \/ RefuseSession(c) \/ MarkVerified(c)
    \/ LinkSession(c)
    \/ UpsertUser(c)
    \/ CheckName(c) \/ InsertUser(c)
    \/ AttestDevice(c)

Serving == \E c \in Calls : Step(c)
Trouble == \/ \E c \in Calls : LinkFails(c) \/ CallFails(c)
           \/ \E s \in Sessions : Expire(s)

-----------------------------------------------------------------------------
ApiNext == Request \/ Serving \/ Trouble
ApiSpec == ApiInit /\ [][ApiNext]_api

-----------------------------------------------------------------------------
CallType ==
    [at : {"free"} \cup Stages \cup Answers, by : Callers,
     session : Sessions \cup {Nobody}, right : BOOLEAN,
     account : Accounts \cup (Channels \X {Nobody}) \cup {Nobody}, score : Nat]

ApiTypeOK ==
    /\ sessions \in [Sessions -> [state : {"none", "open", "expired"},
                                  target : Digits \cup {Nobody}, verified : BOOLEAN]]
    /\ users \in [Accounts -> Nat]
    /\ devices \subseteq Devices
    /\ call \in [Calls -> CallType]
    /\ linked \subseteq Sessions /\ dropped \subseteq Sessions
    /\ redeemed \subseteq Sessions
    /\ created \in [Accounts -> Nat]
    /\ begun \in Nat /\ faults \in Nat

(* One call of register makes an account: of any number that choose a name at
   once, one is answered 201, and none once the row exists, whichever handler
   made it (auth.rs:39-68).                                                 *)
CreatedOnce == \A a \in Accounts : created[a] <= 1

(* An account with a device's name is one verify_hardware_attest made, with the
   device on record whichever statement of whichever call failed, or one
   register made under that name first, with the 1.0 register gives
   (auth.rs:59-66, 384-414).                                                *)
AttestedOrRegistered ==
    \A d \in Devices : LET a == <<"attested", d>> IN
        users[a] # 0 => d \in devices \/ (created[a] = 1 /\ users[a] = 10)

(* verify_otp reads is_verified and sets it in two statements, so two calls may
   both get a token for one session; but once a token was given for its code,
   or Telegram's confirmation marked it, no call that reads it later gets one,
   whatever is created, confirmed, expired or fails meanwhile
   (auth.rs:203-229, 325-335).                                              *)
Redeeming(s) ==
    {c \in Calls : /\ call[c].session = s
                   /\ call[c].at \in {"marking", "upserting"}
                   /\ call[c].account[1] \in Channels}

UsedUpForGood ==
    [][\A s \in redeemed \cup linked : Redeeming(s)' \subseteq Redeeming(s)]_api
=============================================================================

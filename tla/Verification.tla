---------------------------- MODULE Verification ----------------------------
(***************************************************************************)
(* Who verifies: the app's onboarding screen and the Telegram bot, over    *)
(* the handlers of Accounts.                                               *)
(*                                                                         *)
(* The screen holds one session and one token; a request that takes longer *)
(* than its eight seconds fails for the app and goes on in the API.  The   *)
(* bot polls Telegram for updates and handles them one by one, with the    *)
(* pending sessions and the offset in memory only.  A chat is named by its *)
(* owner's number.                                                         *)
(***************************************************************************)
EXTENDS Accounts, Sequences

CONSTANT MaxMessages  \* bound on the messages sent to the bot

ASSUME MessagesAssumption == MaxMessages \in Nat

VARIABLES
    held,        \* _sessionId
    requesting,  \* the call of _handleRequestOtp, or Nobody
    verifying,   \* the call of _handleVerifyOtp or _handleAnonymousPoW
    token,       \* auth_token: the account it is for, or Nobody
    retry,       \* the screen shows an error for the session held
    inbox,       \* all messages sent to the bot
    acked,       \* Telegram has discarded this many of them
    offset,      \* the bot's offset: the last message handled, 0 at start
    last,        \* the last message of the batch
    bot,         \* where the bot is
    pending,     \* pendingSessions
    serving,     \* the call of the bot, or Nobody
    delivered,   \* history: sessions whose token the app stored
    wasted,      \* history: sessions a call marked whose token went nowhere
    handled,     \* history: messages whose handler came to its end
    thrown,      \* history: messages whose handler threw
    told,        \* history: messages answered "verified, return to the app"
    forgotten    \* history: sessions whose start was handled by a bot that stopped

app      == <<held, requesting, verifying, token, retry>>
telegram == <<inbox, acked>>
botState == <<offset, last, bot, pending, serving>>
botPast  == <<handled, thrown, told, forgotten>>
vars     == <<api, app, telegram, botState, botPast, delivered, wasted>>

Message == [chat : Digits, kind : {"start", "contact", "other"},
            session : Sessions \cup {Nobody}]
BotStages == {"polling", "batch", "replying", "confirming", "confirmed"}

Init ==
    /\ ApiInit
    /\ held = Nobody /\ requesting = Nobody /\ verifying = Nobody
    /\ token = Nobody /\ retry = FALSE
    /\ inbox = <<>> /\ acked = 0
    /\ offset = 0 /\ last = 0 /\ bot = "polling"
    /\ pending = [d \in Digits |-> Nobody] /\ serving = Nobody
    /\ delivered = {} /\ wasted = {}
    /\ handled = {} /\ thrown = {} /\ told = {} /\ forgotten = {}

-----------------------------------------------------------------------------
(* Calls of the clients. *)
Sent == UNCHANGED <<tables, past, begun, faults>>
Took(c) == call' = [call EXCEPT ![c] = NoCall]
(* The caller does not wait any longer; the handler goes on. *)
LetGo(c) == call' = [call EXCEPT ![c] = IF @.at \in Answers THEN NoCall
                                       ELSE [@ EXCEPT !.by = "gone"]]
(* The call's session is used up, and the app will not see the token. *)
Spent(c) == call[c].session # Nobody /\ call[c].at \in {"upserting", "ok"}

OnTelegram == {s \in Sessions : ChannelOf[s] = "telegram"}
-----------------------------------------------------------------------------
(* The onboarding screen.  A button is disabled while its call is under way. *)
AppUnchanged == UNCHANGED <<telegram, botState, botPast>>

(* The user asks for a code on a channel, and may at any time ask again. *)
RequestOtp ==
    /\ requesting = Nobody /\ token = Nobody
    /\ \E c \in Calls, s \in NextSessions, d \in Digits :
          /\ Begin(c, "creating", "app", s, FALSE, <<ChannelOf[s], d>>, 0)
          /\ requesting' = c
    /\ Sent /\ AppUnchanged
    /\ UNCHANGED <<held, verifying, token, retry, delivered, wasted>>

OtpRequested ==
    /\ requesting # Nobody
    /\ call[requesting].at \in Answers
    /\ held' = IF call[requesting].at = "ok" THEN call[requesting].session ELSE held
    /\ retry' = (call[requesting].at # "ok" /\ retry)
    /\ Took(requesting)
    /\ requesting' = Nobody
    /\ Sent /\ AppUnchanged
    /\ UNCHANGED <<verifying, token, delivered, wasted>>

RequestTimesOut ==
    /\ requesting # Nobody
    /\ Disturb
    /\ LetGo(requesting)
    /\ requesting' = Nobody
    /\ AppUnchanged
    /\ UNCHANGED <<tables, past, begun, held, verifying,
                   token, retry, delivered, wasted>>

(* The instructions of the two other channels hold the code; those of
   Telegram do not, and the deep link is not used.                          *)
EnterCode ==
    /\ verifying = Nobody /\ token = Nobody
    /\ held \in Sessions \ OnTelegram
    /\ \E c \in Calls :
          /\ Begin(c, "selecting", "app", held, TRUE, Nobody, 12)
          /\ verifying' = c
    /\ Sent /\ AppUnchanged
    /\ UNCHANGED <<held, requesting, token, retry, delivered, wasted>>

(* A guess or a slip. *)
EnterWrongCode ==
    /\ verifying = Nobody /\ token = Nobody /\ held # Nobody
    /\ Disturb
    /\ \E c \in Calls :
          /\ Begin(c, "selecting", "app", held, FALSE, Nobody, 12)
          /\ verifying' = c
    /\ AppUnchanged
    /\ UNCHANGED <<tables, past, begun, held, requesting,
                   token, retry, delivered, wasted>>

ProveWork ==
    /\ verifying = Nobody /\ token = Nobody
    /\ \E c \in Calls, d \in Devices :
          /\ Begin(c, "upserting", "app", Nobody, TRUE, <<"anon", d>>, 10)
          /\ verifying' = c
    /\ Sent /\ AppUnchanged
    /\ UNCHANGED <<held, requesting, token, retry, delivered, wasted>>

Verified ==
    /\ verifying # Nobody
    /\ call[verifying].at = "ok"
    /\ token' = call[verifying].account
    /\ delivered' = delivered \cup ({call[verifying].session} \ {Nobody})
    /\ Took(verifying)
    /\ verifying' = Nobody
    /\ Sent /\ AppUnchanged
    /\ UNCHANGED <<held, requesting, retry, wasted>>

(* Mutated: the button stays disabled after an error. *)
NotVerifiedBusy ==
    /\ verifying # Nobody
    /\ call[verifying].at \in {"refused", "failed"}
    /\ retry' = TRUE
    /\ Took(verifying)
    /\ Sent /\ AppUnchanged
    /\ UNCHANGED <<held, requesting, verifying, token, delivered, wasted>>

NotVerified ==
    /\ verifying # Nobody
    /\ call[verifying].at \in {"refused", "failed"}
    /\ retry' = TRUE
    /\ Took(verifying)
    /\ verifying' = Nobody
    /\ Sent /\ AppUnchanged
    /\ UNCHANGED <<held, requesting, token, delivered, wasted>>

(* The answer does not come in time, whether it is on its way or not. *)
VerifyTimesOut ==
    /\ verifying # Nobody
    /\ Disturb
    /\ wasted' = wasted \cup ({call[verifying].session} \ {Nobody})
    /\ retry' = TRUE
    /\ LetGo(verifying)
    /\ verifying' = Nobody
    /\ AppUnchanged
    /\ UNCHANGED <<tables, past, begun, held, requesting,
                   token, delivered>>

-----------------------------------------------------------------------------
(* Telegram. *)
UserWrites ==
    /\ Len(inbox) < MaxMessages
    /\ \E m \in Message :
          /\ m.kind = "start" =>
                m.session \in OnTelegram /\ sessions[m.session].state # "none"
          /\ m.kind # "start" => m.session = Nobody
          /\ inbox' = Append(inbox, m)
    /\ UNCHANGED <<api, app, acked, botState, botPast, delivered, wasted>>

-----------------------------------------------------------------------------
(* The bot. *)
BotUnchanged == UNCHANGED <<app, inbox, delivered, wasted>>

(* getUpdates: asking from offset + 1 discards what is before it; a bot that
   has just started asks for whatever Telegram still has.                   *)
Poll ==
    /\ bot = "polling"
    /\ acked' = IF offset > acked THEN offset ELSE acked
    /\ acked' < Len(inbox) \/ acked' # acked
    /\ offset' = acked'
    /\ last' = Len(inbox)
    /\ bot' = IF acked' < Len(inbox) THEN "batch" ELSE "polling"
    /\ BotUnchanged
    /\ UNCHANGED <<api, pending, serving, botPast>>

(* Mutated: the offset is that of the batch. *)
ReplyOnlyAnew ==
    /\ bot = "batch"
    /\ inbox[offset + 1].kind = "other"
    /\ offset' = last
    /\ bot' = "replying"
    /\ BotUnchanged
    /\ UNCHANGED <<api, acked, last, pending, serving, botPast>>

(* The offset moves on first.  A message that is neither a start with a
   session nor the sender's own contact is answered, and that is all.       *)
ReplyOnly ==
    /\ bot = "batch"
    /\ inbox[offset + 1].kind = "other"
    /\ offset' = offset + 1
    /\ bot' = "replying"
    /\ BotUnchanged
    /\ UNCHANGED <<api, acked, last, pending, serving, botPast>>

StartSession ==
    /\ bot = "batch"
    /\ inbox[offset + 1].kind = "start"
    /\ offset' = offset + 1
    /\ pending' = [pending EXCEPT ![inbox[offset'].chat] = inbox[offset'].session]
    /\ bot' = "replying"
    /\ BotUnchanged
    /\ UNCHANGED <<api, acked, last, serving, botPast>>

ConfirmContact ==
    /\ bot = "batch"
    /\ inbox[offset + 1].kind = "contact"
    /\ offset' = offset + 1
    /\ LET d == inbox[offset'].chat IN
       \E c \in Calls :
          /\ Begin(c, "linking", "bot", pending[d], TRUE, <<"tg", d>>, 15)
          /\ serving' = c
    /\ bot' = "confirming"
    /\ BotUnchanged /\ Sent
    /\ UNCHANGED <<acked, last, pending, botPast>>

(* Mutated: any answer will do. *)
ConfirmedAnyhow ==
    /\ bot = "confirming"
    /\ call[serving].at \in Answers
    /\ pending' = [pending EXCEPT ![inbox[offset].chat] = Nobody]
    /\ Took(serving)
    /\ serving' = Nobody
    /\ bot' = "confirmed"
    /\ BotUnchanged /\ Sent
    /\ UNCHANGED <<acked, offset, last, botPast>>

(* Mutated: the call is over, the bot does not note it. *)
ConfirmedStill ==
    /\ bot = "confirming"
    /\ call[serving].at = "ok"
    /\ pending' = [pending EXCEPT ![inbox[offset].chat] = Nobody]
    /\ Took(serving)
    /\ bot' = "confirmed"
    /\ BotUnchanged /\ Sent
    /\ UNCHANGED <<acked, offset, last, serving, botPast>>

Confirmed ==
    /\ bot = "confirming"
    /\ call[serving].at = "ok"
    /\ pending' = [pending EXCEPT ![inbox[offset].chat] = Nobody]
    /\ Took(serving)
    /\ serving' = Nobody
    /\ bot' = "confirmed"
    /\ BotUnchanged /\ Sent
    /\ UNCHANGED <<acked, offset, last, botPast>>

NotConfirmed ==
    /\ bot = "confirming"
    /\ call[serving].at \in {"refused", "failed"}
    /\ Took(serving)
    /\ serving' = Nobody
    /\ bot' = "replying"
    /\ BotUnchanged /\ Sent
    /\ UNCHANGED <<acked, offset, last, pending, botPast>>

(* sendMessage is through: the next message, or the next poll. *)
Replied ==
    /\ bot \in {"replying", "confirmed"}
    /\ handled' = handled \cup {offset}
    /\ told' = IF bot = "confirmed" THEN told \cup {offset} ELSE told
    /\ bot' = IF offset < last THEN "batch" ELSE "polling"
    /\ BotUnchanged
    /\ UNCHANGED <<api, acked, offset, last, pending, serving, thrown, forgotten>>

(* The request to the API breaks: it is caught, the user is told to retry.
   So is a success message that cannot be sent.                             *)
ConfirmBreaks ==
    /\ bot \in {"confirming", "confirmed"}
    /\ Disturb
    /\ IF bot = "confirming" THEN LetGo(serving) ELSE UNCHANGED call
    /\ serving' = Nobody
    /\ bot' = "replying"
    /\ BotUnchanged
    /\ UNCHANGED <<tables, past, begun, acked, offset, last,
                   pending, botPast>>

(* Any other message that cannot be sent ends the batch; what is left of it
   is fetched again, this message is not.                                   *)
ReplyThrows ==
    /\ bot = "replying"
    /\ Disturb
    /\ thrown' = thrown \cup {offset}
    /\ bot' = "polling"
    /\ BotUnchanged
    /\ UNCHANGED <<tables, call, past, begun, acked, offset,
                   last, pending, serving, handled, told, forgotten>>

(* Its memory goes, and it is no longer known which session each chat started. *)
BotRestarts ==
    /\ Disturb
    /\ forgotten' = forgotten \cup
           {inbox[j].session : j \in {i \in 1..offset : inbox[i].kind = "start"}}
    /\ pending' = [d \in Digits |-> Nobody]
    /\ offset' = 0 /\ last' = 0 /\ bot' = "polling"
    /\ IF serving = Nobody THEN UNCHANGED call ELSE LetGo(serving)
    /\ serving' = Nobody
    /\ BotUnchanged
    /\ UNCHANGED <<tables, past, begun, acked, handled,
                   thrown, told>>

-----------------------------------------------------------------------------
(* A call that fails after the mark has spent its session. *)
NoteWaste ==
    wasted' = wasted \cup
        {s \in Sessions : \E c \in Calls :
            call[c].session = s /\ call[c].at = "upserting" /\ call'[c].at # "upserting"
            /\ call'[c].at # "ok"}

ApiUnchanged == UNCHANGED <<app, telegram, botState, botPast, delivered>>
Served(c) == Step(c) /\ NoteWaste /\ ApiUnchanged
ApiFault == Trouble /\ NoteWaste /\ ApiUnchanged

AppStep == OtpRequested \/ Verified \/ NotVerified
BotStep == Poll \/ ReplyOnly \/ StartSession \/ ConfirmContact
           \/ Confirmed \/ NotConfirmed \/ Replied
TimeOut == RequestTimesOut \/ VerifyTimesOut
BotFault == ConfirmBreaks \/ ReplyThrows \/ BotRestarts

Next ==
    \/ (\E c \in Calls : Served(c)) \/ ApiFault
    \/ RequestOtp \/ EnterCode \/ EnterWrongCode \/ ProveWork
    \/ AppStep \/ TimeOut
    \/ UserWrites
    \/ BotStep \/ BotFault

(* The user has no code, or one that brought an error, and asks for one. *)
CodeWanted == retry \/ held \in {Nobody} \cup OnTelegram
AskAgain   == CodeWanted /\ RequestOtp

(* The API and the bot go on, and so does a user who wants to be verified. *)
Fairness ==
    /\ (\A c \in Calls : WF_vars(Served(c))) /\ WF_vars(OtpRequested)
    /\ WF_vars(Verified) /\ WF_vars(NotVerified) /\ WF_vars(BotStep)
    /\ SF_vars(AskAgain) /\ SF_vars(EnterCode)

Spec == Init /\ [][Next]_vars
FairSpec == Spec /\ Fairness

-----------------------------------------------------------------------------
(* Every variable has its type. *)
TypeOK ==
    /\ ApiTypeOK
    /\ held \in Sessions \cup {Nobody}
    /\ requesting \in Calls \cup {Nobody}
    /\ verifying \in Calls \cup {Nobody}
    /\ token \in Accounts \cup {Nobody}
    /\ retry \in BOOLEAN
    /\ inbox \in Seq(Message)
    /\ {acked, offset, last} \subseteq 0..Len(inbox)
    /\ bot \in BotStages
    /\ pending \in [Digits -> Sessions \cup {Nobody}]
    /\ serving \in Calls \cup {Nobody}
    /\ bot = "confirming" <=> serving # Nobody
    /\ delivered \subseteq Sessions /\ wasted \subseteq Sessions
    /\ forgotten \subseteq Sessions
    /\ handled \cup thrown \cup told \subseteq 1..Len(inbox)

(* A session is used up without the app's getting its token only where a call
   failed after its first statement or was given up by the app, or where
   Telegram confirmed it: verify_otp marks before it makes the account, and a
   marked session is never taken again (auth.rs:217-228, 315-335).          *)
BurntOnlyByFailure ==
    \A s \in Sessions :
        sessions[s].verified =>
            \/ s \in wasted \cup linked \cup delivered
            \/ \E c \in Calls : call[c].session = s /\ Spent(c)

(* The session a chat's contact is meant for: that of its last start. *)
Starts(i) == {j \in 1..(i - 1) : inbox[j].kind = "start"
                                 /\ inbox[j].chat = inbox[i].chat}
MeantFor(i) == {inbox[j].session : j \in {k \in Starts(i) : \A m \in Starts(i) : m <= k}}

(* Whoever the bot has told to return to the app has a verified session, unless
   the bot was restarted after its start or the API dropped the error of its
   mark; updates handled twice and failed attempts do not matter
   (index.mjs:27-116, auth.rs:325-335).                                     *)
ToldIsVerified ==
    \A i \in told : \A s \in MeantFor(i) :
        sessions[s].verified \/ s \in forgotten \cup dropped

(* Telegram discards a message only after its handler came to its end or
   threw: batches, restarts and retries lose nothing else (index.mjs:120-145). *)
LostOnlyByThrow == 1..acked \subseteq handled \cup thrown

(* A user who goes on asking for codes and entering them has a token in the
   end, through errors, time-outs, sessions asked for in vain and sessions of
   Telegram, unless a code is wanted when the bound of Sessions leaves none
   (onboarding_screen.dart:105-168).                                        *)
NoneLeft  == CodeWanted /\ requesting = Nobody /\ FreshSessions \subseteq OnTelegram
GetsToken == <>(token # Nobody \/ NoneLeft)

(* Claimed by auth.rs:153 ("verificar en 1-tap") and index.mjs:99: an app whose session
   Telegram has confirmed ends up with a token, with nothing else to do.    *)
TelegramGivesToken ==
    \A s \in Sessions :
        (held = s /\ s \in linked) ~> (token # Nobody)
=============================================================================

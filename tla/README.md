# OpenCaller in TLA+

OpenCaller is a community caller-ID service: a Rust API and a crawler over one
Postgres database, a Flutter app that keeps a local copy of the index and
screens calls from it, a Telegram bot and a WhatsApp bridge for verification
and messages. This directory models the parts of it that are hard to test,
checks them with TLC on small instances, and proves with TLAPS what matters
most for every instance. `PROJECT.json` maps each definition to the lines it
models and lists runs, mutants, hazards, findings and theorems.

## 1. The system

| Component | State | Operations | Interacts with |
|---|---|---|---|
| Caller index (`migrations/…initial_schema.sql`) | `numbers`, `number_name_suggestions`, `reports`, `delisted_numbers`, `users`, `federation_nodes` | single SQL statements; no code opens a transaction | every handler below |
| API ingest (`routes/contacts.rs`, `report.rs`, `federation.rs`) | locals of each request | contribute, report, federation sync | index |
| API privacy (`routes/privacy.rs`) | locals | delist, privacy status | index |
| API lookup (`routes/lookup.rs`) | locals | lookup | index |
| Crawler (`crawler/src/main.rs`) | loop position | ingest of a source | index |
| Delta feed (`routes/sync.rs`, `middleware/etag.rs`) | none | page of rows after a cursor, ETag | index, the app's sync service |
| Accounts (`routes/auth.rs`) | `verification_sessions`, `users`, `attested_devices` | request/verify OTP, Telegram confirm, password, proof of work, attestation | app, Telegram bot |
| Telegram bot (`telegram-bot/src/index.mjs`) | polling offset, pending sessions in memory | long poll, /start, shared contact | Telegram, API |
| WhatsApp bridge session (`whatsapp-bridge/src/baileysService.ts`, `sessionStore.ts`, `index.ts`, `httpServer.ts`) | current socket, timers, reconnect and logout counters, credentials on disk and in Postgres | connect, close and open handlers, persist, reset, shutdown | WhatsApp, Postgres, Docker's restart policy |
| WhatsApp bridge messages (`baileysService.ts`, `messageHandler.ts`) | send queue, ids of own messages | send, relay an inbound message to the agent | WhatsApp, agent |
| Mobile sync (`sync_service.dart`, `app_database.dart`) | local rows, cursor, ETag | sync, write a page | delta feed |
| Call screening (`OpenCallerScreeningService.kt`, `CallDirectoryHandler.swift`) | reads the local rows | decide a call, rebuild the iOS directory | local database |
| Algorithms (`scoring/*.rs`, `normalizer.rs`) | none | score, name similarity, profanity, E.164 | API, crawler |
| Screens, themes, translations, configuration, pools, logging | none that a protocol depends on | – | – |

What is hard, and what makes each part correct:

* **Caller index.** Every handler is several statements with an `await` between
  them and acts on what it read earlier: stale checks, lost updates, a failure
  half way. Correct means: what a row or an answer vouches for is backed by
  votes; votes and counts are not invented or lost; a delist hides the number
  and only calls already under way may leave something behind; a foreign key
  never stops a handler half way.
* **Delta feed and mobile sync.** A cursor in wall-clock time, a page limit, an
  ETag computed for another cursor, commits that appear with an older stamp.
  Correct means that the local copy never goes back, that only named causes lose
  an update, and that it catches up with all else.
* **Accounts and the bot.** Two verifications with one code, a bot that forgets
  its sessions at a restart, updates acknowledged before they are handled.
  Correct means that a used session stays used, that only a failed call, or
  Telegram, uses one up in vain, and that a user who goes on gets a token.
* **Bridge session.** Timers, callbacks and a reset from HTTP race over one
  socket and two copies of the credentials; the process exits on purpose and is
  restarted. Correct means one socket per credentials, credentials that vanish
  only through a reset, and a bridge that connects again or stops asking.
* **Bridge messages.** A queue whose promise may never settle, an event that
  arrives before the id it is matched with. Correct means that sends are serial,
  spaced and in order, and that nothing waits for ever on one that failed.
* **Algorithms.** Rolling rows and greedy matching with their off-by-ones; a
  filter with two readings of one name. Correct means that who contributed first
  makes no difference and that no disguise gets a rejected name through.

`PROJECT.json` lists each hazard at its line with the properties that cover it,
or the reason why none does.

## 2. Plan

The order in which the modules were written, the most important behaviour
first, and how they compose:

1. **NumberTables, NumberRegistry** – the index and its handlers.
   NumberRegistry EXTENDS NumberTables, whose operators are the SQL statements.
2. **BridgeSession** – the WhatsApp bridge: chains of connection, timers,
   credentials, reset, shutdown, crash and restart.
3. **DeltaSync** – the feed, its cursor, LIMIT and ETag, the edge in front of it
   and the app's sync. Implements **Mirror**, what a phone may assume of its copy.
4. **Accounts**, then **Verification**, which EXTENDS it – the API's account
   handlers, and over them the onboarding screen and the Telegram bot.
5. **SendQueue** – the bridge's messages over a socket that a reset takes away.
   Implements **Outbox**, what the queue is for.
6. **CallerNames**, and **NameTyping**, which EXTENDS it – the text algorithms,
   asked of every pair of short names.
7. A module of proofs for each of the six, two for the index and two for the
   accounts.

All of it is written, checked and, as section 5 says, proved. What was left
out, and why, is in section 6.

## 3. Modules

| Module | What it is |
|---|---|
| `NumberTables` | the tables and, one operator each, the SQL statements on them |
| `NumberRegistry` | the handlers, one action per statement; properties |
| `NumberRegistry_proofs` | type correctness of the index; the confidence and answer invariants |
| `NumberRegistryPrivacy_proofs` | privacy, foreign keys, residue of a delist, report and vote counts |
| `BridgeSession` | the bridge's session, one action per stretch of code between two awaits; properties |
| `BridgeSession_proofs` | the bridge's types, safety invariants and `KeptUntilReset` |
| `Mirror` | abstract: what a phone may assume of its copy of the index |
| `DeltaSync` | the feed, the edge and the app's sync; properties |
| `DeltaSync_proofs` | its types, its invariants and the refinement of Mirror |
| `Accounts` | the account handlers, one action per statement; properties |
| `Accounts_proofs` | their invariants and `UsedUpForGood` |
| `Verification` | the onboarding screen and the Telegram bot over Accounts; properties |
| `Verification_proofs` | their types and invariants; EXTENDS Accounts_proofs |
| `Outbox` | abstract: every message is tried once, in order |
| `SendQueue` | the send queue and the handler of inbound messages; properties |
| `SendQueue_proofs` | one chain, spacing, tracked ids, and the refinement of Outbox |
| `CallerNames` | `fuzzy.rs` and `profanity.rs` as functions on characters |
| `NameTyping` | names being typed and disguised; properties of CallerNames |
| `NameTyping_proofs` | what the algorithms compute for names of every length |
| `MC…` | values of the constants, and symmetry, for TLC |

### The index: NumberTables and NumberRegistry

**State.** `numbers`, `suggestions`, `delisted`, `reports` are the tables. A
request `p` has `job[p]` (kind, account, items), `pc[p]` (the statement that runs
next), `at[p]` (the item of the loop) and the handler's locals: `match`
(`matching_cluster_id`), `top` (the leading name and votes), `row` (the row a
report or lookup read). `answer` is a lookup's response. The rest is history,
of items, by request and place in its loop: `applied` are those whose write was
executed, `overtaken` those past their delist check when their number was
registered, and `unasked` those that went on with a registered number without
the registry's answer: a report, which does not ask, and a crawled record whose
check the database failed (`crawler/src/main.rs:62`).

**Steps.** A statement commits by itself, so an action is exactly one statement
together with the code up to the next `await`:

| Handler | Steps in order |
|---|---|
| `contribute_contacts` | `ContributeCheck`/`Skip` → `Ensure` → `Cluster` → `Vote` → `Lead`/`NoLead` → `Publish` → next contact |
| `submit_report` | `ReportRead` → `ReportUpsert` → `ReportRecord` |
| `delist_number` | `DelistRegister` → `DelistHide` → `DelistPurge` |
| `sync_federation` | `FederationCheck`/`Skip` → `Merge` → next item … → `Stamp` |
| crawler loop | `CrawlCheck`/`CheckFails`/`Skip` → `Upsert`/`UpsertFails` → next record |
| `lookup_number` | `LookupCheck`/`Delisted` → `LookupRow`/`Nameless` → `Hint` |

`Fail(p)` stops a handler before any statement: the statement errs (`?`), the
client disconnects and the future is dropped, or the process dies. What is
written stays. The crawler's `unwrap_or(false)` and ignored upsert result are
actions of their own, because the loop goes on.

**Abstractions.** A confidence of 0, .35, .65, .90 is the level 0 to 3, which
the code computes as `match votes { 1, 2, _ }`. Of the spam score only the report
count it is computed from is kept. Names are model values; normalisation,
similarity and the profanity filter are the constants `Normal`, `Similar`,
`Rejected`. An unordered `SELECT … LIMIT 1` returns any of its candidates.

### The bridge: BridgeSession

**State.** A *line* is one chain of control: `connect()`, the socket it makes,
that socket's close handler, the timer the handler sets, `connect()` again.
Start-up begins a line and so does each reset; nothing in the code joins or
cancels lines, they meet only in the module variables `sock`,
`reconnectAttempts`, `consecutiveLogouts`, `shuttingDown`, and in the two copies
of the credentials, `disk` (authDir) and `db` (`baileys_session`). `line[c]` is
the await, timer or socket a chain is at, and `held[c]` the credentials its code
or socket has in memory. `storing` and `saving` are the writes under way to disk
and to Postgres, `greeting` the open handlers that await their status update.
`forgotten`, `mishaps`, `resetFailed`, `tries` and `faults` are history;
`resetFailed` is over with the process or when another reset begins;
`mishaps` says that a reset overtook another line (`"line"`) or a write
(`"write"`), or that stored credentials did not decrypt (`"key"`).

| Code | Steps |
|---|---|
| `startBaileys`, `restoreAuthFromDb` | `Boot` → `BootSaves`, or → `Load`/`LoadGarbled` → `Restore` |
| `connect` | `ReadAuthState` → `MakeSocket` |
| `creds.update`, `persistAuthToDb`, the five-minute `setInterval` | `CredsUpdate` → `StoreCreds` → `SaveCredentials`; `PeriodicPersist` → `SaveCredentials`/`SaveFails` |
| `connection.update`, open | `Established` → `Greeted` → `SaveCredentials` |
| `connection.update`, close | `ClosedForShutdown`, or `Closed` → `ReconnectAtOnce`/`LoggedOut`/`Dropped`/`DroppedTooOften`; `TimerFires` |
| `resetSession` | `Reset` → `ResetClears` → `ResetConnects`, or `ResetFails` |
| `shutdown`, `process.exit`, kills, redeploys | `Terminate` → `Exit`; `Crash`; `LoseDisk` |

`Pair` and `LoseDisk` stand for WhatsApp's library and for Docker's volume, as
the code uses them.

**Abstractions.** Credentials are the number of the account they belong to, 0
before one is linked and `Empty` for an empty directory. The file lock of
`useMultiFileAuthState` makes a read queue behind the writes asked for, and a
write takes the credentials as they are at its turn, so a line has at most one.
Saves of one value from one kind of caller that are under way together count
as one; a crash drops those in flight. QR codes, the status column, the admin
alert, delays and messages are left out: no control depends on them. `connect()`
itself is taken not to reject (its version query falls back to a constant); from
a timer nothing would catch it, and `Crash` covers the process that ends.

### The delta sync: DeltaSync and Mirror

**State.** One country and one phone. `rows[n]` is a number's version, 0 before
it has a row, and the `updated_at` it was written with; `writes` are the
handlers under way that will write it, each with the stamp it took when it
started. `edge` is the page cached for first syncs. `stage`, `reply`, `local`,
`etag`, `cursor` and `directory` are `performDeltaSync`, the answer it works on,
`local_numbers`, the two preferences and what the iOS extension was last loaded
with. `missed` and `unloaded` are history: the updates the phone will not get
because of a named cause, and a reload that never succeeded.

| Code | Steps |
|---|---|
| handlers that bind `Utc::now()` to `updated_at` and commit later | `Begin` → `Commit` |
| `get_delta`: the query, its order and LIMIT, the ETag, the 304 | `NotModified` or `Answer`, on `Page(cursor)` |
| `Cache-Control` on a URL without `since`, and the tunnel's edge | `OthersSync`, `Expire`, and what `Served` and `Cached` say |
| `performDeltaSync` | `Sync` → (`NotModified`, over) or `Answer` → `Store` → `SaveEtag` → `SaveCursor` → `Reload`/`ReloadFails` |
| an exception, a time-out, the app killed, at any of its steps | `CutShort` |

**Abstractions.** A page is a set of rows with their versions, its ETag is the
page itself: SHA-256 is taken to collide with nothing. The cursor is the phone's
clock, which is off by a skew. Time moves by `Tick` independently of all else.
The other countries are other copies of the same protocol with their own cursor
and ETag. The edge is code outside the repository, modelled from the header the
handler sets; a URL with a cursor is no other phone's, so only the first sync's
is shared.

### Accounts and Verification

**State of Accounts.** `sessions` is `verification_sessions`: not yet, open or
expired, the number it is for and `is_verified`. `users` holds for each account,
named by what its username is made of, the score it was created with, in tenths.
The usernames of all handlers share one UNIQUE column and `register` accepts any
text of 3 to 32 characters (`auth.rs:31-34`), so it may be called for any account
of any kind. `devices` is `attested_devices`. `call[c]` is a handler under way: the
statement it runs next and what it carries to it. `linked` (sessions whose row
Telegram's confirmation marked), `dropped`, `created` (how often register made an
account) and `redeemed` (sessions `verify_otp` gave a token for) are history.
An UPDATE of `verification_sessions` hits a row only when there is one (`Rows`).

| Handler | Steps in order |
|---|---|
| `request_otp` | `CreateSession` |
| `verify_otp` | `SelectSession`/`RefuseSession` → `MarkVerified` → `UpsertUser` |
| `telegram_confirm` | `LinkSession`/`LinkFails` → `UpsertUser` |
| `register` | `CheckName` → `InsertUser` |
| `verify_hardware_attest` | `AttestDevice` → `UpsertUser` |
| `verify_anonymous_attestation` | `UpsertUser` |
| a statement that fails, the API dying | `CallFails` |
| `expires_at` passing | `Expire` |

In Accounts alone, any client may make any call (`Request`); in Verification the
calls are those of the screen and the bot. The screen lets the user ask for a
code at any time its call is not under way, on any channel, whether a session is
held or not (`onboarding_screen.dart:541-546`).

**State of Verification.** The screen: `held` (`_sessionId`), `requesting` and
`verifying` (the two calls whose buttons they disable), `token`, `retry` (an
error is shown). Telegram: `inbox` and how much of it is `acked`. The bot:
`offset`, `last` (of the batch it handles), where it is, `pending`
(`pendingSessions`) and `serving`, its call. The rest is history.

| Code | Steps |
|---|---|
| `_handleRequestOtp` | `RequestOtp` → `OtpRequested` or `RequestTimesOut` |
| `_handleVerifyOtp`, `_handleAnonymousPoW` | `EnterCode`/`EnterWrongCode`/`ProveWork` → `Verified`, `NotVerified` or `VerifyTimesOut` |
| the bot's `startPolling` | `Poll`, then for each message one of `ReplyOnly`, `StartSession`, `ConfirmContact` |
| the bot's handler of a contact | `ConfirmContact` → `Confirmed`/`NotConfirmed`/`ConfirmBreaks` → `Replied` |
| a `sendMessage` that throws | `ReplyThrows` |
| the container restarting | `BotRestarts` |
| whoever writes to the bot | `UserWrites` |

A time-out lets the handler go on: the API does not know that its caller left
(`LetGo`). The eight seconds are those of `api_client.dart:17`.

**Abstractions.** A code is right or wrong; hashing, proof of work and tokens
are computations between two statements. A chat is named by its owner's number;
the bot only confirms a contact the sender shares of himself, others are
`"other"`. Which account an upsert is for follows the code: channel and digits,
channel and session when there are none, or `tg_` and digits.

### The bridge's messages: SendQueue and Outbox

**State.** `connected` says whether `sock` is set: it is null before the first
`connect()` and after `resetSession` (`baileysService.ts:710`). A connection that
closes leaves `sock` as it is; sends on it are rejected until `connect()` replaces
it, which `SendRejects` covers. `queue` and `running` are
those of the class; `chain[c]` is a run of `drain()` and the task it holds;
`gap` is the time since `lastSendAt`, up to the interval. `send[t]` is what
became of a send's promise, and `"lost"` is a promise that will never settle.
`wired` is what WhatsApp has, `tracked` is `sentMessageIds`. `handler[h]` is the
handler of one `messages.upsert` event with the rest of its batch; `arrived`
and `logged` are the messages that came in an event and that the agent has.

| Code | Steps |
|---|---|
| `enqueue`, which calls `drain()` unawaited | `Enqueue`, in `HttpSend` and `Reply` |
| `drain` | `Shift` → (`Tick`…) → `RunTask` → `Wire` → `SendReturns`/`SendRejects`, or `RunWithoutSocket`; `Drained` |
| `rememberSentId` | `Remembered`, in `SendReturns` |
| `messages.upsert` | `Arrive`, then for each message `SkipEcho`, or `Relay` → `NoReply`/`Reply`/`RelayFails`, `Reply` → `Replied`; `BatchDone` |
| `connect` setting `sock`, `resetSession` clearing it | `Connect`, `ResetSession` |

**Abstractions.** The session of BridgeSession is here no more than `connected`.
`sendText` and `sendDocument` differ in nothing that the queue or the ids see.
Typing indicators, labels, the cache for retries and the history backfill are
left out: nothing waits on their results.

### The text algorithms: CallerNames and NameTyping

A name is a sequence of lower-case characters, each with the bytes it takes in
UTF-8 (`Width`, since `t.len()` counts bytes) and the letter the filter reads it
as (`Reads`). `ExtractCoreTokens`, `LevenshteinDistance`, `JaroSimilarity`,
`JaroWinklerSimilarity` and `AreNamesSimilar` are the functions of `fuzzy.rs`;
`Cleaned`, `Compacted` and `IsProfane` those of `profanity.rs`. They are folds,
like the loops they stand for. Scores are exact rationals where the code has
`f64`; a comparison that rounding could turn is not told apart. Lower-casing and
trimming are left to the caller, and the score that `are_names_similar` returns
is only logged. In `NameTyping` a state is a pair of names; a step types another
character of one, or disguises the typed one by a look-alike or a separator.

## 4. Runs

All passing runs explore the whole state space of their instance. Each property
of a passing run has a mutant of the code's definitions that breaks it (kept
beside the originals, commented "Mutated").

### The index

| Run | Instance | Shows |
|---|---|---|
| `registry` | 3 requests of any of the six kinds, 1 number, 4 names, 1 item; 1.1 M states | all invariants and `PrivacyIsPermanent` at every interleaving and failure |
| `registry_batches` | 2 contribute, delist or lookup calls of up to 2 contacts, 2 numbers, 2 names; 1.2 M states | `CarriedReadsHold`: locals do not leak between contacts, and a lookup's later reads fit its earlier ones |
| `reingestion` | delists and reports | `NeverReingested` is violated |
| `contributors` | one contribution of up to 3 contacts | `VerifiedByThree` is violated |

**Properties.**
`ConfidenceBacked`: the row of a listed number shows a name at level c only if
a suggestion of that name has c votes, and a badge only on three.
`NoConfidenceWithoutName`: nothing vouches for a name it does not show, a lookup
that mixes a row and suggestions of different times included.
`AnswerBacked`: the same for what a lookup said, later on.
`CarriedReadsHold`: what a handler carries across an `await` still holds when it
is used: the leader it publishes, the registration before a purge, the nameless
row before a lookup's fallback, and the answer after it.
`VotesAccounted`: votes equal the contributions that were executed.
`ReportCountNeverInflated`: concurrent reports may be lost, never counted twice.
`ForeignKeysHold`: a suggestion or report always has its number's row.
`OnlyOvertakenDataRemains`: after an answered delist, each suggestion left is of a
contact past its check when the number was registered, and a row that is public
was touched by such an item or, after the registration, by a report or by a
crawled record whose check failed. The last two are gaps of the code that the
property names; an earlier report, or any other write, excuses nothing.
`PrivacyIsPermanent`: a private row stays private, gets no confidence, and a
stored name only from a report.

**Bounds.** The hazards are between a check or read of one handler and the
writes of others. Three requests let one handler be overtaken by a second while
a third observes; three votes reach the top level; the two spellings meet one
cluster, the third name ties with it, the fourth is rejected. Rows of different
numbers meet only in a loop or a purge, which `registry_batches` covers with two
numbers, two contacts and lookups beside them. Symmetry is over requests, numbers and, where both
are interchangeable, the two spellings; no liveness is checked, for which
symmetry would be unsound.

**Deadlock** is not checked: `Requests` bounds the calls, and a run stops when
all have ended. **Fairness:** none is assumed; every property of the index is a
safety property, because a handler may always fail for good.

**Findings.** The two violation runs of the index are statements of the
repository that the code does not keep.

* `README.md:141`, *Right to be Forgotten*: a delisted number is "permanently
  blacklisted from re-ingestion". `submit_report` never asks the registry: a
  report after the delist creates a public, named row when the number had none.
* `README.md:109`, "Community Verified | 3+ Contributors": a vote has no voter;
  one call that lists a number three times is enough.

### The bridge's session

| Run | Instance | Shows |
|---|---|---|
| `bridge` | 2 lines, 1 account, MaxAttempts = MaxLogouts = 1, 1 write under way before another is added, 2 disturbances; 3.0 M states | all invariants and `KeptUntilReset` |
| `bridge_liveness` | the same with 1 disturbance and MaxLogouts = 0, fair; 0.5 M states | `BackupConverges`, `KeepsTrying` |

**Properties.**
`NeverStranded`: a process with no socket, timer or handler left has given up on
logouts or had a failed reset.
`OneLine`: two chains at a time only after a reset that did not stop the first.
`RetriesBounded`: though a drop clears the logout counter, the timers set
between two openings are bounded.
`Forgotten`: what a reset forgot is on neither store and no socket, unless the
reset overtook a line or a write under way.
`KeptUntilReset`: without a mishap, a stored account vanishes from both stores
only through a reset, or with the disk when the disk alone held it: the account
is not in Postgres between the pairing and the end of its first save. Crashes,
restarts, restores, late saves of older states and the loss of a disk that
Postgres has a copy of do not lose it. A reset that failed has emptied the disk and
counts as under way for as long as the process lives or until another begins:
a greeting that was under way may back the emptied disk up.
`BackupConverges`: when an account stays on disk, Postgres gets and keeps it.
`KeepsTrying`: a socket is on the wire again and again, or the bridge stops
where it may.

**Bounds.** Two lines are what it takes for a reset to overtake a chain. One
attempt and one logout exercise both sides of each cap and the way each counter
resets the other. Two disturbances give each pair of a reset, a failed reset, a
crash, a SIGTERM, a lost volume, undecryptable credentials and a failed save,
and the restart between them; a forgotten account is told from a new one by its
number, so one account is enough to see it come back. The theorems lift these
bounds for the proved properties. Symmetry of the lines is used in `bridge`
only. In `bridge_liveness` one disturbance suffices: what must recover is a
single interruption, and with no logout allowed a logout ends the chain at once.

**Deadlock** is not checked: a bridge that gave up really stops. **Fairness:**
weak fairness of `Boot` (Docker's `restart: unless-stopped`), of `Exit` (the 300
ms timer), of the five-minute interval, of each line's own steps (timers fire,
queries return, handlers run) and of each pending write. Nothing is assumed of
WhatsApp, the phone or the users: a socket may never open, never close, or close
for any reason at any time. Disturbances, failed saves included, are bounded by
`MaxFaults`.

### The delta sync

| Run | Instance | Shows |
|---|---|---|
| `delta` | 2 numbers, pages of 1, a clock of two instants, skews of -1, 0 and 1, 3 writes, 1 sync cut short or failed reload; 0.3 M states | all properties, with deadlock |

**Properties.**
`EtagIsStored`: a 304 hides nothing: whatever step of earlier syncs was the last
to complete, the page of the stored ETag is in the table, or newer.
`OnlyMissedIsStale`: an update the phone lacks and no longer asks for was left
off by LIMIT or an old page of the edge, or committed with a stamp the cursor
had passed; a crash between two steps loses nothing.
`DirectoryFollows`: between syncs the call directory is the table, unless a sync
that had stored its page was cut short or its reload failed.
`Mirrors`: DeltaSync implements Mirror: what the phone shows of a number was
published and is never replaced by something older.
`CatchesUp`: a phone that goes on syncing ends up with everything but what it
missed, and keeps it.

**Bounds.** Two numbers and a LIMIT of one make a page that is cut and one that
is not. Three writes let a row be written twice with stamps in the other order
while another row changes. Two instants, with a skew either way, put a stamp before,
at and after a cursor. One failure cuts a sync at any of its steps, and the syncs
after it show what that leaves. **Fairness:** weak fairness of the server's
answer (a request is answered or times out, and time-outs are bounded by
`MaxFailures`), of the steps of a sync that has its answer, and of the edge
letting a page go, which `max-age` says. Nobody is bound to write or to sync:
`CatchesUp` assumes in its own statement that the phone goes on syncing.

### Accounts and verification

| Run | Instance | Shows |
|---|---|---|
| `accounts` | 2 sessions (Telegram and another), 1 number, name and device, 2 calls at a time and 4 in all, 1 failure or expiry; 0.8 M states | any account handler against any other |
| `verification` | 3 sessions, 1 person and chat, 2 calls at a time, 2 messages to the bot, 1 disturbance; 0.8 M states | screen, bot and API together |
| `telegram` | 1 session, no disturbance | `TelegramGivesToken` is violated |

**Properties.**
`CreatedOnce`: of registrations that all found a name free, one is answered 201.
`AttestedOrRegistered`: an account with a device's name has its device on record,
whichever statement failed, or is one that `register` made under that name, with
the 1.0 that `register` gives.
`UsedUpForGood`: two calls may both redeem a session (the check and the update are
two statements), but once a token was given for its code, or Telegram's
confirmation marked its row, no call that reads it later does. The property is
about these two events, not about the mark: it fails if a token is given for a
session that is not marked, or a mark is cleared.
`BurntOnlyByFailure`: a session is used up without the app's getting its token
only where a call failed after the mark or was given up, or Telegram confirmed it.
`ToldIsVerified`: whoever the bot told to return to the app has a verified
session, unless a bot that had handled its start was restarted or the API dropped
an error.
`LostOnlyByThrow`: Telegram discards no message whose handler did not end or
throw, through batches, restarts and retries.
`GetsToken`: a user who goes on asking for codes and entering them gets a token,
through sessions asked for in vain, unless the instance has no session left when a
code is wanted (`NoneLeft`, the bound's doing).

**Bounds.** Two calls are what a race takes; four let a session be requested and
redeemed twice, with a Telegram confirmation between. In `verification` the
second and third session are those of a user who starts again after a failure;
two messages are a start and a contact, or a contact that overtakes its start,
or a batch of which the first throws. One disturbance is one of a failed
statement, an expiry, a time-out, a wrong code, a lost reply or a bot restart.
A second one could use up the last session of the instance, which is the bound's
doing, not the code's. **Deadlock** is not checked: calls and messages are
bounded, and a user with a token is done. **Fairness:** weak fairness of the
API's statements, of the app's reaction to an answer and of the bot's loop (a
`while (true)` that catches what it throws); strong fairness of the two buttons,
for a user who wants to be verified: a code that is held and not Telegram's is
entered, and one is asked for (`AskAgain`) when there is none to enter or the last
brought an error. Asking at other times is allowed and not assumed.
Nothing is assumed of Telegram, the network or the person's other choices.

**Finding.** `auth.rs:153` and `telegram-bot/src/index.mjs:99` tell the user to
verify with one tap and to return to the app: nothing ever tells the app, which
cannot ask, and a session Telegram has confirmed refuses the code
(`auth.rs:216`).

### The bridge's messages

| Run | Instance | Shows |
|---|---|---|
| `sending` | 3 sends, 1 message to answer, 2 chains, 1 handler, an interval of 1, 2 tracked ids, 1 reset; 0.25 M states | all properties |

**Properties.**
`SerialSpaced`: whoever asks, the next send begins only when none is under way
and an interval after the end of the last.
`InOrder`: SendQueue implements Outbox.
`EchoLoggedOnlyIfEarly`: an own message is logged as a person's only if its event
came before the send returned, or `MAX_TRACKED_SENT_IDS` were sent after it.
`NothingWaitsForever`: every send asked for is tried, and every handler gets
through its batch unless it awaits a send that was lost for want of a socket.

**Bounds.** A second chain is what the queue must not have; a third send passes
the cap of two ids, waits while one is sent, and is asked for while the queue
drains. One handler with batches of two has an echo behind a message whose reply
it awaits. **Deadlock** is not checked: sends and messages are bounded, and a
handler may wait for ever on a lost send. **Fairness:** weak fairness of time, of
each chain and handler of the event loop, and of a send or relay under way coming
to an end, well or not (a `fetch` gives up after its default five minutes, a send
fails when its socket closes). Nothing says that a
socket is made again after a reset, which may fail.

### Names

| Run | Instance | Shows |
|---|---|---|
| `names` | names of up to 4 characters over two letters, one of two bytes, a look-alike of the first and a full stop; 93 k pairs | all properties |

**Properties.**
`SimilarBothWays`: whether two names are one caller does not depend on which came
first, although the matching is greedy along one of them.
`FewestEdits`: the edit distance is the least number of edits: 0 only for equal
tokens, changed by at most one by an edit, lowered by one by some edit.
`NeverPardoned`: a rejected name stays rejected as it goes on, under look-alikes
and under separators put in between.

**Bounds.** Four characters with two letters give transpositions, a window of 0
and 1, common prefixes, tokens of under and over four bytes, stop words and names
of several words. The longer name is always the stored one; the properties are
symmetric. All three are proved for names of any length, which the instance only
has to be large enough to refute. **Deadlock** is not checked, as names are
bounded; there is no fairness.

## 5. Proofs

### The index

For every number of requests, numbers, names and items per call. Assumptions,
each evaluated by TLC in the runs: `NamesAssumption` (NULL is not a name),
`RowAssumption` (no row is not a row), `OpsAssumption` (known kinds),
`ItemsAssumption` (a call has at least one item). Nothing is assumed of `Normal`,
`Similar` or `Rejected`: the theorems hold whatever the text algorithms do.

* `TypeCorrect` (`NumberRegistry_proofs`): `Spec => []TypeOK`. One lemma per
  statement gives the type of the row it leaves, `GotoTypes` and `NextItemTypes`
  cover the control state, one lemma per handler puts them together.
* `EarnedAlways` (`NumberRegistry_proofs`): the inductive invariant
  `EarnedInv == TypeOK /\ CarriedReadsHold /\ ConfidenceBacked /\
  NoConfidenceWithoutName /\ AnswerBacked`. No conjunct is inductive alone. A
  publish is backed only because the lead read one statement earlier still has
  its votes (`LeadIsEarned`), which holds only because votes never fall except
  by a purge, which runs only on a registered number (`DelistedFirst`). A
  lookup's fallback is sound only because the nameless row it read had no
  confidence (`HintIsNameless`), which is `NoConfidenceWithoutName` at the time
  of the read. The argument: each statement leaves a row that *inherits* its
  claims (`StatementsInherit`) or publishes a backed one (`PublishedClaims`);
  each step *keeps* the votes of listed numbers (`VotesKeep`,
  `PurgeKeepsOthers`); a request that does not move keeps what it carries
  (`BystanderCarries`); then one lemma per handler.
* `ConfidenceAlwaysBacked`, `ConfidenceIsNamed`, `AnswersStayBacked`,
  `CarriedReadsAlwaysHold` follow from it.
* `NumberRegistryPrivacy_proofs` builds on `EarnedInv`. One lemma says which
  statement can have written a row and from where (`NumbersMove`); the rest of
  each argument is about those few writes.
  * `PrivacyStays`: every write keeps `is_private`, or is a report's, which keeps
    it too and may add a name; a publish is guarded by it.
  * `ForeignKeysAlwaysHold`: no row of `numbers` is ever deleted, so the invariant
    is that a handler past its own insert has a row (`HasRow`).
  * `DelistLeavesOnlyOvertaken`: `Residue` follows a delist call statement by
    statement: once it has registered the number, each item past a check for it
    is in `overtaken`, or is a crawled record whose check failed since (`Known`);
    once it has hidden the row, a public row has been touched by one of those or by
    a report after the registration (`Touched`); once it has purged, each
    suggestion is of an overtaken contact. That a history only grows by the item a call is at (`HistoriesGrow`) makes
    it inductive.
  * `ReportsNeverInflated`: the count is a read of the past plus one. `CountInv`
    bounds the row and every read still to be written back by the number of
    reports and records executed (`RowCounted`, `ReadCounted`), and each item is
    counted only once because it is not yet in the history when it is written
    (`Written`).
  * `VotesAlwaysAccounted`: the property is a sum by a fold over a set. The first
    lemmas of that section show that the fold's function exists (`SumsExist`) and
    that the sum loses just the votes of whatever element is taken out
    (`TotalWithout`), by the smallest subset for which a claim fails. The
    invariant, `ClustersInv`, is that a cluster is alone with its id and with its
    spelling, so that a vote is one row's, and that a cluster found before an
    await is still there at the vote, unless the number was delisted meanwhile.

### The bridge

For every set of lines, every cap and every bound on accounts, writes and
disturbances. Assumptions: `NoLineAssumption` (null is not a line) and
`BoundsAssumption` (the bounds are naturals).

* `BridgeTypeCorrect`: `Spec => []TypeOK`, with what a process that is down
  must not have.
* `NeverStrandedAlways`: each step of a line leaves it at another stage, or
  leaves a logout counter over its cap, a failed reset or no process.
* `RetriesAlwaysBounded`: the bound is not inductive, since a drop clears the
  logout counter after its timers were counted. `Counted` is: every attempt
  leaves room for MaxLogouts more timers, and logouts beyond the cap set none.
* `OneLineAlways`: from `Single` (any two busy lines are equal). `NoNewLine`
  shows that only a start-up and a reset make a line; a start-up finds none
  (`TypeOK`), a reset that is no mishap ends the only one it can find.
* `ForgottenAlways`: `Forgotten` is not inductive: a reset marks accounts as
  forgotten only when `clearCredentials` ends, and credentials wait in memory
  and in pending saves. `Forgetting` adds that only stages that use credentials
  hold them (`HeldInUse`), that pending writes are clean (`NoneOld`), and that
  while a line clears, the disk is empty and so is whatever is being saved
  (`Emptied`); `Single` keeps every other line away meanwhile.
* `KeptUntilResetAlways`, an action property: a stored account is lost only by the
  two writes that replace a copy, so the invariant is about what those write.
  While there was no mishap (`Keeping`), every account on disk, in Postgres, in
  memory and in a pending write is the one paired last (`OneAccount`); blank
  credentials are in use, and being written, only where nothing is stored
  (`NewOnlyIfNone`, `FirstWrites`); an empty or blank directory means that there is
  no backup, unless it is being loaded or cleared (`BackupBehind`); and a line that
  starts holds what the directory or the backup has (`Restoring`).

### The delta sync

For any set of numbers, any LIMIT, clock, number of writes and failures.
Assumptions: `NumbersAssumption` (numbers are ordered), `SkewsAssumption` (a
phone's clock is behind by one at most, so that no cursor but that of a first
sync is 0; it may be ahead by any amount) and `BoundsAssumption`.

* `CopyAlwaysSound`: `EtagIsStored` is not inductive, because what a page at the
  edge holds may be older than the index. `CopyInv` adds that pages have one
  entry per number and none newer than its row (`Pages`), that the table is
  never ahead of the index (`Behind`), and that no page on its way to the phone
  is older than what the phone has (`NoneOlder`), which for a page of the edge
  holds only as long as the phone may be served from there. Then
  `DeltaTypeCorrect` and `EtagAlwaysStored`.
* `OnlyMissedIsEverStale`, from `Tracked`: where at each stage an update may be
  that the phone lacks: still asked for, in the answer, or missed.
* `DirectoryAlwaysFollows`: before a page is stored, table and directory differ
  only if a reload is owed.
* `PhoneMirrors`: DeltaSync implements Mirror. A commit publishes; storing a page
  refreshes the copy within what is published and never back, by `NoneOlder`;
  every other step stutters.

### Accounts

For any number of sessions, accounts, calls and failures. Assumptions:
`ChannelAssumption` (a session has a channel), `NobodyAssumption` and
`BoundsAssumption`.

* `AccountsInvariant`: `ApiInv` is the type of the tables, what a call carries at
  each stage (`CallsFit`: an attested account on its way to its insert has its
  device on record already), `CreatedIsStored` (an account that register answered
  for exists, once) and `AttestedOrRegistered`.
* `NamesCreatedOnce` and `AttestedHasDeviceOrName` follow.
* `SessionsUsedUp`, an action property, rests on `SessionInv`: a session is made by
  one call, before any statement reads it (`OneCreation`), so no creation clears a
  mark; a call that is to give a token for a session has marked its row
  (`CallsMarked`), so what is in `redeemed` or `linked` is marked
  (`UsedAreMarked`). Then no step selects a marked session, and no other step makes
  a call redeem.

### Verification

For any number of sessions, people, calls, messages and disturbances. Besides the
assumptions of Accounts only `MessagesAssumption` (the bound is a natural).

* `VerificationInvariant` gathers `ApiInv` of Accounts, the types, who owns which
  call (`CallsOwned`: one that the app or the bot waits for is named by a variable
  of theirs) and where the bot is in its batch (`BotPlace`); then what each
  property needs.
* `VerificationTypeCorrect`, with it that nothing is handled, thrown or told that
  was not sent.
* `MessagesLostOnlyByThrow`, from `NoneSkipped`: all that is behind the bot's place in
  its batch was handled or thrown, and what is acknowledged is behind it.
* `SessionsBurntOnlyByFailure`, from `MarkedInUse`: what marked a session is a call
  that still has it, other than a request for a code or the bot's, or the session's
  end is in one of the histories.
* `WhoeverIsToldIsVerified`, from `PendingFits` and `ToldSettled`: what the bot has
  pending for a chat is the session of the last start it reached, or that session
  is settled already, and a session is settled for good. A start names a session
  that was made before (`MadeOnce`). The first attempt
  failed for a good reason: `forgotten` then named only the sessions pending at a
  restart, but a bot that took a second start before it stopped has also
  forgotten the first, and if that start is acknowledged and the contact is not,
  the contact is handled again with no session and its sender is told to return.
  The history now names every session whose start a stopped bot had handled, as
  the code's `Map` in memory (`telegram-bot/src/index.mjs`) does forget them all.

### The send queue

For any number of sends, chains, handlers and messages, any interval, number of
tracked ids and resets. Assumptions: `BoundsAssumption` (at least one
id is tracked; the code tracks 500) and `NamesAssumption` (a send is no inbound
message and not `NoTask`).

* `OneChainAlways`: `QueueInv` is the type of the queue, that whatever is queued,
  held or tried was asked for (`AllAskedFor`), and that `running` is the lock of
  the one chain (`OneChain`).
* `SendsAreSerialSpaced`: with one chain, a send that begins is the only one, and
  its guard is the interval.
* `SendsInOrder`: SendQueue implements Outbox. Its `waiting` is the task at the
  interval and the queue behind it; `Shift` moves a task from one to the other
  and is a stutter, and both ways a task can run are `Try`. A task asked for is
  new because no task in the queue, in a chain or tried is unused.
* `QueueTypeCorrect` and `OwnMessagesRecognised`, from `MessageInvariant`: a send
  is in one place at a time (`OnePlace`), the tracked ids are the last ones tried
  that returned, in the order of the tries (`TrackedInOrder`), so an id that fell
  out of the list has the cap's number after it; and an own message that is yet to
  be matched, its event not early, has its id tracked or so many after it
  (`EchoKnown`). Five lemmas say what
  `Append`, `Tail` and `RemoveAt` do to such a list.

### Names

For every alphabet, every table of look-alikes, all stop words and profane words,
and names of every length. Assumptions: `CharsAssumption` (a character takes one
to four bytes and reads as a letter or as `Gap`, a letter is a character, `Gap` is
none, and profane words are words) and `LenAssumption`.

* *Folds.* The algorithms are folds, and a fold of the library is the choice of a
  function on sets of positions that satisfies an equation. That there is such a
  function, and that any two agree, is an induction over finite sets; the provers
  cannot instantiate an induction theorem with a predicate, so `SolutionsExist` and
  `SolutionsAgree` take a smallest set that is a counterexample (`SmallestSet`).
  `FoldStep` then follows a fold from one position to the next. All later inductions
  are over a set of numbers (`CountUp`, `Stepwise`) or of cells (`CellByCell`).
* `DistanceIsFewestEdits`, all of `FewestEdits`. The rows that `levenshtein_distance`
  keeps two of are those of a table (`TableExists`); neighbouring cells of a table
  differ by one at most (`Neighbours`); replacing or inserting a character moves
  the last cell by one at most (`ReplacedNear`, `InsertedNear`; a removal is an
  insertion seen from the other name), and the step that gave a cell its value
  is an edit that lowers it (`EditNearer`).
* `SimilarityHasNoOrder`, all of `SimilarBothWays`. The part that is not obvious is
  `jaro_similarity`, which is greedy along one of the names. Say that two
  positions fit if their characters are equal and they are in each other's
  window. Each character of the first name takes the leftmost free position that
  fits, so no two that fit would both rather have one another (`GreedyIsStable`).
  That is said of both names alike, and at the first position where the matching
  from the one side is not that from the other, one of the two would be unstable
  (`MatchesBothWays`). So the matched positions are the same ones, and so are the
  transpositions and the score. `levenshtein_distance` is symmetric because the
  transposed table is a table.
* `NoDisguiseHelps`, all of `NeverPardoned`. Every word of a name occurs in the name
  with the gaps left out (`WordsOccur`), hence `ProfaneWhenCompacted`: the words the
  filter looks at one by one (`profanity.rs:29-41`) decide nothing, since whatever
  is found in one was found in the compacted name before. A separator does not
  change the compacted name, a look-alike not even the cleaned one, and another
  character at the end leaves what occurs in it.

The recursion that these inductions follow is in the library's folds, so that no
module needs a RECURSIVE operator. `FewestEdits` is about tokens, as the code only
compares tokens so. The rationals of the model stand for `f64`; addition commutes
there too, but what rounding does to a comparison is not proved.

### What is only model-checked

The liveness properties `BackupConverges`, `KeepsTrying`, `CatchesUp`, `GetsToken`
and `NothingWaitsForever`: liveness under fairness and ENABLED are out of the
prover's reach. All other properties of the passing runs are proved.

## 6. Not modelled

* **Spam score.** Its arithmetic over reals is out of TLC's reach, and no decision
  of the code modelled depends on it. It depends on the order of the reports, as
  it is clamped after each, and a peer's batch that fails half way
  (`federation.rs:25`) is merged again and counts twice.
* **Reads.** `login`, `me`, `privacy_status`, `list_nodes`, the other queries of
  the app's database and the Android screening service, which looks one row up
  and decides, change nothing.
* **The crawler's number normaliser** is straight-line code that its unit tests
  cover; numbers are model values here. A user name takes the first twelve characters
  of a device id or fingerprint (`auth.rs:284`, `:400`) and the first eight of a
  session id (`auth.rs:234`): two that begin alike share an account, which the model
  does not tell apart.
* **The bridge process ending under its messages.** A crash or restart empties the
  queue and the tracked ids (`baileysService.ts:79`), and an event may be delivered
  twice. The awaits of `messages.upsert` outside its `try` (`baileysService.ts:437`,
  `:471`), which resolve a LID from the local store, are taken not to reject: if one
  does, the rest of the batch is dropped and the rejection is not handled. SendQueue
  is one life of the process in which neither happens.
* **Older credentials of the same account.** BridgeSession tells credentials apart by
  account only, so a backup that keeps an older bundle of the right account
  (`baileysService.ts:170`) is not told from the newest.
* **What nothing waits on.** QR codes, the status column and the admin alert of
  the bridge; its labels, typing indicators, retry cache and history backfill.
* **Screens, themes, translations, configuration, pools, encryption, logging**
  keep no state a protocol depends on. Requests that fail their argument checks
  change nothing and are left out.
* **A crash of Postgres.** With `synchronous_commit=off` (`docker-compose.yml:26`)
  it may lose commits that were answered for. Every promise about an answered
  call then fails, whatever the handlers do.

Met while modelling, and not made a property, because the code says nothing to
the contrary or the statement is not about what these modules tell apart:

* A sync cut short between the ETag and the cursor (`sync_service.dart:72-74`)
  is answered 304 until the page for the old cursor changes: if LIMIT cut that
  page, the rows beyond it do not come meanwhile, and the call directory is not
  reloaded. `OnlyMissedIsStale` and `DirectoryFollows` name these cases.
* A contribution past its delist check adds a suggestion after the purge
  (`privacy.rs:52`), and two contributions that publish in the opposite order of
  their reads leave the lower confidence on the row (`contacts.rs:143-146`):
  `ConfidenceBacked` bounds the level from above only.
* A crawled record whose delist check fails is written although the number is
  delisted (`crawler/src/main.rs:62`); `OnlyOvertakenDataRemains` names the case.
* The disk is lost, or a reset fails, before Postgres has an account: it is gone
  (`baileysService.ts:240-243`, `:712-724`). `KeptUntilReset` names both.
* The username an attestation gives (`auth.rs:400`) may be registered with a
  password before (`auth.rs:31-34`); the attested device then gets that account.
  `AttestedOrRegistered` states what holds.
* A suggestion of a name with "coño" in it is not rejected: the filter reads ñ
  as n and then looks for the word with its ñ (`profanity.rs:9`, `:60`).
* On a new volume, stored credentials that do not decrypt are overwritten by the
  periodic backup of an empty directory (`baileysService.ts:40`); a
  `creds.update` whose file write is under way writes credentials back after a
  reset (`httpServer.ts:431`). Both are `mishaps` of BridgeSession.
* A `connect()` that awaits while SIGTERM arrives makes a socket that the process
  exits with (`index.ts:21-25`).
* `sendText` without a socket throws before its `try` (`baileysService.ts:545`):
  the HTTP request, or the rest of a batch, waits for ever. That is the exception
  `NothingWaitsForever` states.

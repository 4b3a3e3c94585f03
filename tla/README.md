# A model of Survolocking

Survolocking screens incoming phone calls for families. An Android app (and a smaller iOS app) decides on the device whether a call goes through, silent, or not at all. A FastAPI server keeps accounts, family groups, call logs, marks and the rule packages that it derives from them, and sends those back to the devices of the family. This directory holds TLA+ modules of that system, TLC configurations that check them on small instances, and proofs that TLAPS checks for instances of every size.

All paths below are relative to `src/`; `app/` stands for `server/app/`, and `android/` for `android/app/src/main/kotlin/com/survolocking/`.

    tlc -workers 2 -config MCFamilyMysql.cfg MCFamily     # one of the runs
    tlapm FamilyProofs.tla                                # the proofs, likewise RuleSyncProofs, SmsCodeProofs,
                                                          # SessionProofs, LogProofs, AnalysisProofs,
                                                          # MarksProofs, CallTrackerProofs

`PROJECT.json` lists the runs, says which source lines each definition translates, names for every property a slip in the code that breaks it (operators whose comment begins with "Slip:"), the hazards of the code, and where the code does not do what its comments say.

## 1. Inventory

### The server

One uvicorn worker serves all requests (`deploy/Dockerfile`, `app/main.py`). Handlers are coroutines on one event loop; synchronous dependencies such as `get_db` and `get_current_user` run in a pool of threads. A handler that does not `await` therefore runs alone from its first statement to its last, but *after* its dependencies have run, and other handlers may run in between. The database is MySQL, or SQLite when MySQL cannot be reached.

| Component | State | Operations | Hard part | What makes it correct |
|---|---|---|---|---|
| Family groups, invitations (`app/api/family.py`) | `families`, `family_members`, `family_invitations` | create, invite, accept, reject, leave, remove, list | checks and writes are two moments; MySQL answers the checks from a snapshot; invitations lapse; rows stay after leaving | one group for each user, only the invited join, only the member and the creator end a membership, nothing dangles |
| Accounts, sessions (`app/api/auth.py`, `app/core/security.py`, `app/core/deps.py`) | `users` with `session_id`, tokens of the clients | register, login by code or password, check of a token, delete, change of profile | one device at a time: a login elsewhere kicks this one; `login` awaits between reading and writing; ids are given again; answers are late; deletion meets foreign keys | one device is served; a token opens no other account; who is replaced learns of it; a deleted account leaves nothing behind |
| SMS codes, cache (`app/services/sms_service.py`, `app/core/cache.py`) | Redis or a dictionary with expiry times; `sms_codes` | send (rate limits), verify, resend | expiry between two cache calls; a code kept in two places; a provider that fails after the rate key is set | a code serves once (it does not, see section 6); nobody gets more messages than the limit; a failure does not lock the user out |
| Notifications (`app/services/push_service.py`, `app/api/notify.py`) | `notifications` | notify, list, mark read | own transaction after the commit of the handler | no row for an account that is gone |
| Rule packages (`app/services/rule_service.py`, `app/api/rules.py`) | `rule_packages` | next version, incremental answer, feedback, aggregation, review | versions are taken while devices ask; review may bring an old version back | what comes into force is newer than everything a device may have seen |
| Aggregation (`rule_service.py:75`) | reads `intercept_logs`, writes `rule_packages` | nightly count of the marks of a family | thresholds on counts and shares | enough users, and their agreement |
| Offline analysis (`app/services/deepseek_service.py`, `app/scheduler.py`, `app/api/admin.py`) | `analysis_jobs`, `rule_packages`, signatures in the cache | batch of logs to an external service; validate and store its rules | awaits the service between the check of the daily limit and the write | limit per day, no pattern with two rules, no logs skipped whose rules are not stored |
| Logs, marks (`app/api/logs.py`) | `intercept_logs` | upload, mark, list | at-least-once delivery without a key; a mark before its call | nothing uploaded is lost; a mark finds its call |
| Log partitions (`app/database.py`, `scheduler.py`) | partitions of `intercept_logs` | add next months, drop old ones | statements that commit one by one; overlapping runs; outages | months in order, a partition for the present, six months kept |
| Risk query (`app/services/qiling_service.py`) | answers in the cache | HTTP query | timeout | falls back to "unknown" |

### The Android app

| Component | State | Operations | Hard part | What makes it correct |
|---|---|---|---|---|
| Rule synchronisation (`android/worker/RuleSyncWorker.kt`, `android/data/RuleDatabase.kt`) | stored rule version; tables `blacklist`, `whitelist`, `graylist` | periodic: ask, replace the graylist, add numbers, save the version | may be cut off anywhere; one version for whichever family; several transactions | no rule is passed over |
| Log upload (`android/worker/LogUploadWorker.kt`, `RuleDatabase.kt`, `android/net/ApiClient.kt`) | table `upload_queue`, token | write, take a batch, send, delete | lost answers, kills, refusals, a kick in between | a log leaves the queue only when the server has it, and does not stay for ever |
| Screening (`android/engine/CallScreenService.kt`, `DecisionEngine.kt`) | rule tables, caches of contacts and risk, behaviour counters | six layers, answer, asynchronous log | caches refreshed while they are read | the answer respects the order of the layers |
| Call tracker (`android/engine/CallStateReceiver.kt`) | static fields with the current call | ringing, off-hook, idle | each broadcast in its own coroutine, in any order | a row for each missed call; urgent calls are not blocked |
| Marks (`android/engine/MarkReceiver.kt`, `android/ui/MarkActivity.kt`) | none | mark as nuisance, customer or unsure | sent at once, before the log's upload | the mark meets its call, or stands in for it once |

The iOS app has the decision layers and a call directory extension (`ios/SurvolockingCallDirectory/`) whose entries must be in ascending order. It has no worker that synchronises. Views, configuration, deployment and the test scripts keep no state that the rest depends on.

### How the components meet

* handlers and jobs share the database and nothing else; each request or job is one session;
* `family.py` calls `push_service.notify` after its commit; `rules.py` and `deepseek_service.py` write `rule_packages` through the version counter of `rule_service.py`;
* devices meet the server only in requests that may be lost on either way; the version in `sync_rules` is all that the server learns about what a device has;
* deleting an account touches the tables of every component.

## 2. Plan

The order was that of importance; all rows are done.

| # | Module | What | Abstract specification | Proved |
|---|---|---|---|---|
| 1 | `Family` | groups, invitations, accounts, notifications, requests in flight | - | all its safety, with either database |
| 2 | `RuleSync` | rule packages and their way to the devices | `RuleDelivery` | `NumbersDelivered` without direct switches, `VersionsGrow`, the refinement |
| 3 | `UploadQueue` | logs from the call to the server | `LogDelivery` | all its invariants, the refinement |
| 4 | `SmsCode` | codes in cache, table and at the provider; the window of a number | - | all its invariants |
| 5 | `Session` | `login` around its `await`, sessions and tokens, the late 401 | - | all its safety |
| 6 | `Marks` | marks racing uploads, the count of them, the rule they make | - | all its safety |
| 7 | `Analysis` | the run around the awaited call; limit, signature, rules | - | all its invariants |
| 8 | `Partitions` | partitions ahead and old ones, by overlapping runs | - | all its safety |
| 9 | `CallTracker` | broadcasts in any order, the rows of a number, layer 3 | - | all its invariants |

There is one run for each question, and three for disagreements between code and comments. Components are composed where their steps meet: accounts and groups in `Family`, the rule table and the devices in `RuleSync`, the call and the server's rows in `UploadQueue`, marks, uploads and the aggregation in `Marks`, screening and the tracker in `CallTracker`. Where one component only needs another's outcome, it takes any outcome: `RuleSync` any result of the aggregation and the analysis, `Marks` a queue that is uploaded as a whole.

## 3. The modules

### Family

State: `live` (table `users`), `creator` and `open` (`families.creator_id`, `is_active`), `member` (no row, active row, row of somebody who has left), `inv` (family, phone, status of each invitation), `inviters` (users that `family_invitations.inviter_id` refers to), `unread` (readers of unread `notifications`), `req` (requests in flight).

A request has two moments. `Begin` is `get_current_user`: the account exists, and the session has taken its snapshot. The body comes later: `CreateFamily`, `InviteMember`, `AcceptInvitation`, `AcceptTooLate`, `RejectInvitation`, `LeaveFamily`, `RemoveMember`, `DeleteAccount`, `MarkRead`, or `Fail` for an early return or a refused write. What the SELECTs of each handler answer, and so what it decides, is in the operators `...Reads`. With `SnapshotReads = TRUE` (MySQL, whose default isolation is REPEATABLE READ and is not changed in `app/database.py`) the decision is made on the state of the first moment, and the writes and the key constraints meet the state of the second. With `FALSE` (SQLite) both are the second. The `verdict` of a request carries the decision from one to the other. `raced` is for the properties only: `Contend`, in the three bodies that make somebody a member or invite him, adds the user concerned when another request that competes for the same thing (`Compete`) has decided already and not yet written.

`ConstraintFails` holds the primary key of `family_members`, the foreign keys, and SQLAlchemy's error for an UPDATE that meets no row. `Lapse` is the passing of 48 hours (`pending` becomes `overdue`; the stored status is 0 for both), `Restart` loses the requests in flight. `Register` waits until no request of or about an earlier account of the number is in flight, since it takes an SMS code to get there.

### RuleDelivery, RuleSync

`RuleDelivery` says what an incremental synchronisation promises: to a device, items are on offer, each at a version; the device holds some and has one number, the version it is up to date with. Nothing new is offered at a version that has been passed, nothing is dropped, and the version moves only over items that are held.

`RuleSync` has the rows of `rule_packages` (`rules`), the family of the account on each device (`home`), the stored version (`ver`), the three lists, and the progress of the worker (`sync`). Server operations (`ApplyFeedback`, `Aggregate`, `PersistAnalysis`, `Review`, `Increment` inside `Answer`) do not await between taking a version and writing, and are one step each. The worker is a chain `Ask`, `Answer`, `ReplaceGray`, `AddNumber` once for each number, `SaveVersion`; `Abort` may cut it off after any of them. `Aggregate` and `PersistAnalysis` take any result of the counting and of the external analysis that their validation lets through. Patterns stand for phone hashes, prefixes and behaviour conditions; content and confidence are left out because nothing here depends on them. `Delivery` is the refinement mapping: on offer are the effective number rules of the account's family, held is what is on the two number lists.

`DirectSwitch` says whether an account may go from one family to another without a synchronisation outside any family in between. `FALSE` is the case in which the delivery works; `TRUE` is the code (see section 6).

### LogDelivery, UploadQueue

`LogDelivery`: a log that waits stays until the server has stored it at least once. `UploadQueue` follows a call from `Screen` (the answer to the system) over `Write` (the coroutine) into `queue`, whose rows have an id greater than all before (`lastId`, AUTOINCREMENT), and the worker from `Take`, which reads the `Oldest` rows, to `Receive` on the server and to `Forget`, which deletes by id, `GiveUp` (a refusal: the work is done, the batch stays) or `Logout` (kicked: 401). `Lose` and `Kill` may come at any point. `Valid` is the body check of `LogUploadRequest`: `Fallback` are the calls decided by the last layer, whose source code 0 is not among the 1 to 4 that `LogItem` allows. Names that other modules have as well begin with `Queue` here, as `LogProofs` is about this module and `Partitions` at once.

### SmsCode

One phone number. `setup` is the provider (`pns`: the service aliyun_pns generates and verifies codes itself), whether Redis is in use, and whether the database is SQLite, where codes skip the in-process cache. `rate` is the key of the window of 60 seconds in Redis and in memory, with the moment shortly before its expiry told apart (`closing`) and a key without a time to live (`stuck`); `cached` and `table` are the two copies of a code, `cloud` the one the provider would pass; `send` and `check` are requests that wait for the provider. `serves`, `messages`, `lapses` and `misses` count what the properties compare.

A request to send is `Send` (the window, `Incr`, and the new code) or `SendTooSoon`; the provider's answer `Provide`; then `Persist`, `SendRefused` or `SendRaises`, an exception instead of an answer, which leaves the window taken unless the provider is aliyun_pns. Verification without aliyun_pns awaits nothing and is one step, `Verify`; with it, it is `BeginCheck`, `CloudChecks` or `CloudUnreachable`, then `InvalidateLocal` or `CheckLocal`. Any call of Redis may fail with or without having taken effect (`Miss`); the code then goes on with the memory. `Incr` is the pair SET NX and INCR: between the two the key may expire, and INCR then makes one that never does. `RateExpires` and `CodeExpires` are the passing of time, in any order with everything else, and `Restart` loses the memory and the requests.

### Session

`users` has the id and the session of the account of each number (session 0 is NULL), `lastId` the greatest id given, `issued` and `expired` the sessions by number: a later one is newer, and tokens below `expired` no longer decode. `token` is what each device keeps, `login` are login requests, `call` is one other request of each device. A token carries the id and the session it names, and, for the properties only, the number it was given to.

`setup` tells whether an id is given again once the last account is deleted (SQLite) and whether codes are verified by an external service (`awaits`). Then `login` is `BeginLogin`, which reads the account, and `FinishLogin` or `LoginFails`; any other login or registration is one step. `Issue` is `_issue`. `Verdict` is `get_current_user`; `Admit` applies it, and the only body that matters here, `DeleteAccount`, follows later, by id. `Expire` and `Restart` make tokens invalid; `Restart` may do so to all of them, as a start without `JWT_SECRET` draws a new one (`config.py:131`). On the device, `TakeToken` and `GiveUpLogin` end a login, `Send` builds a request with the token of that moment, `TakeAnswer` is `parse`, which removes whatever token there is by then, `LoseCall` loses request or answer, `Logout` is the button, of which the server knows nothing. `Init` has one account from the time before the column `session_id`, or none.

### Partitions

Months are integers, `month` is that of the clock. `parts` are the months with a partition; `p_init`, which takes the rest, is always there. `rows` have the month of the call, as the device says, and of the upload. `job` is the progress of each worker: `Start` or `Begin` (the clock is read), `Look` (the names that are missing), `Add` for each, which MySQL commits one by one and refuses (`AddFails`) out of order, `Added`, `LookOld`, `Drop` or `DropFails`, `Dropped`. `init_db` ends at `Added` and switches the server on (`up`). `ensured` and `swept` record what was completed. `Tick` lets one month pass while the server is on, once the nightly job has got through in the month before, and any number while it is off; `Stop` is a crash or a shutdown.

### Analysis

`logs` is the signature of the logs of each family, `recent` the rows of `analysis_jobs` of the last day, `remembered` the signatures in the cache, `active` the number of active rules with a pattern; `spent`, `raised` and `stored` record, for the properties, how many calls were made, how many left no row, and what was stored. A run (`job`) has families to come, and `Skip`s them or `Ask`s the service, of which `Fails`, `Raises` and `Succeeds` are the answers: a refusal, an answer of an unexpected form, which raises an exception, and rules. After the answer nothing is awaited, so that `Succeeds` is one step, but each of its three transactions may be the last before a `Crash`. The rules of an answer are any set of `Patterns`; `validate_rule` only makes it smaller. The cache may lose a signature at any time (`Expire`).

### Marks

One number and one family. `Call` logs a call, `Upload` takes the queue to the server, `MarkCall` sends a mark, `Lose` loses it and `Deliver` is `mark_call`: the latest row of the user is marked, by hours, of which several rows may be the latest, or a row is made that stands in for a call to come. `Aggregate` counts: `Enough` users, and the `Outcome` by shares of marks, in integers instead of floating point (0.8 and 0.3 of at most a few hundred marks come out the same). `voices` records how many marks of a user have arrived.

### CallTracker

`line` is the state of the line, `Screen`, `PickUp` and `HangUp` change it and broadcast it; the system sends a broadcast once or, without the number, `Copies` times. `jobs` are the broadcasts in the order they were sent; any of them may be picked up next. A handler has two moments, as its fields are shared with the others: `BeginRinging` and `EndRinging`, `BeginOther` and `EndAnswered` or `EndIdle`, or `Ignore`, the early return. `recent` and `short` are the rows of `behavior_log` of the last hour and those with a short ring, counted as far as layer 3 looks. `Screen` also launches the coroutine that writes a row of its own (`WriteRow`). `Kill` ends the process, which is also what happens if `onAnswered` finds the number gone on its second look. `HourPasses` ends the hour. `calls`, `smooth` and `owed` record, for the properties, the calls of the hour, whether handlers have run one by one and in order, and how many missed calls lack a row. A second call that waits during the first is left out.

## 4. The runs

| Run | Instance | Question and answer |
|---|---|---|
| `family_mysql` | 2 users, 2 families, 2 invitations, 2 requests in flight, snapshots; at most one user raced for or with unread notifications | A user comes into a second family, gets a second waiting invitation of one family, or one of his own family, only by a race of requests about himself. Races or not, only invited users are members, a membership ends only by the member or the creator, rows never dangle, a family is open exactly as long as its creator is in it, and a verdict on an old snapshot is still right about whose invitation, which family and whose rights. |
| `family_double_tap` | 1 user, 2 families, 2 requests | Violated: two create requests, both decided on the empty snapshot, leave a user in two families. |
| `rules` | 1 device, 1 family, a number and a prefix, versions up to 3 | The exchange implements `RuleDelivery`; a rule comes into force at a version above all before; no number is passed over, wherever the worker is cut off; a number rule that stays in force arrives once runs of the worker are not aborted any more. |
| `rules_switch` | 1 device, 2 families, a number and a prefix, versions up to 1, `DirectSwitch` | Violated: the device has the version of the old family, and a rule of the new one that is not above it is passed over. |
| `upload` | 3 calls, one of source 0, batches of 2, 2 interruptions after storing | The queue implements `LogDelivery`; the batch is the head of the queue whatever is appended; a log is stored twice only after an interruption; what is queued is stored in the end unless a row that the server refuses is queued. |
| `sms` | 2 codes, 1 failing call of Redis, 2 requests to send and 1 verification at a time, every provider, backend and database | Each place that keeps a code passes it at most once; each further message needs a window that has ended or a call that failed; as long as Redis answers, the code stored last is the one that is accepted; in memory, refused attempts do not push the end of a window away. |
| `sms_served_twice` | 1 code, no failing call | Violated: accepted from the cache, a code is accepted once more from the table. |
| `session` | 2 numbers, 2 devices, 1 login at a time, 2 sessions, MySQL with awaited codes and SQLite without | An account serves one device; a token opens no other account; a good token is removed only by the late answer to a request with another one; a device that was replaced is told, once answers get through. |
| `partitions` | 7 months, 3 of them kept, `init_db` and two more workers, clocks off by 2 months, 1 row | Months are split off in order; the present one and the next have partitions; exactly what is too old goes; the months ahead are made in the end. |
| `analysis` | 2 families, 1 signature each, 1 pattern, 2 runs, a limit of 2, 1 call without a row | The limit is exceeded by overlaps and calls without a row only; no pattern has two rules; nothing is skipped whose rules are not stored; a family that stays is analysed in the end, whatever becomes of the other. |
| `marks` | 2 users with 2 and 1 calls and as many marks, 2 hours, a window of 1 | A mark stands in for a call once; nobody has more marks than he made; rules need enough users, and their agreement if they are few; a mark does not go to an earlier call than its own. |
| `calls` | 2 numbers, 3 calls, 3 handlers at a time, broadcasts once or twice, thresholds 3 and 2 | In order, each missed call gets its row; in any order, layer 3 blocks no number with three calls in the hour whose rows are written. |

### Bounds

* Family: two families and two invitations are the least with which "the other family" and "another invitation" exist, two users those with which one acts on another, and a property is violated by at most two requests in flight, as each handler compares its reading with one concurrent change. `FewMarked` follows behaviours while at most one user has been raced for or has an unread notification: what a race leaves behind is followed for one user while the other is still held to the properties, and a notification need not arrive (`Notify`), so that no other state is lost. No run has `SnapshotReads = FALSE`: its bodies read and write one state, the behaviours of requests one at a time; the proofs cover both databases and show that larger numbers break nothing.
* RuleSync: versions up to 3 (`MaxVersion`) let a device be up to date, behind, and behind by more than one, while a number is published, discarded and published again. Devices do not see each other: a second one would only publish, which `MemberActs` does for any family without a device. A second family matters only for a direct change of family (`rules_switch`); otherwise a device leaves and joins the one there is. The proofs cover any number of all of them.
* UploadQueue: three calls with batches of two make a batch that is full, one that is not, and a call queued during an upload. `MaxLost` caps the interruptions after a commit; without it the number of stored rows has no bound. `DuplicatesOnlyAfterLoss` relates the two for every value of it.
* SmsCode: two codes (`MaxCodes`) are an old and a new one; a third would be to the second what the second is to the first. Two slots in `Sends` let a slow request outlive its window and meet the next; one in `Checks` lets an awaited verification meet sends and the expiry of codes. `MaxMisses` caps failing calls, and both invariants that count say what each failure may cost. `lapses` stops at `MaxCodes`, since no run has more messages than that.

* Session: two numbers are an account and the one that gets its id; two devices the old and the new one; two sessions (`MaxSessions`) the one that is taken over and the one that takes over. One slot for a login suffices for a login to meet deletions and the requests of the other device; the proofs take any number of slots.
* Partitions: the clock stops after seven months (`LastMonth`), enough for a month to be made, filled, outlived by an outage and dropped with `KeepMonths` 3 in place of 6. One row (`MaxRows`) at a time suffices, as rows do not see each other; `Skew` 2 makes calls dated before the last partition and after all of them.
* Analysis: two families, as one must not stop the other; one signature and one pattern, as they are only compared. `MaxRaised` 1 lets one call be lost without a row.
* Marks: the first user has two calls, so that a mark may meet the wrong one; `MaxHour` 1 with a window of 1 lets marks grow too old. `FewMustAgree` speaks of four marks at most; the instance has three, and the proof has any number.
* CallTracker: three calls (`MaxCalls`) reach `URGENT_MIN_COUNT`; three coroutines (`MaxJobs`) are two of one call and one of the next.

Deadlock is checked in every run.

### Fairness

`EventuallyDelivered` and the liveness properties of `UploadQueue` assume weak fairness of the worker's own steps only: both workers are periodic WorkManager jobs (`RuleSyncWorker.schedule`, `LogUploadWorker.schedule`), which the system runs again and again, coroutines that are started run, and the server answers. Nothing is assumed of users, of joining and leaving, of feedback. The hypothesis `Calm` of these properties (`QueueCalm` in `UploadQueue`) is that interruptions (`Abort`; `Lose`, `Kill`, `Kick`) stop at some time and, for uploads, that the user is logged in from some time on. Without it a network that drops every answer refutes any promise. `WindowsEndInMemory` assumes weak fairness of `RateExpires` alone: a key with a time to live expires. `Restart` needs none. In `Session`, the requests of a device are made and answered (`Send`, `Admit`, `DeleteAccount`, `TakeAnswer`): the two workers above send some again and again; `Calm` says that restarts and losses stop, not that nobody logs in or out. In `Partitions`, the server is started again when it has stopped (the container's restart policy) and its workers run on; that a worker gets through once in a month is a condition of `Tick`, which the nightly schedule justifies, and `Calm` says that the server stops being stopped. In `Analysis`, the scheduler starts its run every night, an awaited call ends by its timeout, and rows grow older; `Calm` is that there are no more crashes, that the logs of the family stay as they are, and that its calls get valid answers. Nothing is assumed in `Family`, `Marks` and `CallTracker`, which have safety only: a mark that is lost is lost for good, and so is a broadcast that goes down with the process.

## 5. The proofs

`FamilyProofs` proves about `Family`, for every set of users, families, invitations and request slots, from `FamilyAssumption` alone (the absent values are not members of the sets they are absent from, `SnapshotReads` is a Boolean):

| Theorem | Statement |
|---|---|
| `TypeCorrect` | `Spec => []TypeOK` |
| `NoRowDangles` | `Spec => []NoDanglingRows` |
| `CreatorKeepsFamily` | `Spec => []CreatorStays` |
| `OnlyInvitedJoin` | `Spec => []MembersWereInvited` |
| `OldReadingsServe` | `Spec => []VerdictsHold` |
| `MembershipEndsRightfully` | `Spec => OnlySelfOrCreatorEnds` |
| `OneFamilySafe` | `Spec => []OneFamilyUnlessRaced` |
| `OnePendingSafe` | `Spec => []OnePendingUnlessRaced` |
| `NoneForMembersSafe` | `Spec => []NoneForMemberUnlessRaced` |
| `OneFamilyWithCurrentReads` | `~SnapshotReads` implies `Spec => []OneFamilyEach` |

The inductive invariant is `IInv == TypeOK /\ NoDanglingRows /\ CreatorStays /\ MembersWereInvited /\ VerdictsHold`. None of the first four is inductive alone. A body writes on the strength of an old reading: an acceptance preserves `MembersWereInvited` only if the invitation it names is still one for that user and family, a removal preserves `CreatorStays` only if the acting user is still the creator and removes somebody else. `VerdictsHold` says just this, about every request in flight. It is preserved because of what no step takes back (`Persist`): the creator of a family is set once, an invitation keeps its family and phone, a deletion fails while rows refer to the account. Lemma `Persistence` proves this for each step, `GroundedKept` concludes that each verdict stays grounded, and `ReadingsGood` shows that a new reading is grounded. After these, there is one lemma for each action.

`MembershipEndsRightfully` is an action property; its step case follows from `IInv`, as only leaving, removal and deletion turn an active membership into another.

The last four theorems say when the checks of `create_family`, `invite_member` and `accept_invitation` suffice: always for a user no two requests race for, and with current reads for everybody, since a request in flight has decided nothing there (`Undecided`). `family_double_tap` shows that the race is real. The invariant adds to `IInv` the three properties together (`Exclusive`: `NoneForMember` needs `OnePending`, since an acceptance makes a member and uses up one invitation) and that what a request about such a user has read is still so for the rows its body relies on (`CurrentReads`). `ReadingsCurrent` shows this at the moment of reading, which for current reads is all (`CurrentNow`); for a snapshot, `CurrentKept` goes through the steps that may come between: one that would make the reading old competes with it, and then its user is raced for (`Uncontended`).

`RuleSyncProofs` proves about `RuleSync`, for every set of devices, families and patterns and every `MaxVersion`, from `RuleAssumption`:

| Theorem | Statement |
|---|---|
| `TypeCorrect` | `Spec => []TypeOK` |
| `VersionsOnlyGrow` | `Spec => VersionsGrow` |
| `NoNumberIsMissed` | `~DirectSwitch` implies `Spec => []NumbersDelivered` |
| `SyncImplementsDelivery` | `~DirectSwitch` implies `Spec => ImplementsDelivery` |

The first two need only `Basic`: types, patterns that suit their kinds, only inactive rules are discarded, and each family has a highest version (`Latest` is a `CHOOSE`, which says nothing unless there is one). Every operation of the server is an instance of `Grown`: each row it leaves was there before, or is an inactive successor of one, or is active at the next version; `VersionsGrow` follows at once.

`NumbersDelivered` is not inductive: saving a version must be right about rules that came while the answer was on its way. `IInv` adds that neither a device nor its worker is ahead of the family (`NotAhead`), that the device holds what it has passed (`Passed`), and that what the worker is about to pass is held or in its hand (`InHand`). A new rule is above `Latest`, hence above everything passed or about to be passed; `Answer` takes version and rules from one state; `AddNumber` moves an item from the hand to a list; `SaveVersion` comes with an empty hand. Each of these is a lemma (`...Keeps`). The hypothesis `~DirectSwitch` is used only by `JoinKeeps`: the family that is joined has no rule of version 0. The refinement is proved step by step: a server operation or a change of family is `Publish`, adding a number is `Receive`, saving is `Advance`, and the rest stutters.

The other proof modules follow the same pattern: `IInv`, `Init => IInv` and one lemma for each action, `Inductive`, and the theorems about the properties.

| Module | Theorems | Inductive invariant: `TypeOK` and |
|---|---|---|
| `SmsCodeProofs` | `TypeCorrect`, `WindowSafe`, `ServesSafe`, `NewestSafe` | `Slots`: requests are about codes that were generated. `Paid`: messages, and requests that the provider has yet to accept, are paid for by the window that is taken, those that have ended, and failed calls. For the last two theorems `CInv`: each code is stored once, by one request at most (`Once`); codes not yet stored are in no place (`Unstored`); while no call has failed, the cache has the newest code or none (`CacheRight`); each acceptance has `Spent` a place or a failed call. |
| `SessionProofs` | `TypeCorrect`, `OneDeviceSafe`, `NoImpersonationSafe`, `KickedSafe` | `Single`: a session is on one device or on its way there. `Sessions` and `Owners`: a token belongs to the number of the account it names, by the session or, if ids are not given again, by the id; `Waits` says so of a login that waits, `Counted` that ids only grow, `Older` that an account without a session has had none. `Kicked`: who was told to go has lost his session for good. |
| `LogProofs`, `Partitions` | `TypeCorrect`, `SplitsSafe`, `MonthsSafe`, `OldRowsSafe`, `YoungRowsSafe` | `Clock`: no run is more than a month behind. `Made`: what was ensured is there unless it is old. `Progress`: what a worker does not find missing any more is there. `NoGaps`: there are none among the months that a run wants to make, which is why a missing month comes after all others; `Overtaken` is the case of a run that has seen the end of a month. `Housed`: a row is in a partition that is not later than its upload. `Cutoff`: what a worker will drop is what is before its cutoff. And `OldRowsGo`. |
| `LogProofs`, `UploadQueue` | `QueueTypeCorrect`, `DuplicatesSafe`, `UploadImplementsDelivery` | `UnseenIsNew`: a call has no row on the server before its coroutine has run. `OwedToLoss`: a call that waits, other than in a batch that is stored, has at most one row on the server for each interruption; any call at most one more. Explained below. |
| `AnalysisProofs` | `TypeCorrect`, `LimitSafe`, `RulesOnce`, `NoneSkipped` | `Accounts`: calls that have ended left a row or were raised, and those recorded or under way are below the limit, except for one of each run. And the two properties that are inductive themselves. |
| `MarksProofs` | `TypeCorrect`, `StandsInSafe`, `VoicesSafe`, `RulesSafe`, `EarlierSafe`, `FewSafe` | `Keys`: user and call tell rows apart. `Hours`: the row of a call has its hour. `Known`: marks are of calls there have been. And `VoicesCounted` and `RulesAreEarned`, with the finiteness that their cardinalities need. The shares of `FewSafe` are arithmetic on the cardinalities of the marks. |
| `CallTrackerProofs` | `TypeCorrect`, `UrgentSafe`, `MissesSafe` | `Counted`: the rows of the hour, as far as they are counted, are at least the calls less the rows that are still to be written. For `MissesSafe` `InOrder`, explained below. |

Assumptions: each module's own, as stated there. `PartitionsAssumption` has `MonthsAhead >= 2` and `MonthsBack < KeepMonths`: with one month ahead, the next month would be without a partition at the turn of a month until the nightly job, and with more months back than are kept a run would drop what it has just made. The code has 2, 1 and 6.

`UploadQueue`. `DuplicatesOnlyAfterLoss` counts rows on the server, but `Receive` may add one only because the batch it stores has not been stored by this attempt: that is the second half of `OwedToLoss`, and `Forget` restores it by taking the stored rows away, `Lose` and `Kill` by raising `lost`. That `Forget` takes neither more nor less needs `QueueTypeOK`, where the batch is a set of rows of the queue below all others, and ids are not used again; it is preserved by `Take` because of what `LIMIT` and `ORDER BY` return (`OldestFew`, `OldestFirst`, by an injection of the oldest rows into `0..n - 1`). In the refinement, `Write` adds to what waits, `Receive` stores, `Forget` drops what is stored by then, and the rest stutters.

`CallTracker`. `EveryMissIsNoted` compares the rows with the calls only when nothing is left to handle, so its invariant has to say what the handlers that wait will still write. `AllOwed` does: the calls of a number that lack a row are as many as there are idle broadcasts that follow a ringing of that number directly, or come first while the tracker is at such a call (`Owing`). That is so because only the first handler has begun and nobody changes the number under it (`OneByOne`), and because the last broadcast, or, with none left, the tracker, agrees with the line (`Told`). Each handler drops the head of the sequence and shifts the others by one, so that the cardinality of `Owing` is carried over by a bijection, less the one row that `EndIdle` writes. There is no induction over the sequence.

`TypeOK` is proved rather than run, except for `UploadQueue`.

Only model-checked are the liveness properties, which are out of the reach of TLAPS: `EventuallyDelivered`, `UploadedUnlessRefused`, `WindowsEndInMemory`, `KickedInTheEnd`, `AheadInTheEnd` and `AnalysedInTheEnd`. Every other property of a run without a violation is proved, some under a hypothesis that the run has as well (`~DirectSwitch`).

## 6. Where the code differs from what it says

Three have a run that shows them:

* `family_double_tap`: `family.py:59` says that each user belongs to one family only. Two requests of a user may both decide on the snapshots of their dependencies before either has written, and no key forbids the second row. `OneFamilyUnlessRaced` says what holds instead.
* `rules_switch`: `rules.py:36` says that the app gets what is newer than its version; after a direct change of family the first request still names the old family's version, and rules of the new one that are not above it are left out of the answer. The worker then saves the new family's version (`RuleSyncWorker.kt:58`), so that rules published later arrive and the others do not unless they are published again.
* `sms_served_twice`: `sms_service.py:502` says that a code which matches becomes invalid at once, so that it is not accepted again (482 has the same aim). `_verify_local` deletes the key of the cache and leaves the row of `sms_codes`, which the next verification accepts. `OnceFromEachPlace` says what holds instead; where the table is the only place (SQLite without Redis, another provider than aliyun_pns) it is the promise.

Others were seen while modelling and need no run; the modules have their steps as the code has them, and the properties are stated so that they hold with them.

Groups and rules:

* `family.py:109` says that invitations that could not take effect are stopped; one to a former member is not, and the primary key refuses its acceptance for ever (`family.py:173`).
* `leave_family` of the creator closes the family and leaves the other members in it (`family.py:386`).
* `reject_invitation` overwrites an accepted invitation (`family.py:270`).
* `delete_account` fails for everybody who has founded a family or sent an invitation (`auth.py:183`, `194`).
* The incremental answer replaces the whole graylist, so that prefixes of earlier versions are dropped (`RuleSyncWorker.kt:38`).
* Feedback "let through" leaves a blacklist rule in force, since the opposite of both kinds is taken to be type 4 (`rule_service.py:186`).
* A rule of the aggregation that is discarded in review is made again the next night, as only active rules are looked at (`rule_service.py:112`).
* `scheduler.py:89` says that the aggregation runs before the analysis; it runs after it.

Accounts and codes:

* `auth.py:60` says that a login makes the tokens of other devices void; tokens without a session, from before the column, stay valid, as `deps.py:40` wants it.
* After a Redis write has failed, the cache answers with the code before, and the row in the table does not help, as `sms_service.py:458` says it would (`cache.py:136`).
* With Redis, a rate key that expires between SET NX and INCR comes back without a time to live and blocks the number for good (`cache.py:145`).
* An exception of a provider other than aliyun_pns leaves the window taken (`sms_service.py:441`).
* A request that is refused after its window has ended deletes the key of a later window (`sms_service.py:451`), and a message more may follow within that. `OneMessagePerWindow` counts it against the window that had ended; it bounds the messages in all, not those within any 60 seconds.

Logs, analysis and calls:

* `Constants.kt:48` says that decision sources agree with the server's; source 0 is refused (`schemas.py:117`), and the batch with it, again and again (`LogUploadWorker.kt:59`).
* The limit of calls and the comparison of signatures that `deepseek_service.py:8` and `9` promise are exceeded by runs that overlap and by answers that raise an exception.
* `deepseek_service.py:237` says that all failures are recorded; an exception leaves no row.
* The signature has neither numbers nor hours (`deepseek_service.py:213`), so that other calls with the same actions, sources, ring times and marks are taken for the same; `Analysis` takes signatures as given.
* `_persist_rules` speaks of rules of low confidence that go to review (`deepseek_service.py:316`); `validate_rule` drops them before.
* `DecisionEngine.kt:195` speaks of calls that the other side ended after a short ring; quick answers count as well (`DecisionEngine.kt:208`).
* `DecisionEngine.kt:196` speaks of three calls within the hour. Layer 3 counts rows, and screening and the tracker write one each for a call that was let through (`CallScreenService.kt:63`, `CallStateReceiver.kt:102`), so that two calls are enough for the next one to pass (`DecisionEngine.kt:200`). `UrgentCallsPass` says that three calls are.
* A broadcast of off-hook that comes twice writes two rows, and `onAnswered` reads the number a second time, when it may be gone (`CallStateReceiver.kt:91`).

## 7. What is not modelled

* Expiry of rules: `get_incremental_rules` tests `expires_at`, which no code sets.
* Numbers that a user puts on his lists himself: they add to the lists and are never removed by synchronisation.
* Withdrawal of a discarded rule from a device: there is none in the code.
* Endpoints that only list; the external push services; wording of messages; views.
* Two server processes: the deployment starts one. With two, the version counter of `rule_service.py` would need what `Family` has, requests of two moments.
* Threads of the dependencies beyond the moment at which their snapshot is taken.
* The iOS client: no synchronisation and no queue; decisions are functions of lists, and the call directory sorts its entries in one go.
* The risk query: an HTTP call and a cache of its answers that nothing else touches.
* The other layers of `DecisionEngine`: `CallTracker` takes any verdict of theirs. Its cache of contacts: a look-up that overlaps a refresh may leave an old answer in it until the next one.
* Call waiting in `CallTracker`: a second call rings while the first goes on, for which the tracker has one set of fields only.
* The failures of an upload in `Marks`: they are in `UploadQueue`, which shows that a log may be stored twice; marks then meet one of the two rows.
* The branch of `ensure_partitions` for a table without an unbounded partition: the migration makes one, and none of the code removes it.
* The account of a queued log: the queue has none, so that logs are uploaded for whoever is logged in; `UploadQueue` has one account.

---------------------------- MODULE UploadQueue -----------------------------
(***************************************************************************)
(* The way of an intercept log from a screened call to the server: the     *)
(* asynchronous write of engine/CallScreenService.kt, the queue of         *)
(* data/RuleDatabase.kt, worker/LogUploadWorker.kt, the answer handling of *)
(* net/ApiClient.kt and upload_logs of server/app/api/logs.py with the     *)
(* validation of its request body.  Names that every component has carry   *)
(* the prefix of this one: LogProofs extends Partitions as well.           *)
(***************************************************************************)
EXTENDS Naturals, FiniteSets

CONSTANTS
    Calls,          \* calls screened on this device, each at most once
    Fallback,       \* those decided by the last layer, with source code 0
    BatchSize,      \* BATCH_SIZE
    MaxLost         \* bound: interruptions between storing and forgetting

ASSUME UploadAssumption ==
    /\ Fallback \subseteq Calls
    /\ BatchSize \in Nat \ {0}
    /\ MaxLost \in Nat

VARIABLES
    screened,   \* calls that have been answered
    writing,    \* calls whose coroutine has not written to the queue yet
    queue,      \* rows of the table upload_queue
    lastId,     \* the greatest id the table ever had (AUTOINCREMENT)
    worker,     \* the LogUploadWorker and its request
    loggedIn,   \* the app holds a token
    kicked,     \* the account is in use on another device
    stored,     \* rows of intercept_logs, per call
    lost        \* interruptions after the server had stored a batch

queueVars == <<screened, writing, queue, lastId, worker, loggedIn, kicked, stored, lost>>
table == <<queue, lastId>>

\* "sent": the server has not seen the request; the others name its answer.
Phase == {"idle", "sent", "ok", "refused", "kicked"}
NoWork == [phase |-> "idle", batch |-> {}]

\* LogItem.decision_source of schemas.py is one of 1, 2, 3, 4; the request is
\* refused as a whole when one of its items is not valid.
Valid(rows) == \A r \in rows : r.call \notin Fallback

CallsOf(rows) == {r.call : r \in rows}

-----------------------------------------------------------------------------
(* The device.                                                             *)

\* onScreenCall answers the system, then starts the coroutine.
Screen(c) ==
    /\ c \notin screened
    /\ screened' = screened \cup {c}
    /\ writing' = writing \cup {c}
    /\ UNCHANGED <<table, worker, loggedIn, kicked, stored, lost>>

\* Slip: the write is run once more.
Write_Again(c) ==
    /\ c \in writing
    /\ lastId' = lastId + 1
    /\ queue' = queue \cup {[id |-> lastId', call |-> c]}
    /\ UNCHANGED <<screened, writing, worker, loggedIn, kicked, stored, lost>>

\* The coroutine; those of several calls run in any order.
Write(c) ==
    /\ c \in writing
    /\ writing' = writing \ {c}
    /\ lastId' = lastId + 1
    /\ queue' = queue \cup {[id |-> lastId', call |-> c]}
    /\ UNCHANGED <<screened, worker, loggedIn, kicked, stored, lost>>

\* The n rows with the smallest ids.
Oldest(rows, n) == {r \in rows : Cardinality({q \in rows : q.id < r.id}) < n}

Take ==
    /\ worker = NoWork
    /\ loggedIn
    /\ queue # {}
    /\ worker' = [phase |-> "sent", batch |-> Oldest(queue, BatchSize)]
    /\ UNCHANGED <<screened, writing, table, loggedIn, kicked, stored, lost>>

\* Slip: only the first row of the batch is removed.
Forget_First ==
    /\ worker.phase = "ok"
    /\ queue' = queue \ Oldest(worker.batch, 1)
    /\ worker' = NoWork
    /\ UNCHANGED <<screened, writing, lastId, loggedIn, kicked, stored, lost>>

\* Slip: the table is emptied.
Forget_All ==
    /\ worker.phase = "ok"
    /\ queue' = {}
    /\ worker' = NoWork
    /\ UNCHANGED <<screened, writing, lastId, loggedIn, kicked, stored, lost>>

\* deleteUploaded, by the ids of the batch.
Forget ==
    /\ worker.phase = "ok"
    /\ queue' = {r \in queue : \A b \in worker.batch : r.id # b.id}
    /\ worker' = NoWork
    /\ UNCHANGED <<screened, writing, lastId, loggedIn, kicked, stored, lost>>

\* Slip: a refused batch is taken for uploaded.
GiveUp_Drop ==
    /\ worker.phase = "refused"
    /\ queue' = {r \in queue : \A b \in worker.batch : r.id # b.id}
    /\ worker' = NoWork
    /\ UNCHANGED <<screened, writing, lastId, loggedIn, kicked, stored, lost>>

\* An ApiException: the work counts as done, the batch stays.
GiveUp ==
    /\ worker.phase = "refused"
    /\ worker' = NoWork
    /\ UNCHANGED <<screened, writing, table, loggedIn, kicked, stored, lost>>

\* 401 with X-Kicked: the token is removed, the batch stays.
Logout ==
    /\ worker.phase = "kicked"
    /\ worker' = NoWork
    /\ loggedIn' = FALSE
    /\ UNCHANGED <<screened, writing, table, kicked, stored, lost>>

\* An IOException, or a failure of the server before it commits: the request or
\* the answer is lost and the worker is to be run again.
Lose ==
    /\ worker # NoWork
    /\ worker.phase = "ok" => lost < MaxLost
    /\ lost' = IF worker.phase = "ok" THEN lost + 1 ELSE lost
    /\ worker' = NoWork
    /\ UNCHANGED <<screened, writing, table, loggedIn, kicked, stored>>

\* The process of the app is killed, with everything that is not in a table.
Kill ==
    /\ worker.phase = "ok" => lost < MaxLost
    /\ lost' = IF worker.phase = "ok" THEN lost + 1 ELSE lost
    /\ worker' = NoWork
    /\ writing' = {}
    /\ UNCHANGED <<screened, table, loggedIn, kicked, stored>>

Login ==
    /\ ~ loggedIn \/ kicked
    /\ loggedIn' = TRUE
    /\ kicked' = FALSE
    /\ UNCHANGED <<screened, writing, table, worker, stored, lost>>

-----------------------------------------------------------------------------
(* The server.                                                             *)

\* The account logs in on another device.
Kick ==
    /\ loggedIn /\ ~ kicked
    /\ kicked' = TRUE
    /\ UNCHANGED <<screened, writing, table, worker, loggedIn, stored, lost>>

\* get_current_user, then the validation of the body, then one transaction that
\* inserts a row for every item.
Receive ==
    /\ worker.phase = "sent"
    /\ worker' = [worker EXCEPT !.phase = IF kicked THEN "kicked"
                                          ELSE IF Valid(worker.batch) THEN "ok" ELSE "refused"]
    /\ stored' = IF worker'.phase = "ok"
                 THEN [c \in Calls |-> IF c \in CallsOf(worker.batch)
                                       THEN stored[c] + 1 ELSE stored[c]]
                 ELSE stored
    /\ UNCHANGED <<screened, writing, table, loggedIn, kicked, lost>>

-----------------------------------------------------------------------------
QueueInit ==
    /\ screened = {}
    /\ writing = {}
    /\ queue = {}
    /\ lastId = 0
    /\ worker = NoWork
    /\ loggedIn = FALSE
    /\ kicked = FALSE
    /\ stored = [c \in Calls |-> 0]
    /\ lost = 0

QueueNext ==
    \/ \E c \in Calls : Screen(c) \/ Write(c)
    \/ Take \/ Receive \/ Forget \/ GiveUp \/ Logout
    \/ Lose \/ Kill \/ Login \/ Kick

QueueSpec == QueueInit /\ [][QueueNext]_queueVars

\* Coroutines run; the worker is periodic work, and the server answers.
QueueFairSpec ==
    /\ QueueSpec
    /\ \A c \in Calls : WF_queueVars(Write(c))
    /\ WF_queueVars(Take) /\ WF_queueVars(Receive)
    /\ WF_queueVars(Forget) /\ WF_queueVars(GiveUp) /\ WF_queueVars(Logout)

-----------------------------------------------------------------------------
(* Correctness.                                                            *)

\* Types; ids are never used again; a call is in at most one row of the queue and
\* not there before its coroutine has run; the worker's batch is the head of the
\* queue, whatever is added meanwhile, and was stored when the server says so.
QueueTypeOK ==
    /\ screened \in SUBSET Calls
    /\ writing \in SUBSET screened
    /\ lastId \in Nat
    /\ queue \in SUBSET [id : 1..lastId, call : screened \ writing]
    /\ \A r, q \in queue : r.id = q.id \/ r.call = q.call => r = q
    /\ worker \in [phase : Phase, batch : SUBSET queue]
    /\ worker.phase = "idle" => worker = NoWork
    /\ \A r \in worker.batch, q \in queue \ worker.batch : r.id < q.id
    /\ Cardinality(worker.batch) <= BatchSize
    /\ worker.phase = "ok" => \A r \in worker.batch : stored[r.call] > 0
    /\ loggedIn \in BOOLEAN
    /\ kicked \in BOOLEAN
    /\ stored \in [Calls -> Nat]
    /\ lost \in 0..MaxLost

Delivery == INSTANCE LogDelivery WITH waiting <- CallsOf(queue)

\* LogUploadWorker.kt:25: a log leaves the queue of the device only when it is
\* uploaded, whatever is lost, refused, killed or kicked on the way.
ImplementsDelivery == Delivery!Spec

\* The server has no key that recognises a log.  It gets one twice only when the
\* device was interrupted between the commit and the removal of the batch, and
\* not more often than that.
DuplicatesOnlyAfterLoss == \A c \in Calls : stored[c] <= 1 + lost

\* What is queued gets stored, once the user stays logged in on this device and
\* the network and the process hold, as long as no call of the fallback layer is
\* in the queue, whose batch the server refuses.
\* (To lose a refusal comes to the same as GiveUp, and is no interruption.)
QueueCalm == /\ <>[][Lose \/ Kill \/ Kick => GiveUp]_queueVars
             /\ <>[]loggedIn
UploadedUnlessRefused ==
    QueueCalm => \A c \in Calls : c \in CallsOf(queue) ~> (stored[c] > 0 \/ ~ Valid(queue))
=============================================================================

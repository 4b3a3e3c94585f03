----------------------------- MODULE Partitions -----------------------------
(***************************************************************************)
(* The monthly partitions of the table intercept_logs (MySQL): made ahead  *)
(* and dropped when they are old, by init_db before the server starts, by  *)
(* a nightly job on a thread of its own (scheduler.py) and by an endpoint  *)
(* of the administrator (admin.py), which may overlap                      *)
(* (server/app/database.py).                                               *)
(*                                                                         *)
(* Months are integers.  The migration makes the table with one partition  *)
(* without an upper bound (p_init), which every other one is split off     *)
(* from.                                                                   *)
(***************************************************************************)
EXTENDS Integers, FiniteSets

CONSTANTS
    StartUp,        \* the work of init_db
    Workers,        \* threads and requests that maintain partitions, StartUp included
    MonthsBack,     \* 1 in the code
    MonthsAhead,    \* 2
    KeepMonths,     \* 6
    LastMonth,      \* bound: the clock stops here
    Skew,           \* bound: months that the clock of a device may be off
    MaxRows         \* bound: rows at a time

ASSUME PartitionsAssumption ==
    /\ StartUp \in Workers
    /\ MonthsBack \in Nat /\ MonthsAhead \in Nat /\ KeepMonths \in Nat
    /\ MonthsAhead >= 2 /\ MonthsBack < KeepMonths
    /\ LastMonth \in Nat /\ Skew \in Nat /\ MaxRows \in Nat

VARIABLES
    month,      \* the month of datetime.now()
    up,         \* the scheduler runs and requests are served
    parts,      \* months that have a partition
    rows,       \* rows: the month of the call, as the device says, and of the upload
    job,        \* the progress of each worker
    ensured,    \* the last month for which all partitions were made
    swept       \* calls of earlier months have been dropped

vars == <<month, up, parts, rows, job, ensured, swept>>

Idle == [phase |-> "idle", now |-> 0, todo |-> {}]
Job == [phase : {"idle", "ensure", "add", "cut", "drop"}, now : Int, todo : SUBSET Int]
Busy == {j \in Workers : job[j].phase # "idle"}

\* InnoDB puts a row into the first partition that ends after its call; the one
\* without a bound takes the rest.
InPartition(r, p) == p \in parts /\ r.call <= p /\ \A q \in parts : r.call <= q => p <= q

Later(m, n) == IF m < n THEN n ELSE m

-----------------------------------------------------------------------------
(* The maintenance.                                                        *)

\* init_db, before anything else runs.
Start ==
    /\ ~ up /\ Busy = {}
    /\ job' = [job EXCEPT ![StartUp] = [phase |-> "ensure", now |-> month, todo |-> {}]]
    /\ UNCHANGED <<month, up, parts, rows, ensured, swept>>

\* _maintain_partitions or the endpoint; now is read, before the list of partitions.
Begin(j) ==
    /\ up /\ j # StartUp /\ job[j] = Idle
    /\ job' = [job EXCEPT ![j] = [phase |-> "ensure", now |-> month, todo |-> {}]]
    /\ UNCHANGED <<month, up, parts, rows, ensured, swept>>

\* Slip: the months to come are left to the next run.
Targets_Past(now) == now - MonthsBack .. now

\* Slip: months that have no partition are made up for.
Targets_All(now) == 0 .. now + MonthsAhead

Targets(now) == now - MonthsBack .. now + MonthsAhead

\* The partitions that are missing, by name.
Look(j) ==
    /\ job[j].phase = "ensure"
    /\ job' = [job EXCEPT ![j].phase = "add", ![j].todo = Targets(job[j].now) \ parts]
    /\ UNCHANGED <<month, up, parts, rows, ensured, swept>>

\* REORGANIZE PARTITION: a partition must be new and end after all others (errors
\* 1517 and 1493).
Splits(p) == \A q \in parts : q < p

\* Slip: the latest month is made first.
NextMonth_Last(p, months) == \A q \in months : q <= p

\* Months are made in their order.
NextMonth(p, months) == \A q \in months : p <= q

\* Each statement commits on its own.
Add(j) ==
    /\ job[j].phase = "add"
    /\ \E p \in job[j].todo :
          /\ NextMonth(p, job[j].todo) /\ Splits(p)
          /\ parts' = parts \cup {p}
          /\ job' = [job EXCEPT ![j].todo = @ \ {p}]
    /\ UNCHANGED <<month, up, rows, ensured, swept>>

\* The statement is refused, and the run ends with an exception; the server does
\* not start if this is init_db.
AddFails(j) ==
    /\ job[j].phase = "add"
    /\ \E p \in job[j].todo : NextMonth(p, job[j].todo) /\ ~ Splits(p)
    /\ job' = [job EXCEPT ![j] = Idle]
    /\ UNCHANGED <<month, up, parts, rows, ensured, swept>>

\* All months have their partitions.  init_db ends here; drop_old_partitions reads
\* the clock again.
Added(j) ==
    /\ job[j].phase = "add" /\ job[j].todo = {}
    /\ ensured' = Later(ensured, job[j].now)
    /\ up' = TRUE
    /\ job' = [job EXCEPT ![j] =
          IF j = StartUp THEN Idle ELSE [phase |-> "cut", now |-> month, todo |-> {}]]
    /\ UNCHANGED <<month, parts, rows, swept>>

\* Slip: the month of the cutoff goes as well.
Old_OneMore(now) == {p \in parts : p <= now - KeepMonths}

\* Slip: the partition before the cutoff is taken to hold part of a month.
Old_OneLess(now) == {p \in parts : p < now - KeepMonths - 1}

Old(now) == {p \in parts : p < now - KeepMonths}

LookOld(j) ==
    /\ job[j].phase = "cut"
    /\ job' = [job EXCEPT ![j].phase = "drop", ![j].todo = Old(job[j].now)]
    /\ UNCHANGED <<month, up, parts, rows, ensured, swept>>

\* The order is that of the dictionary of the database.
Drop(j) ==
    \E p \in job[j].todo :
        /\ job[j].phase = "drop"
        /\ p \in parts
        /\ parts' = parts \ {p}
        /\ rows' = {r \in rows : ~ InPartition(r, p)}
        /\ job' = [job EXCEPT ![j].todo = @ \ {p}]
        /\ UNCHANGED <<month, up, ensured, swept>>

\* The partition is gone (error 1507).
DropFails(j) ==
    /\ job[j].phase = "drop"
    /\ job[j].todo \ parts # {}
    /\ job' = [job EXCEPT ![j] = Idle]
    /\ UNCHANGED <<month, up, parts, rows, ensured, swept>>

Dropped(j) ==
    /\ job[j].phase = "drop" /\ job[j].todo = {}
    /\ swept' = Later(swept, job[j].now - KeepMonths)
    /\ job' = [job EXCEPT ![j] = Idle]
    /\ UNCHANGED <<month, up, parts, rows, ensured>>

-----------------------------------------------------------------------------
(* The rest.                                                               *)

\* upload_logs; the time is that of the device, which may be off.
Upload(call) ==
    /\ up
    /\ call \in month - Skew .. month + Skew
    /\ Cardinality(rows) < MaxRows
    /\ rows' = rows \cup {[call |-> call, stored |-> month]}
    /\ UNCHANGED <<month, up, parts, job, ensured, swept>>

\* While the server is off, any number of months may pass.  While it is on, the
\* nightly job gets through once in each month, and no run lasts for a month.
Tick(n) ==
    /\ month + n <= LastMonth
    /\ up \/ Busy # {} => n = 1
    /\ up => ensured >= month
    /\ \A j \in Busy : job[j].now = month
    /\ month' = month + n
    /\ UNCHANGED <<up, parts, rows, job, ensured, swept>>

Stop ==
    /\ up' = FALSE
    /\ job' = [j \in Workers |-> Idle]
    /\ UNCHANGED <<month, parts, rows, ensured, swept>>

Init ==
    /\ month = 0
    /\ up = FALSE
    /\ parts = {}
    /\ rows = {}
    /\ job = [j \in Workers |-> Idle]
    /\ ensured = -1
    /\ swept = -KeepMonths

Maintain(j) ==
    \/ Begin(j) \/ Look(j) \/ Add(j) \/ AddFails(j) \/ Added(j)
    \/ LookOld(j) \/ Drop(j) \/ DropFails(j) \/ Dropped(j)

Next ==
    \/ \E j \in Workers : Maintain(j)
    \/ Start
    \/ \E call \in -Skew .. LastMonth + Skew : Upload(call)
    \/ \E n \in 1..LastMonth : Tick(n)
    \/ Stop

Spec == Init /\ [][Next]_vars

\* The server is started again, and its workers run on.
FairSpec == Spec /\ WF_vars(Start) /\ \A j \in Workers : WF_vars(Maintain(j))

-----------------------------------------------------------------------------
(* Correctness.                                                            *)

\* Types; what a worker still has to make or to drop is among its targets.
TypeOK ==
    /\ month \in 0..LastMonth
    /\ up \in BOOLEAN
    /\ parts \in SUBSET Int
    /\ rows \subseteq [call : Int, stored : 0..month]
    /\ job \in [Workers -> Job]
    /\ ensured \in Int /\ swept \in Int
    /\ \A j \in Workers :
          /\ job[j].phase \in {"idle", "ensure", "cut"} => job[j].todo = {}
          /\ job[j].phase = "add" => job[j].todo \subseteq Targets(job[j].now)
    /\ up => Busy \subseteq Workers \ {StartUp}
    /\ ~ up => Busy \subseteq {StartUp}

\* Repeating and overlapping runs are safe (database.py:163): what a worker is
\* about to split off either is already there, made by another one, or comes after
\* all there are.  MySQL never refuses a month for its order.
SplitsInOrder ==
    \A j \in Workers :
        job[j].phase = "add" => \A p \in job[j].todo : p \in parts \/ Splits(p)

\* While the server is on, this month and the next have partitions of their own:
\* no row of theirs falls to the one without a bound.
MonthHasPartition == up => {month, month + 1} \subseteq parts

\* A row goes only when its call is more than KeepMonths months old
\* (scheduler.py:47).
YoungRowsStay == [][\A r \in rows \ rows' : r.call < month - KeepMonths]_vars

\* Old partitions are really the places of old rows: when a run has dropped all
\* that were too old, nothing is left of what was uploaded before that and is not
\* dated later than it was uploaded.
OldRowsGo == \A r \in rows : r.call <= r.stored => r.stored >= swept

\* If the server is no longer stopped, the months ahead have their partitions in
\* the end, although overlapping runs may fail.
Calm == <>[][~ Stop]_vars
AheadInTheEnd == Calm => []<>(month .. month + MonthsAhead \subseteq parts)
=============================================================================

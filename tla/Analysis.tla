------------------------------ MODULE Analysis ------------------------------
(***************************************************************************)
(* The offline analysis of call logs (server/app/services/                 *)
(* deepseek_service.py): run each night for all families (scheduler.py)    *)
(* and on demand for one or all (api/admin.py).                            *)
(*                                                                         *)
(* A run checks the limit of calls and the signature of the logs, awaits   *)
(* an external service, and then stores its rules, remembers the signature *)
(* and records the call, each in a transaction of its own.  Runs overlap;  *)
(* between checks and effects of one there may be any number of others.    *)
(***************************************************************************)
EXTENDS Naturals, FiniteSets

CONSTANTS
    Families,
    Sigs,           \* the signatures that the logs of each family may have
    Patterns,       \* patterns of rules
    Cron,           \* the scheduled run: APScheduler never starts a second one
    Jobs,           \* runs that may be under way, Cron included
    Limit,          \* ANALYSIS_DAILY_LIMIT_PER_FAMILY
    NoLogs,         \* there was no call for a day
    NoFamily,
    MaxRaised       \* bound: calls in a day that end in an exception or a crash

ASSUME AnalysisAssumption ==
    /\ Cron \in Jobs /\ IsFiniteSet(Jobs)
    /\ \A f \in Families : NoLogs \notin Sigs[f]
    /\ NoFamily \notin Families
    /\ Limit \in Nat \ {0} /\ MaxRaised \in Nat

VARIABLES
    logs,           \* the signature of a family's logs of the last day
    recent,         \* rows of analysis_jobs of the last day, for each family
    raised,         \* calls of the last day that left no row
    spent,          \* calls of the last day that have ended
    remembered,     \* signatures in the cache
    stored,         \* signatures whose rules have been stored, ever
    active,         \* the number of active rules with a pattern, for each family
    job             \* runs

vars == <<logs, recent, raised, spent, remembered, stored, active, job>>

\* A run has families to come, and may be waiting for the analysis of one.
Idle == [family |-> NoFamily, sig |-> NoLogs, todo |-> {}]
AllSigs == UNION {Sigs[f] : f \in Families}
Job == [family : Families \cup {NoFamily}, sig : AllSigs \cup {NoLogs}, todo : SUBSET Families]
Waiting(f) == {j \in Jobs : job[j].family = f}

-----------------------------------------------------------------------------
(* A run.                                                                  *)

\* The scheduled run, and that of the administrator for all: analyze_all_families
\* lists the families; their order is that of the database.
StartAll(j) ==
    /\ job[j] = Idle
    /\ job' = [job EXCEPT ![j].todo = Families]
    /\ UNCHANGED <<logs, recent, raised, spent, remembered, stored, active>>

\* The administrator's run for one family.
StartOne(j, f) ==
    /\ j # Cron /\ job[j] = Idle
    /\ job' = [job EXCEPT ![j].todo = {f}]
    /\ UNCHANGED <<logs, recent, raised, spent, remembered, stored, active>>

\* The checks of analyze_family, and its early returns.
Due(f) == recent[f] < Limit /\ logs[f] # NoLogs /\ <<f, logs[f]>> \notin remembered

Skip(j, f) ==
    /\ f \in job[j].todo /\ job[j].family = NoFamily
    /\ ~ Due(f)
    /\ job' = [job EXCEPT ![j].todo = @ \ {f}]
    /\ UNCHANGED <<logs, recent, raised, spent, remembered, stored, active>>

\* The service is called; whatever happens meanwhile, the run goes on with the
\* signature of these logs.
Ask(j, f) ==
    /\ f \in job[j].todo /\ job[j].family = NoFamily
    /\ Due(f)
    /\ job' = [job EXCEPT ![j] = [family |-> f, sig |-> logs[f], todo |-> @.todo \ {f}]]
    /\ UNCHANGED <<logs, recent, raised, spent, remembered, stored, active>>

\* A call has come to its end, and the run goes on to the next family.
Ended(j) ==
    /\ job' = [job EXCEPT ![j].family = NoFamily, ![j].sig = NoLogs]
    /\ spent' = [spent EXCEPT ![job[j].family] = @ + 1]

\* Slip: a row is written for successes only.
Record_Success(f, ok) == recent' = [recent EXCEPT ![f] = IF ok THEN @ + 1 ELSE @]

\* The row of analysis_jobs, of status success or failed.
Record(f, ok) == recent' = [recent EXCEPT ![f] = @ + 1]

\* call_deepseek gives no parsed answer.
Fails(j) ==
    /\ job[j].family # NoFamily
    /\ Ended(j)
    /\ Record(job[j].family, FALSE)
    /\ UNCHANGED <<logs, raised, remembered, stored, active>>

\* Slip: the exception ends the run for all families.
Raises_All(j) ==
    /\ job[j].family # NoFamily
    /\ raised[job[j].family] < MaxRaised
    /\ job' = [job EXCEPT ![j] = Idle]
    /\ spent' = [spent EXCEPT ![job[j].family] = @ + 1]
    /\ raised' = [raised EXCEPT ![job[j].family] = @ + 1]
    /\ UNCHANGED <<logs, recent, remembered, stored, active>>

\* The answer is JSON and not as asked for (a list, or a confidence that is no
\* number): an exception, caught by analyze_all_families; the transaction of the
\* rules is rolled back and no row is written.
Raises(j) ==
    /\ job[j].family # NoFamily
    /\ raised[job[j].family] < MaxRaised
    /\ Ended(j)
    /\ raised' = [raised EXCEPT ![job[j].family] = @ + 1]
    /\ UNCHANGED <<logs, recent, remembered, stored, active>>

\* Slip: patterns are not compared.
WithRule_Always(n) == n + 1

\* _persist_rules: a pattern that has an active rule gets no second one.
WithRule(n) == IF n = 0 THEN 1 ELSE n

\* Any rules that validate_rule lets through.
Persist(j) ==
    /\ \E answer \in SUBSET Patterns :
          active' = [active EXCEPT ![job[j].family] =
              [p \in Patterns |-> IF p \in answer THEN WithRule(@[p]) ELSE @[p]]]
    /\ stored' = stored \cup {<<job[j].family, job[j].sig>>}

\* Slip: the logs are read again for the signature.
Key_Now(j) == <<job[j].family, logs[job[j].family]>>

\* dedup_key: the signature of the logs that were sent.
Key(j) == <<job[j].family, job[j].sig>>

\* A valid answer.  Nothing is awaited from here on, so that no other run comes in
\* between.
Succeeds(j) ==
    /\ job[j].family # NoFamily
    /\ Persist(j)
    /\ remembered' = remembered \cup {Key(j)}
    /\ Record(job[j].family, TRUE)
    /\ Ended(j)
    /\ UNCHANGED <<logs, raised>>

-----------------------------------------------------------------------------
(* The rest.                                                               *)

\* The server stops, perhaps after a run has stored its rules, or remembered their
\* signature too.
Stops ==
    /\ job' = [j \in Jobs |-> Idle]
    /\ LET calls == [f \in Families |-> Cardinality(Waiting(f))] IN
       /\ \A f \in Families : raised[f] + calls[f] <= MaxRaised
       /\ raised' = [f \in Families |-> raised[f] + calls[f]]
       /\ spent' = [f \in Families |-> spent[f] + calls[f]]
    /\ UNCHANGED <<logs, recent>>

Crash ==
    /\ Stops
    /\ \/ UNCHANGED <<remembered, stored, active>>
       \/ \E j \in Jobs :
             /\ job[j].family # NoFamily
             /\ Persist(j)
             /\ remembered' \in {remembered, remembered \cup {Key(j)}}

\* Seven days are over, or the cache was in memory and the server has been started
\* anew, or Redis has lost it or not taken it.
Expire(k) ==
    /\ k \in remembered
    /\ remembered' = remembered \ {k}
    /\ UNCHANGED <<logs, recent, raised, spent, stored, active, job>>

\* A row is older than a day, and so is the call it stands for.
Age(f) ==
    /\ recent[f] > 0
    /\ recent' = [recent EXCEPT ![f] = @ - 1]
    /\ spent' = [spent EXCEPT ![f] = @ - 1]
    /\ UNCHANGED <<logs, raised, remembered, stored, active, job>>

\* So is a call without a row.
AgeRaised(f) ==
    /\ raised[f] > 0
    /\ raised' = [raised EXCEPT ![f] = @ - 1]
    /\ spent' = [spent EXCEPT ![f] = @ - 1]
    /\ UNCHANGED <<logs, recent, remembered, stored, active, job>>

\* Calls are uploaded or marked, or are older than a day.
LogsChange(f, s) ==
    /\ logs[f] # s
    /\ logs' = [logs EXCEPT ![f] = s]
    /\ UNCHANGED <<recent, raised, spent, remembered, stored, active, job>>

\* The review of a rule.
Discard(f, p) ==
    /\ active[f][p] > 0
    /\ active' = [active EXCEPT ![f][p] = @ - 1]
    /\ UNCHANGED <<logs, recent, raised, spent, remembered, stored, job>>

Init ==
    /\ logs = [f \in Families |-> NoLogs]
    /\ recent = [f \in Families |-> 0]
    /\ raised = [f \in Families |-> 0]
    /\ spent = [f \in Families |-> 0]
    /\ remembered = {}
    /\ stored = {}
    /\ active = [f \in Families |-> [p \in Patterns |-> 0]]
    /\ job = [j \in Jobs |-> Idle]

Go(j) == (\E f \in Families : Skip(j, f) \/ Ask(j, f)) \/ Fails(j) \/ Raises(j) \/ Succeeds(j)

Next ==
    \/ \E j \in Jobs : StartAll(j) \/ Go(j) \/ \E f \in Families : StartOne(j, f)
    \/ Crash
    \/ \E k \in remembered : Expire(k)
    \/ \E f \in Families :
          \/ Age(f) \/ AgeRaised(f)
          \/ \E s \in Sigs[f] \cup {NoLogs} : LogsChange(f, s)
          \/ \E p \in Patterns : Discard(f, p)

Spec == Init /\ [][Next]_vars

\* The scheduler starts its run every night, calls end by their timeout, and days
\* pass.
FairSpec ==
    Spec /\ WF_vars(StartAll(Cron)) /\ (\A j \in Jobs : WF_vars(Go(j)))
         /\ \A f \in Families : WF_vars(Age(f)) /\ WF_vars(AgeRaised(f))

-----------------------------------------------------------------------------
(* Correctness.                                                            *)

\* Types; a run waits with the signature that it has read, for a family that is no
\* longer to come.
TypeOK ==
    /\ logs \in [Families -> AllSigs \cup {NoLogs}]
    /\ recent \in [Families -> Nat] /\ raised \in [Families -> Nat] /\ spent \in [Families -> Nat]
    /\ remembered \subseteq Families \X AllSigs
    /\ stored \subseteq Families \X AllSigs
    /\ active \in [Families -> [Patterns -> Nat]]
    /\ job \in [Jobs -> Job]
    /\ \A j \in Jobs : /\ job[j].family = NoFamily <=> job[j].sig = NoLogs
                       /\ job[j].family \notin job[j].todo
    /\ \A f \in Families : spent[f] >= raised[f]

\* The limit of calls in a day (deepseek_service.py:8), as far as it holds: runs
\* that overlap may each go one call beyond it, and calls without a row are not
\* counted at all.
LimitKept ==
    \A f \in Families :
        spent[f] + Cardinality(Waiting(f)) <= Limit - 1 + Cardinality(Jobs) + raised[f]

\* However runs overlap, fail, or are repeated after a crash, no pattern has two
\* active rules.
OneRuleEach == \A f \in Families, p \in Patterns : active[f][p] <= 1

\* Logs are taken to be known only if the rules found in them were stored: no
\* failure, and no logs that come in during the call, make the analysis skip any.
RememberedOnlyIfStored == remembered \subseteq stored

\* Logs of a family that stay are analysed in the end, whatever becomes of the
\* other families, once there are no more crashes and the calls for this family
\* get an answer.
Calm(f) ==
    <>[][/\ ~ Crash
         /\ logs'[f] = logs[f]
         /\ \A j \in Jobs : job[j].family = f => ~ Fails(j) /\ ~ Raises(j)]_vars
AnalysedInTheEnd ==
    \A f \in Families :
        Calm(f) => \A s \in Sigs[f] : []<>(<<f, s>> \in stored \/ logs[f] # s)
=============================================================================

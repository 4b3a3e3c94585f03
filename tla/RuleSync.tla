------------------------------ MODULE RuleSync ------------------------------
(***************************************************************************)
(* The rule packages of the server and their way to the devices:           *)
(* server/app/services/rule_service.py, the review of                      *)
(* server/app/api/rules.py, the rules that                                 *)
(* server/app/services/deepseek_service.py persists, and the Android       *)
(* worker/RuleSyncWorker.kt with the lists of data/RuleDatabase.kt.        *)
(*                                                                         *)
(* Every server operation here is one transaction of a handler or job that *)
(* does not await between reading the versions and writing the rule, on    *)
(* the event loop of the single worker, so it is one step.  A device's     *)
(* worker is a chain of steps, any of which may be its last one.           *)
(***************************************************************************)
EXTENDS Naturals, FiniteSets

CONSTANTS
    Devices,        \* devices, each with the account logged in on it
    Families,       \* family groups
    NoFamily,       \* the account is in no family group
    Hashes,         \* phone hashes: patterns of number rules
    Prefixes,       \* patterns of prefix rules
    Behaviors,      \* patterns of time and behaviour rules
    MaxVersion,     \* bound: highest version the model publishes
    DirectSwitch    \* may a device move to another family without a sync
                    \* outside any family in between

ASSUME RuleAssumption ==
    /\ NoFamily \notin Families
    /\ MaxVersion \in Nat
    /\ DirectSwitch \in BOOLEAN

VARIABLES
    rules,      \* table rule_packages
    home,       \* family_members: the family of a device's account
    ver,        \* KEY_RULE_VERSION of the device
    black,      \* table blacklist of the device
    white,      \* table whitelist of the device
    gray,       \* table graylist of the device
    sync        \* progress of the device's RuleSyncWorker

vars == <<rules, home, ver, black, white, gray, sync>>
lists == <<black, white, gray>>

\* rule_type 1, 2, 3, 4
Kind == {"black", "prefix", "behavior", "white"}
Pattern == Hashes \cup Prefixes \cup Behaviors
\* status 0, 1, 2
Status == {"effective", "review", "discarded"}

\* The rows of one transaction share a version, and no two of them a pattern,
\* so family, version and pattern identify a row.
Rule == [family : Families, kind : Kind, pattern : Pattern,
         version : 1..MaxVersion, status : Status, active : BOOLEAN]

Phase == {"idle", "asked", "answered", "applying"}
Sync == [phase : Phase, version : 0..MaxVersion, rules : SUBSET Rule]
IdleSync == [phase |-> "idle", version |-> 0, rules |-> {}]

Of(f) == {r \in rules : r.family = f}
Versions(f) == {0} \cup {r.version : r \in Of(f)}
Latest(f) == CHOOSE v \in Versions(f) : \A w \in Versions(f) : w <= v
Effective(r) == r.active /\ r.status = "effective"
ActivePatterns(f) == {r.pattern : r \in {s \in Of(f) : s.active}}
Discard(r) == [r EXCEPT !.active = FALSE, !.status = "discarded"]

-----------------------------------------------------------------------------
(* The server.                                                             *)

\* Slip: the highest version itself.
NextVersion_Same(f) == IF Latest(f) = 0 THEN 1 ELSE Latest(f)

\* next_version: above every version of the family.
NextVersion(f) == Latest(f) + 1

NewRule(f, k, p) == [family |-> f, kind |-> k, pattern |-> p,
                     version |-> NextVersion(f), status |-> "effective",
                     active |-> TRUE]

\* apply_feedback: k is "white" for feedback_type 1 (let this number through),
\* "black" for 2.  In both cases it is the rules of type 4 that are discarded.
ApplyFeedback(f, h, k) ==
    /\ NextVersion(f) <= MaxVersion
    /\ LET opposite == {r \in Of(f) : r.pattern = h /\ r.kind = "white"}
       IN  rules' = (rules \ opposite) \cup {Discard(r) : r \in opposite}
                        \cup {NewRule(f, k, h)}
    /\ UNCHANGED <<home, ver, black, white, gray, sync>>

\* A handler or job that writes a batch of new rules with one version.
\* Patterns that an active rule has already are skipped.
PublishBatch(f, batch) ==
    /\ NextVersion(f) <= MaxVersion
    /\ batch # {}
    /\ \A b, c \in batch : b[2] = c[2] => b = c
    /\ \A b \in batch : b[2] \notin ActivePatterns(f)
    /\ rules' = rules \cup {NewRule(f, b[1], b[2]) : b \in batch}
    /\ UNCHANGED <<home, ver, black, white, gray, sync>>

\* family_aggregation, for any outcome of counting the marks.
Aggregate(f) == \E batch \in SUBSET ({"black", "white"} \X Hashes) :
                    PublishBatch(f, batch)

\* _persist_rules, for any valid rules in the answer of the analysis service.
PersistAnalysis(f) ==
    \E batch \in SUBSET (({"prefix"} \X Prefixes) \cup ({"behavior"} \X Behaviors)) :
        PublishBatch(f, batch)

\* Slip: approval also sets is_active.
Review_Revive(f, r, approve) ==
    /\ r \in Of(f)
    /\ rules' = (rules \ {r}) \cup
                    {IF approve THEN [r EXCEPT !.status = "effective", !.active = TRUE]
                                ELSE Discard(r)}
    /\ UNCHANGED <<home, ver, black, white, gray, sync>>

\* review_rule, on any rule of the reviewer's family.  Approval sets nothing
\* but the status.
Review(f, r, approve) ==
    /\ r \in Of(f)
    /\ rules' = (rules \ {r}) \cup
                    {IF approve THEN [r EXCEPT !.status = "effective"] ELSE Discard(r)}
    /\ UNCHANGED <<home, ver, black, white, gray, sync>>

\* Members of a family, with a device in the model or without, give feedback on
\* a number, and review.
MemberActs(f) ==
    \/ \E h \in Hashes, k \in {"black", "white"} : ApplyFeedback(f, h, k)
    \/ \E r \in Of(f), approve \in BOOLEAN : Review(f, r, approve)

-----------------------------------------------------------------------------
(* Membership, as far as the synchronisation is concerned: the account on  *)
(* the device joins or leaves a family, or another account logs in.        *)

Join(d, f) ==
    /\ home[d] # f
    /\ DirectSwitch \/ (home[d] = NoFamily /\ ver[d] = 0 /\ sync[d] = IdleSync)
    /\ home' = [home EXCEPT ![d] = f]
    /\ UNCHANGED <<rules, ver, black, white, gray, sync>>

Leave(d) ==
    /\ home[d] # NoFamily
    /\ home' = [home EXCEPT ![d] = NoFamily]
    /\ UNCHANGED <<rules, ver, black, white, gray, sync>>

-----------------------------------------------------------------------------
(* The worker of a device.                                                 *)

\* Read the stored version and send the request.
Ask(d) ==
    /\ sync[d].phase = "idle"
    /\ sync' = [sync EXCEPT ![d] = [phase |-> "asked", version |-> ver[d], rules |-> {}]]
    /\ UNCHANGED <<rules, home, ver, black, white, gray>>

\* get_incremental_rules.
\* Slip: rules at the next version are taken for known.
Increment_Strict(f, since) ==
    IF f = NoFamily THEN [phase |-> "answered", version |-> 0, rules |-> {}]
    ELSE [phase |-> "answered", version |-> Latest(f),
          rules |-> {r \in Of(f) : r.version > since + 1 /\ Effective(r)}]

Increment(f, since) ==
    IF f = NoFamily THEN [phase |-> "answered", version |-> 0, rules |-> {}]
    ELSE [phase |-> "answered", version |-> Latest(f),
          rules |-> {r \in Of(f) : r.version > since /\ Effective(r)}]

Answer(d) ==
    /\ sync[d].phase = "asked"
    /\ sync' = [sync EXCEPT ![d] = Increment(home[d], sync[d].version)]
    /\ UNCHANGED <<rules, home, ver, black, white, gray>>

\* The prefix rules of the answer replace the whole graylist, in one
\* transaction, unless there are none.
ReplaceGray(d) ==
    LET prefixes == {r.pattern : r \in {s \in sync[d].rules : s.kind = "prefix"}}
    IN  /\ sync[d].phase = "answered"
        /\ gray' = [gray EXCEPT ![d] = IF prefixes = {} THEN @ ELSE prefixes]
        /\ sync' = [sync EXCEPT ![d].phase = "applying",
                        ![d].rules = {r \in @ : r.kind \in {"black", "white"}}]
        /\ UNCHANGED <<rules, home, ver, black, white>>

\* One addBlacklist or addWhitelist: the black rules first.
AddNumber(d) ==
    /\ sync[d].phase = "applying"
    /\ \E r \in sync[d].rules :
         /\ r.kind = "white" => \A s \in sync[d].rules : s.kind = "white"
         /\ black' = IF r.kind = "black"
                     THEN [black EXCEPT ![d] = @ \cup {r.pattern}] ELSE black
         /\ white' = IF r.kind = "white"
                     THEN [white EXCEPT ![d] = @ \cup {r.pattern}] ELSE white
         /\ sync' = [sync EXCEPT ![d].rules = @ \ {r}]
    /\ UNCHANGED <<rules, home, ver, gray>>

\* Slip: the version is saved before the lists are complete.
SaveVersion_Early(d) ==
    /\ sync[d].phase = "applying"
    /\ ver' = [ver EXCEPT ![d] = sync[d].version]
    /\ sync' = [sync EXCEPT ![d] = IdleSync]
    /\ UNCHANGED <<rules, home, black, white, gray>>

SaveVersion(d) ==
    /\ sync[d].phase = "applying"
    /\ sync[d].rules = {}
    /\ ver' = [ver EXCEPT ![d] = sync[d].version]
    /\ sync' = [sync EXCEPT ![d] = IdleSync]
    /\ UNCHANGED <<rules, home, black, white, gray>>

\* The request or the answer is lost, or the process of the app is killed; the
\* worker will run again from the beginning.
Abort(d) ==
    /\ sync[d].phase # "idle"
    /\ sync' = [sync EXCEPT ![d] = IdleSync]
    /\ UNCHANGED <<rules, home, ver, black, white, gray>>

-----------------------------------------------------------------------------
Init ==
    /\ rules = {}
    /\ home \in [Devices -> Families \cup {NoFamily}]
    /\ ver = [d \in Devices |-> 0]
    /\ black = [d \in Devices |-> {}]
    /\ white = [d \in Devices |-> {}]
    /\ gray = [d \in Devices |-> {}]
    /\ sync = [d \in Devices |-> IdleSync]

Next ==
    \/ \E f \in Families : Aggregate(f) \/ PersistAnalysis(f) \/ MemberActs(f)
    \/ \E d \in Devices :
          \/ \E f \in Families : Join(d, f)
          \/ Leave(d)
          \/ Ask(d)
          \/ Answer(d)
          \/ ReplaceGray(d)
          \/ AddNumber(d)
          \/ SaveVersion(d)
          \/ Abort(d)

Spec == Init /\ [][Next]_vars

\* The worker is periodic work: it starts again and again, and a run of it that
\* is not aborted comes to its end.
SyncFairness ==
    \A d \in Devices :
        /\ WF_vars(Ask(d)) /\ WF_vars(Answer(d)) /\ WF_vars(ReplaceGray(d))
        /\ WF_vars(AddNumber(d)) /\ WF_vars(SaveVersion(d))

FairSpec == Spec /\ SyncFairness

-----------------------------------------------------------------------------
(* Correctness.                                                            *)

NumberItems == {"black", "white"} \X Hashes

\* Types; what a worker has in hand at each phase.
TypeOK ==
    /\ rules \in SUBSET Rule
    /\ home \in [Devices -> Families \cup {NoFamily}]
    /\ ver \in [Devices -> 0..MaxVersion]
    /\ black \in [Devices -> SUBSET Hashes]
    /\ white \in [Devices -> SUBSET Hashes]
    /\ gray \in [Devices -> SUBSET Prefixes]
    /\ sync \in [Devices -> Sync]
    /\ \A d \in Devices :
          /\ sync[d].phase = "idle" => sync[d] = IdleSync
          /\ sync[d].phase = "asked" => sync[d].version = ver[d]
          /\ sync[d].phase = "applying" =>
                \A r \in sync[d].rules : <<r.kind, r.pattern>> \in NumberItems

\* The number rules in force for the account on a device, and what the device
\* has of them.
Offered == [d \in Devices |->
    IF home[d] = NoFamily THEN {}
    ELSE {[item |-> <<r.kind, r.pattern>>, version |-> r.version] :
             r \in {s \in Of(home[d]) : Effective(s) /\ s.kind \in {"black", "white"}}}]

Have == [d \in Devices |-> ({"black"} \X black[d]) \cup ({"white"} \X white[d])]

Delivery == INSTANCE RuleDelivery WITH Items <- NumberItems,
                offered <- Offered, have <- Have, upto <- ver

\* A device that has passed the version of a number rule in force in its family
\* has that number on its list: sync_rules would never send it again.  Feedback,
\* aggregation, review and the steps of the worker may interleave at will.
NumbersDelivered == Delivery!Delivered

\* The synchronisation as a whole, seen through the number rules, does what an
\* incremental delivery may do and nothing else.
ImplementsDelivery == Delivery!Spec

\* A rule enters the table above every version handed out in its family so far,
\* and one that was discarded never comes into force again: the two facts the
\* question "what is new since" rests on.
VersionsGrow ==
    [][\A r \in rules' \ rules :
          Effective(r) => \A s \in Of(r.family) : s.version < r.version]_vars

\* A number rule that stays in force in the family of a device reaches the
\* device, once the runs of its worker are no longer aborted.  (To abort a run
\* that is about to save the version it had comes to the same as saving it.)
Calm == <>[][\A d \in Devices : Abort(d) => SaveVersion(d)]_vars
InForce(d, k, h) ==
    /\ home[d] # NoFamily
    /\ \E r \in Of(home[d]) : Effective(r) /\ r.kind = k /\ r.pattern = h
EventuallyDelivered ==
    Calm => \A d \in Devices, k \in {"black", "white"}, h \in Hashes :
        InForce(d, k, h) ~> (<<k, h>> \in Have[d] \/ ~ InForce(d, k, h))
=============================================================================

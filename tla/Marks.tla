------------------------------- MODULE Marks --------------------------------
(***************************************************************************)
(* What users say of a number after its calls, and what becomes of it:     *)
(* calls are logged and uploaded later, marks are sent at once             *)
(* (engine/MarkReceiver.kt, server/app/api/logs.py), and each night the    *)
(* marks of a family are counted (rule_service.family_aggregation).        *)
(*                                                                         *)
(* One number and one family.  UploadQueue tells how an upload may fail;   *)
(* here it takes the whole queue.                                          *)
(***************************************************************************)
EXTENDS Integers, FiniteSets, Sequences

CONSTANTS
    Users,          \* users who are members at first, each with one device
    Window,         \* marks count for so long: 30 days
    MinUsers,       \* FAMILY_AGGREGATION_MIN_USERS
    MaxHour,        \* bound: the clock stops here
    MaxCalls,       \* bound: calls of each user from the number
    MaxMarks        \* bound: marks of each user

ASSUME MarksAssumption ==
    /\ Window \in Nat \ {0} /\ MinUsers \in Nat \ {0}
    /\ MaxHour \in Nat /\ MaxCalls \in [Users -> Nat] /\ MaxMarks \in [Users -> Nat]

VARIABLES
    hour,           \* the time, as far as the server wants to know it
    member,         \* the user is in the family
    called,         \* the hours of the calls a user has had
    queue,          \* the calls that wait for their upload
    rows,           \* intercept_logs
    sent,           \* marks on their way
    voices,         \* the number of his marks that have reached the server
    rule            \* the aggregation's rule for the number

vars == <<hour, member, called, queue, rows, sent, voices, rule>>

\* user_mark: spam is 1, customer 2, unsure 3.
Mark == {"spam", "customer", "unsure"}

\* A row, of the n-th call of a user or of no call (0); ours if the family is its.
Row == [user : Users, call : Nat, hour : 0..MaxHour,
        mark : Mark \cup {"none"}, ours : BOOLEAN]
Sent == [user : Users, call : Nat, mark : Mark]

Calls(u) == DOMAIN called[u]
Of(u) == {r \in rows : r.user = u}
Stored(u) == {r.call : r \in Of(u)}

-----------------------------------------------------------------------------
(* The app.                                                                *)

\* A call is decided on and logged.
Call(u) ==
    /\ Len(called[u]) < MaxCalls[u]
    /\ called' = [called EXCEPT ![u] = Append(@, hour)]
    /\ queue' = [queue EXCEPT ![u] = @ \cup {Len(called[u]) + 1}]
    /\ UNCHANGED <<hour, member, rows, sent, voices, rule>>

\* The buttons of the notification, or the screen.
MarkCall(u, c, m) ==
    /\ c \in Calls(u)
    /\ voices[u] + Cardinality({s \in sent : s.user = u}) < MaxMarks[u]
    /\ sent' = sent \cup {[user |-> u, call |-> c, mark |-> m]}
    /\ UNCHANGED <<hour, member, called, queue, rows, voices, rule>>

\* The request fails, which nobody is told.
Lose(s) ==
    /\ s \in sent
    /\ sent' = sent \ {s}
    /\ UNCHANGED <<hour, member, called, queue, rows, voices, rule>>

-----------------------------------------------------------------------------
(* The server.                                                             *)

\* deleteUploaded.
Taken(u) == queue[u]

\* upload_logs: the rows get the family of this moment, and the hour of the call.
Upload(u) ==
    /\ queue[u] # {}
    /\ rows' = rows \cup {[user |-> u, call |-> c, hour |-> called[u][c],
                           mark |-> "none", ours |-> member[u]] : c \in queue[u]}
    /\ queue' = [queue EXCEPT ![u] = @ \ Taken(u)]
    /\ UNCHANGED <<hour, member, called, sent, voices, rule>>

\* Slip: the first call is taken.
Latest_First(u) == {r \in Of(u) : \A q \in Of(u) : r.hour <= q.hour}

\* The rows that the query may answer with; hours do not tell their order.
Latest(u) == {r \in Of(u) : \A q \in Of(u) : q.hour <= r.hour}

StandIn(u, m) ==
    [user |-> u, call |-> 0, hour |-> hour, mark |-> m, ours |-> member[u]]

Add(s) == rows \cup {StandIn(s.user, s.mark)}
Put(s, R) == (rows \ R) \cup {[r EXCEPT !.mark = s.mark] : r \in R}

\* Slip: a mark gets a row of its own until its call is uploaded.
Marked_Apart(s) ==
    IF s.call \in Stored(s.user) THEN {Put(s, {r}) : r \in Latest(s.user)} ELSE {Add(s)}

\* Slip: all rows of the number are marked.
Marked_All(s) == IF Of(s.user) = {} THEN {Add(s)} ELSE {Put(s, Of(s.user))}

\* The rows after a mark: the latest is marked, or a row is made for the mark.
Marked(s) ==
    IF Of(s.user) = {} THEN {Add(s)} ELSE {Put(s, {r}) : r \in Latest(s.user)}

\* mark_call.
Deliver(s) ==
    /\ s \in sent
    /\ rows' \in Marked(s)
    /\ sent' = sent \ {s}
    /\ voices' = [voices EXCEPT ![s.user] = @ + 1]
    /\ UNCHANGED <<hour, member, called, queue, rule>>

\* The marks that count.
Counted == {r \in rows : r.ours /\ r.mark # "none" /\ r.hour > hour - Window}
Number(m) == Cardinality({r \in Counted : r.mark = m})
Total == Cardinality(Counted)

\* Slip: marks are counted, not users.
Enough_Marks == Total >= MinUsers

Enough == Cardinality({r.user : r \in Counted}) >= MinUsers

\* Slip: marks of customers are not compared with others.
Outcome_Any ==
    IF 5 * Number("spam") >= 4 * Total THEN "black"
    ELSE IF Number("customer") >= MinUsers THEN "white" ELSE "none"

\* Four fifths of the marks, FAMILY_SPAM_RATIO, blacklist the number; less than
\* three tenths, FAMILY_SAFE_RATIO, are no obstacle to let it through.
Outcome ==
    IF 5 * Number("spam") >= 4 * Total THEN "black"
    ELSE IF Number("customer") >= MinUsers /\ 10 * Number("spam") < 3 * Total THEN "white"
    ELSE "none"

\* family_aggregation; a number that has a rule is passed over.
Aggregate ==
    /\ rule' = IF rule = "none" /\ Enough THEN Outcome ELSE rule
    /\ UNCHANGED <<hour, member, called, queue, rows, sent, voices>>

\* The review of the rule.
Discard ==
    /\ rule # "none"
    /\ rule' = "none"
    /\ UNCHANGED <<hour, member, called, queue, rows, sent, voices>>

\* A member leaves, and there is no way back (see Family); his rows stay.
Leave(u) ==
    /\ member[u]
    /\ member' = [member EXCEPT ![u] = FALSE]
    /\ UNCHANGED <<hour, called, queue, rows, sent, voices, rule>>

Tick ==
    /\ hour < MaxHour
    /\ hour' = hour + 1
    /\ UNCHANGED <<member, called, queue, rows, sent, voices, rule>>

Init ==
    /\ hour = 0
    /\ member = [u \in Users |-> TRUE]
    /\ called = [u \in Users |-> <<>>]
    /\ queue = [u \in Users |-> {}]
    /\ rows = {}
    /\ sent = {}
    /\ voices = [u \in Users |-> 0]
    /\ rule = "none"

Next ==
    \/ \E u \in Users :
          \/ Call(u) \/ Upload(u) \/ Leave(u)
          \/ \E c \in 1..MaxCalls[u], m \in Mark : MarkCall(u, c, m)
    \/ \E s \in sent : Deliver(s) \/ Lose(s)
    \/ Aggregate
    \/ Discard
    \/ Tick

Spec == Init /\ [][Next]_vars

-----------------------------------------------------------------------------
(* Correctness.                                                            *)

\* Types; a call is in the queue or stored, and not both.
TypeOK ==
    /\ hour \in 0..MaxHour
    /\ member \in [Users -> BOOLEAN]
    /\ called \in [Users -> Seq(0..hour)] /\ queue \in [Users -> SUBSET Nat]
    /\ rows \subseteq Row /\ sent \subseteq Sent
    /\ voices \in [Users -> Nat]
    /\ rule \in {"none", "black", "white"}
    /\ \A u \in Users : /\ Len(called[u]) <= MaxCalls[u]
                         /\ queue[u] \cap Stored(u) = {}
                         /\ queue[u] \cup (Stored(u) \ {0}) = Calls(u)

\* A mark that comes before its call is uploaded gets a row of its own once at
\* most, however calls, uploads and marks come about (logs.py:90).
StandsInOnce == \A u \in Users : Cardinality({r \in Of(u) : r.call = 0}) <= 1

\* Nobody has more marks counted than he has made, although marks and uploads come
\* in any order and the same call may get two rows.
VoicesCounted ==
    \A u \in Users : Cardinality({r \in Of(u) : r.mark # "none"}) <= voices[u]

\* A mark takes the row of an earlier call, or takes away the mark of one, only if
\* the marked call is not there yet: it comes to the most recent (logs.py:76).
NeverEarlier ==
    [][\A s \in sent, r \in rows :
          /\ Deliver(s)
          /\ r \notin rows'
          /\ s.call \in Stored(s.user)
          => r.user = s.user /\ r.hour >= called[s.user][s.call]]_vars

\* A rule takes the marks of as many users as it should (rule_service.py:80); that
\* they leave or that rows grow old does not matter later.
RulesAreEarned ==
    rule # "none" => Cardinality({r.user : r \in {q \in rows : q.mark # "none"}}) >= MinUsers

\* With few marks the shares leave no room for dissent (rule_service.py:81): less
\* than five marks blacklist a number only if all agree, and less than four
\* whitelist it only if nobody calls it a nuisance.
FewMustAgree ==
    [][/\ rule = "none" /\ rule' = "black" /\ Total < 5
          => \A r \in Counted : r.mark = "spam"
       /\ rule = "none" /\ rule' = "white" /\ Total < 4
          => \A r \in Counted : r.mark # "spam"]_vars
=============================================================================

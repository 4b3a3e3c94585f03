---------------------------- MODULE CallTracker -----------------------------
(***************************************************************************)
(* Calls on an Android device: the screening of each one by what the       *)
(* device remembers of the number (engine/CallScreenService.kt, layer 3 of *)
(* DecisionEngine.kt), and the tracker of rings that remembers it          *)
(* (CallStateReceiver.kt).                                                 *)
(*                                                                         *)
(* The system broadcasts each state of the line.  The receiver handles     *)
(* every broadcast in a coroutine of its own on a pool of threads, in any  *)
(* order and side by side; what they share are a few volatile fields.      *)
(***************************************************************************)
EXTENDS Integers, SequencesExt

CONSTANTS
    Numbers,        \* who calls
    NoNumber,       \* nobody: the field is null, or the call goes out
    UrgentMin,      \* URGENT_MIN_COUNT: so many calls within an hour are urgent
    BlockMin,       \* SHORT_RING_BLOCK_THRESHOLD
    Copies,         \* how often the system sends a broadcast without a number
    MaxCalls,       \* bound: calls, both ways
    MaxJobs         \* bound: coroutines at a time

ASSUME TrackerAssumption ==
    /\ NoNumber \notin Numbers
    /\ UrgentMin \in Nat \ {0} /\ BlockMin \in Nat \ {0}
    /\ Copies \subseteq Nat \ {0}
    /\ MaxCalls \in Nat /\ MaxJobs \in Nat

VARIABLES
    line,           \* the state of the line, and who calls
    made,           \* calls so far
    jobs,           \* broadcasts that are being handled, by the order they were sent in
    ringingNumber,  \* fields of the tracker
    answered,
    recent,         \* rows of behavior_log of the last hour (up to UrgentMin count)
    short,          \* rows with a short ring (up to BlockMin count)
    writing,        \* coroutines of onScreenCall that will write a row
    calls,          \* calls of a number in the last hour, less those whose row was
                    \* lost with the process
    smooth,         \* so far every broadcast was handled alone and in order
    owed            \* missed calls without a row, less rows without one (while smooth)

vars == <<line, made, jobs, ringingNumber, answered,
          recent, short, writing, calls, smooth, owed>>
phone == <<line, made>>
tracker == <<ringingNumber, answered>>
rows == <<recent, short>>
screening == <<writing, calls>>
ghosts == <<smooth, owed>>

Line == {[state |-> "idle", from |-> NoNumber]}
    \cup [state : {"ringing"}, from : Numbers]
    \cup [state : {"offhook"}, from : Numbers \cup {NoNumber}]
Free == [state |-> "idle", from |-> NoNumber]

\* A coroutine, and what it has read of ringingNumber if it has begun; the system
\* sends a number along with the first state.
Job == {j \in [state : {"ringing", "offhook", "idle"}, number : Numbers \cup {NoNumber},
               begun : BOOLEAN] :
           j.begun \/ j.state = "ringing" => j.number \in Numbers}

Broadcast(state, number, n) ==
    /\ Len(jobs) + n <= MaxJobs
    /\ jobs' = jobs \o [i \in 1..n |-> [state |-> state, number |-> number, begun |-> FALSE]]

UpTo(n, max) == IF n < max THEN n + 1 ELSE max

-----------------------------------------------------------------------------
(* Screening.                                                              *)

\* Slip: short rings are looked at first.
Layer3_ShortFirst(n) ==
    IF short[n] >= BlockMin THEN "block"
    ELSE IF recent[n] >= UrgentMin THEN "allow" ELSE "silence"

\* layer3MicroBehavior; to silence a call or to let it ring is the same here.
Layer3(n) ==
    IF recent[n] >= UrgentMin THEN "allow"
    ELSE IF short[n] >= BlockMin THEN "block" ELSE "silence"

\* The verdict is given by the first layers, whatever they hold, or by the third.
Verdicts(n) == {"allow", "block", Layer3(n)}

\* onScreenCall; a call that is not blocked rings.
Screen(n) ==
    /\ line = Free /\ made < MaxCalls
    /\ made' = made + 1
    /\ \E v \in Verdicts(n) :
          IF v = "block"
          THEN UNCHANGED <<line, jobs>>
          ELSE line' = [state |-> "ringing", from |-> n] /\ Broadcast("ringing", n, 1)
    /\ writing' = [writing EXCEPT ![n] = @ + 1]
    /\ calls' = [calls EXCEPT ![n] = @ + 1]
    /\ UNCHANGED <<tracker, rows, ghosts>>

\* The coroutine that onScreenCall has launched: recordBehavior.
WriteRow(n) ==
    /\ writing[n] > 0
    /\ writing' = [writing EXCEPT ![n] = @ - 1]
    /\ recent' = [recent EXCEPT ![n] = UpTo(@, UrgentMin)]
    /\ UNCHANGED <<phone, jobs, tracker, short, calls, ghosts>>

-----------------------------------------------------------------------------
(* The line.                                                               *)

\* The user answers, or makes a call.
PickUp ==
    /\ \/ line.state = "ringing" /\ UNCHANGED made
       \/ line = Free /\ made < MaxCalls /\ made' = made + 1
    /\ line' = [line EXCEPT !.state = "offhook"]
    /\ \E n \in Copies : Broadcast("offhook", NoNumber, n)
    /\ UNCHANGED <<tracker, rows, screening, ghosts>>

\* Either side hangs up, or the call is refused.
HangUp ==
    /\ line # Free
    /\ line' = Free
    /\ \E n \in Copies : Broadcast("idle", NoNumber, n)
    /\ owed' = IF smooth /\ line.state = "ringing"
               THEN [owed EXCEPT ![line.from] = @ + 1] ELSE owed
    /\ UNCHANGED <<made, tracker, rows, screening, smooth>>

-----------------------------------------------------------------------------
(* The tracker.                                                            *)

\* The row of recordBehavior with the seconds since ringStartMs, few or many.
Note(n) ==
    /\ recent' = [recent EXCEPT ![n] = UpTo(@, UrgentMin)]
    /\ \/ short' = [short EXCEPT ![n] = UpTo(@, BlockMin)]
       \/ UNCHANGED short

\* The coroutine at place i of jobs is picked up, and goes on.
Pick(i) ==
    /\ ~ jobs[i].begun
    /\ smooth' = (smooth /\ i = 1)
    /\ owed' = IF smooth' THEN owed ELSE [n \in Numbers |-> 0]

Begin(i, number) ==
    /\ Pick(i)
    /\ jobs' = [jobs EXCEPT ![i].begun = TRUE, ![i].number = number]
    /\ UNCHANGED <<phone, rows, screening>>

End(i) == jobs' = RemoveAt(jobs, i) /\ UNCHANGED <<phone, screening, smooth>>

\* onRinging sets the number, and then that the call is not answered.
BeginRinging(i) ==
    /\ jobs[i].state = "ringing"
    /\ Begin(i, jobs[i].number)
    /\ ringingNumber' = jobs[i].number
    /\ UNCHANGED answered

EndRinging(i) ==
    /\ jobs[i].begun /\ jobs[i].state = "ringing"
    /\ answered' = FALSE
    /\ End(i)
    /\ UNCHANGED <<ringingNumber, rows, owed>>

\* onAnswered and onIdle return if there is no number.
Ignore(i) ==
    /\ Pick(i) /\ jobs[i].state # "ringing"
    /\ ringingNumber = NoNumber
    /\ jobs' = RemoveAt(jobs, i)
    /\ UNCHANGED <<phone, tracker, rows, screening>>

BeginOther(i) ==
    /\ jobs[i].state # "ringing"
    /\ ringingNumber # NoNumber
    /\ Begin(i, ringingNumber)
    /\ UNCHANGED tracker

\* onAnswered reads the number a second time.
EndAnswered(i) ==
    /\ jobs[i].begun /\ jobs[i].state = "offhook"
    /\ ringingNumber # NoNumber
    /\ answered' = TRUE
    /\ Note(ringingNumber)
    /\ End(i)
    /\ UNCHANGED <<ringingNumber, owed>>

\* Slip: the number stays.
EndIdle_Keep(i) ==
    /\ jobs[i].begun /\ jobs[i].state = "idle"
    /\ IF answered
       THEN UNCHANGED <<rows, owed>>
       ELSE Note(jobs[i].number)
            /\ owed' = IF smooth THEN [owed EXCEPT ![jobs[i].number] = @ - 1] ELSE owed
    /\ answered' = FALSE
    /\ End(i)
    /\ UNCHANGED ringingNumber

\* onIdle: a row if the call was not answered.
EndIdle(i) ==
    /\ jobs[i].begun /\ jobs[i].state = "idle"
    /\ IF answered
       THEN UNCHANGED <<rows, owed>>
       ELSE Note(jobs[i].number)
            /\ owed' = IF smooth THEN [owed EXCEPT ![jobs[i].number] = @ - 1] ELSE owed
    /\ ringingNumber' = NoNumber
    /\ answered' = FALSE
    /\ End(i)

\* The process ends.  So it does if onAnswered finds the number gone when it reads
\* it again: an exception that nobody catches.
Kill ==
    /\ jobs' = <<>>
    /\ ringingNumber' = NoNumber
    /\ answered' = FALSE
    /\ writing' = [n \in Numbers |-> 0]
    /\ calls' = [n \in Numbers |-> calls[n] - writing[n]]
    /\ smooth' = FALSE
    /\ owed' = [n \in Numbers |-> 0]
    /\ UNCHANGED <<phone, rows>>

\* An hour without a call, in which all coroutines end.
HourPasses ==
    /\ line = Free /\ jobs = <<>>
    /\ \A n \in Numbers : writing[n] = 0
    /\ recent' = [n \in Numbers |-> 0]
    /\ calls' = [n \in Numbers |-> 0]
    /\ UNCHANGED <<phone, jobs, tracker, short, writing, ghosts>>

Init ==
    /\ line = Free
    /\ made = 0
    /\ jobs = <<>>
    /\ ringingNumber = NoNumber
    /\ answered = FALSE
    /\ recent = [n \in Numbers |-> 0]
    /\ short = [n \in Numbers |-> 0]
    /\ writing = [n \in Numbers |-> 0]
    /\ calls = [n \in Numbers |-> 0]
    /\ smooth = TRUE
    /\ owed = [n \in Numbers |-> 0]

Handle(i) ==
    \/ BeginRinging(i) \/ EndRinging(i) \/ Ignore(i) \/ BeginOther(i)
    \/ EndAnswered(i) \/ EndIdle(i)

Next ==
    \/ \E n \in Numbers : Screen(n) \/ WriteRow(n)
    \/ PickUp
    \/ HangUp
    \/ \E i \in DOMAIN jobs : Handle(i)
    \/ Kill
    \/ HourPasses

Spec == Init /\ [][Next]_vars

-----------------------------------------------------------------------------
(* Correctness.                                                            *)

\* Types; a handler that has begun has a number, and the coroutines stay within the
\* bound of the instance.
TypeOK ==
    /\ line \in Line /\ made \in 0..MaxCalls
    /\ jobs \in Seq(Job) /\ Len(jobs) <= MaxJobs
    /\ ringingNumber \in Numbers \cup {NoNumber} /\ answered \in BOOLEAN
    /\ recent \in [Numbers -> 0..UrgentMin] /\ short \in [Numbers -> 0..BlockMin]
    /\ writing \in [Numbers -> Nat] /\ calls \in [Numbers -> Nat]
    /\ smooth \in BOOLEAN /\ owed \in [Numbers -> Int]

\* As long as broadcasts are handled one by one and in order, each call that was
\* not answered has exactly one row (CallStateReceiver.kt:19), although broadcasts
\* come twice and calls go out in between.
EveryMissIsNoted ==
    smooth /\ jobs = <<>> /\ line = Free => \A n \in Numbers : owed[n] = 0

\* Whatever the tracker adds and in whatever order, layer 3 blocks no number that
\* has called UrgentMin times within the hour (DecisionEngine.kt:196), unless rows
\* of these calls are still to be written or went down with the process.
UrgentCallsPass ==
    \A n \in Numbers :
        Layer3(n) = "block" => calls[n] - writing[n] < UrgentMin
=============================================================================

------------------------- MODULE CallTrackerProofs --------------------------
(***************************************************************************)
(* Proofs about CallTracker, for any number of callers and coroutines:     *)
(* urgent calls pass, and missed calls are noted once as long as           *)
(* broadcasts are handled in order.                                        *)
(***************************************************************************)
EXTENDS CallTracker, SequenceTheorems, FiniteSetTheorems, TLAPS

\* The rows that layer 3 counts stand for all calls of the hour, unless they are
\* still to be written.
Counted ==
    \A n \in Numbers :
        /\ writing[n] <= calls[n]
        /\ recent[n] = UrgentMin \/ calls[n] - writing[n] <= recent[n]

IInv == TypeOK /\ Counted

-----------------------------------------------------------------------------
(* Sequences of coroutines.                                                *)

LEMMA BroadcastTyped ==
    ASSUME TypeOK, NEW state \in {"ringing", "offhook", "idle"},
           NEW number \in Numbers \cup {NoNumber}, state = "ringing" => number \in Numbers,
           NEW n \in Nat, Broadcast(state, number, n)
    PROVE  jobs' \in Seq(Job) /\ Len(jobs') <= MaxJobs
<1> DEFINE new == [state |-> state, number |-> number, begun |-> FALSE]
           more == [i \in 1..n |-> new]
<1>1. jobs \in Seq(Job) /\ MaxJobs \in Nat /\ Len(jobs) \in Nat
  BY TrackerAssumption DEF TypeOK
<1>2. new \in Job
  BY DEF Job
<1>3. jobs' = jobs \o more /\ Len(jobs) + n <= MaxJobs
  BY DEF Broadcast
<1>. HIDE DEF new
<1>4. more \in Seq(Job) /\ Len(more) = n
  BY <1>2
<1>. HIDE DEF more
<1>5. jobs' \in Seq(Job) /\ Len(jobs') = Len(jobs) + n
  BY <1>1, <1>3, <1>4, ConcatProperties
<1>. QED BY <1>1, <1>3, <1>5

LEMMA RemoveTyped ==
    ASSUME TypeOK, NEW i \in DOMAIN jobs, jobs' = RemoveAt(jobs, i)
    PROVE  jobs' \in Seq(Job) /\ Len(jobs') <= MaxJobs
<1>1. jobs \in Seq(Job) /\ MaxJobs \in Nat /\ Len(jobs) \in Nat /\ i \in 1..Len(jobs)
      /\ Len(jobs) <= MaxJobs
  BY TrackerAssumption DEF TypeOK
<1> DEFINE a == SubSeq(jobs, 1, i - 1)
           b == SubSeq(jobs, i + 1, Len(jobs))
<1>2. jobs' = a \o b
  BY <1>1 DEF RemoveAt
<1>3. a \in Seq(Job) /\ Len(a) = i - 1
  <2>1. \A k \in 1..i - 1 : jobs[k] \in Job
    BY <1>1
  <2>2. a \in Seq(Job) /\ Len(a) = (IF 1 <= i - 1 THEN i - 1 - 1 + 1 ELSE 0)
    BY <1>1, <2>1, SubSeqProperties
  <2>. HIDE DEF a
  <2>. QED BY <1>1, <2>2
<1>4. b \in Seq(Job) /\ Len(b) = Len(jobs) - i
  <2>1. \A k \in i + 1..Len(jobs) : jobs[k] \in Job
    BY <1>1
  <2>2. /\ b \in Seq(Job)
        /\ Len(b) = (IF i + 1 <= Len(jobs) THEN Len(jobs) - (i + 1) + 1 ELSE 0)
    BY <1>1, <2>1, SubSeqProperties
  <2>. HIDE DEF b
  <2>. QED BY <1>1, <2>2
<1>. HIDE DEF a, b
<1>5. jobs' \in Seq(Job) /\ Len(jobs') = Len(a) + Len(b)
  BY <1>2, <1>3, <1>4, ConcatProperties
<1>. QED BY <1>1, <1>3, <1>4, <1>5

-----------------------------------------------------------------------------
(* The actions.                                                            *)

LEMMA Bounds ==
    ASSUME TypeOK
    PROVE  /\ UrgentMin \in Nat \ {0} /\ BlockMin \in Nat \ {0} /\ MaxCalls \in Nat
           /\ recent \in [Numbers -> 0..UrgentMin] /\ short \in [Numbers -> 0..BlockMin]
           /\ writing \in [Numbers -> Nat] /\ calls \in [Numbers -> Nat]
           /\ \A n \in 0..UrgentMin : UpTo(n, UrgentMin) \in 0..UrgentMin
           /\ \A n \in 0..BlockMin : UpTo(n, BlockMin) \in 0..BlockMin
BY TrackerAssumption DEF TypeOK, UpTo

\* Rows are added.
LEMMA NoteTyped ==
    ASSUME TypeOK, NEW n \in Numbers, Note(n)
    PROVE  recent' \in [Numbers -> 0..UrgentMin] /\ short' \in [Numbers -> 0..BlockMin]
BY Bounds DEF Note

LEMMA InitInv == Init => IInv
<1>. SUFFICES ASSUME Init PROVE IInv
  OBVIOUS
<1>1. TypeOK
  <2>1. jobs \in Seq(Job) /\ Len(jobs) = 0
    BY DEF Init
  <2>2. line \in Line /\ made \in 0..MaxCalls /\ Len(jobs) <= MaxJobs
    BY <2>1, TrackerAssumption DEF Init, Line, Free
  <2>3. /\ recent \in [Numbers -> 0..UrgentMin] /\ short \in [Numbers -> 0..BlockMin]
        /\ writing \in [Numbers -> Nat] /\ calls \in [Numbers -> Nat]
        /\ owed \in [Numbers -> Int]
    BY TrackerAssumption DEF Init
  <2>4. /\ ringingNumber \in Numbers \cup {NoNumber}
        /\ answered \in BOOLEAN /\ smooth \in BOOLEAN
    BY DEF Init
  <2>. QED BY <2>1, <2>2, <2>3, <2>4 DEF TypeOK
<1>2. Counted
  BY TrackerAssumption DEF Init, Counted
<1>. QED BY <1>1, <1>2 DEF IInv

LEMMA LineTyped ==
    ASSUME TypeOK,
           \/ \E n \in Numbers : Screen(n) \/ WriteRow(n)
           \/ PickUp \/ HangUp
    PROVE  TypeOK'
<1>0. /\ line \in Line /\ made \in Nat /\ MaxCalls \in Nat /\ owed \in [Numbers -> Int]
      /\ writing \in [Numbers -> Nat] /\ calls \in [Numbers -> Nat]
      /\ line.state = "ringing" => line.from \in Numbers
  BY TrackerAssumption DEF TypeOK, Line
<1>1. ASSUME NEW n \in Numbers, Screen(n) PROVE TypeOK'
  <2>1. CASE UNCHANGED <<line, jobs>>
    BY <1>0, <1>1, <2>1 DEF Screen, TypeOK, tracker, rows, ghosts
  <2>2. CASE line' = [state |-> "ringing", from |-> n] /\ Broadcast("ringing", n, 1)
    <3>1. jobs' \in Seq(Job) /\ Len(jobs') <= MaxJobs
      BY <2>2, BroadcastTyped
    <3>2. line' \in Line
      BY <2>2 DEF Line
    <3>. QED BY <1>0, <1>1, <3>1, <3>2 DEF Screen, TypeOK, tracker, rows, ghosts
  <2>. QED BY <1>1, <2>1, <2>2 DEF Screen
<1>2. ASSUME NEW n \in Numbers, WriteRow(n) PROVE TypeOK'
  <2>1. recent' \in [Numbers -> 0..UrgentMin] /\ writing' \in [Numbers -> Nat]
    BY <1>2, Bounds DEF WriteRow
  <2>. QED BY <1>2, <2>1 DEF WriteRow, TypeOK, phone, tracker, ghosts
<1>3. CASE PickUp
  <2>1. PICK n \in Copies : Broadcast("offhook", NoNumber, n)
    BY <1>3 DEF PickUp
  <2>2. jobs' \in Seq(Job) /\ Len(jobs') <= MaxJobs
    BY <2>1, BroadcastTyped, TrackerAssumption
  <2>3. line' \in Line /\ made' \in 0..MaxCalls
    BY <1>0, <1>3 DEF PickUp, Line, Free, TypeOK
  <2>. QED BY <1>3, <2>2, <2>3 DEF PickUp, TypeOK, tracker, rows, screening, ghosts
<1>4. CASE HangUp
  <2>1. PICK n \in Copies : Broadcast("idle", NoNumber, n)
    BY <1>4 DEF HangUp
  <2>2. jobs' \in Seq(Job) /\ Len(jobs') <= MaxJobs
    BY <2>1, BroadcastTyped, TrackerAssumption
  <2>3. line' \in Line /\ owed' \in [Numbers -> Int]
    BY <1>0, <1>4 DEF HangUp, Line, Free
  <2>. QED BY <1>4, <2>2, <2>3 DEF HangUp, TypeOK, tracker, rows, screening
<1>. QED BY <1>1, <1>2, <1>3, <1>4

\* The record of a handler that begins.
LEMMA BegunTyped ==
    ASSUME NEW j \in Job, NEW number \in Numbers
    PROVE  [j EXCEPT !.begun = TRUE, !.number = number] \in Job
BY DEF Job

LEMMA ChangeTyped ==
    ASSUME TypeOK, NEW i \in DOMAIN jobs, NEW j \in Job, jobs' = [jobs EXCEPT ![i] = j]
    PROVE  jobs' \in Seq(Job) /\ Len(jobs') <= MaxJobs
<1>1. jobs \in Seq(Job) /\ i \in 1..Len(jobs) /\ Len(jobs) <= MaxJobs
  BY DEF TypeOK
<1>. QED BY <1>1, ExceptSeq

LEMMA HandleTyped ==
    ASSUME TypeOK, NEW i \in DOMAIN jobs, Handle(i)
    PROVE  TypeOK'
<1>0. /\ jobs \in Seq(Job) /\ jobs[i] \in Job /\ owed \in [Numbers -> Int]
      /\ ringingNumber \in Numbers \cup {NoNumber}
      /\ smooth \in BOOLEAN
  <2>1. jobs \in Seq(Job) /\ i \in 1..Len(jobs)
    BY DEF TypeOK
  <2>2. jobs[i] \in Job
    BY <2>1
  <2>. QED BY <2>1, <2>2 DEF TypeOK
<1>a. jobs[i].begun \/ jobs[i].state = "ringing" => jobs[i].number \in Numbers
  BY <1>0 DEF Job
<1>1. ASSUME Pick(i)
      PROVE  smooth' \in BOOLEAN /\ owed' \in [Numbers -> Int]
  <2>1. smooth' \in BOOLEAN
    BY <1>0, <1>1 DEF Pick
  <2>2. owed' \in [Numbers -> Int]
    BY <1>0, <1>1 DEF Pick
  <2>. QED BY <2>1, <2>2
<1>2. ASSUME NEW number \in Numbers, Begin(i, number)
      PROVE  jobs' \in Seq(Job) /\ Len(jobs') <= MaxJobs
  <2>1. PICK j : j = [jobs[i] EXCEPT !.begun = TRUE, !.number = number]
    OBVIOUS
  <2>2. j \in Job
    BY <1>0, <2>1, BegunTyped
  <2>3. jobs' = [jobs EXCEPT ![i] = j]
    BY <1>2, <2>1 DEF Begin
  <2>. QED BY <2>2, <2>3, ChangeTyped
<1>3. CASE BeginRinging(i)
  <2>1. PICK number : number = jobs[i].number
    OBVIOUS
  <2>2. number \in Numbers
    BY <1>3, <1>a, <2>1 DEF BeginRinging
  <2>3. Begin(i, number) /\ ringingNumber' = number /\ answered' = answered
    BY <1>3, <2>1 DEF BeginRinging
  <2>4. jobs' \in Seq(Job) /\ Len(jobs') <= MaxJobs
    BY <1>2, <2>2, <2>3
  <2>5. smooth' \in BOOLEAN /\ owed' \in [Numbers -> Int]
    BY <1>1, <2>3 DEF Begin
  <2>. QED BY <2>2, <2>3, <2>4, <2>5 DEF Begin, TypeOK, phone, rows, screening
<1>4. CASE EndRinging(i)
  <2>1. jobs' \in Seq(Job) /\ Len(jobs') <= MaxJobs
    BY <1>4, RemoveTyped DEF EndRinging, End
  <2>. QED BY <1>4, <2>1 DEF EndRinging, End, TypeOK, phone, rows, screening
<1>5. CASE Ignore(i)
  <2>1. jobs' \in Seq(Job) /\ Len(jobs') <= MaxJobs
    BY <1>5, RemoveTyped DEF Ignore
  <2>2. smooth' \in BOOLEAN /\ owed' \in [Numbers -> Int]
    BY <1>1, <1>5 DEF Ignore
  <2>. QED BY <1>5, <2>1, <2>2 DEF Ignore, TypeOK, phone, tracker, rows, screening
<1>6. CASE BeginOther(i)
  <2>1. PICK number : number = ringingNumber
    OBVIOUS
  <2>2. number \in Numbers /\ Begin(i, number)
    BY <1>0, <1>6, <2>1 DEF BeginOther
  <2>3. jobs' \in Seq(Job) /\ Len(jobs') <= MaxJobs
    BY <1>2, <2>2
  <2>4. smooth' \in BOOLEAN /\ owed' \in [Numbers -> Int]
    BY <1>1, <2>2 DEF Begin
  <2>. QED BY <1>6, <2>2, <2>3, <2>4 DEF BeginOther, Begin, TypeOK, phone, tracker, rows, screening
<1>7. CASE EndAnswered(i)
  <2>1. jobs' \in Seq(Job) /\ Len(jobs') <= MaxJobs
    BY <1>7, RemoveTyped DEF EndAnswered, End
  <2>2. recent' \in [Numbers -> 0..UrgentMin] /\ short' \in [Numbers -> 0..BlockMin]
    BY <1>0, <1>7, NoteTyped DEF EndAnswered
  <2>. QED BY <1>7, <2>1, <2>2 DEF EndAnswered, End, TypeOK, phone, screening
<1>8. CASE EndIdle(i)
  <2>1. jobs' \in Seq(Job) /\ Len(jobs') <= MaxJobs
    BY <1>8, RemoveTyped DEF EndIdle, End
  <2>2. CASE answered
    BY <1>8, <2>1, <2>2 DEF EndIdle, End, TypeOK, phone, rows, screening
  <2>3. CASE ~ answered
    <3>1. PICK n : n = jobs[i].number
      OBVIOUS
    <3>2. n \in Numbers /\ Note(n)
      BY <1>8, <1>a, <2>3, <3>1 DEF EndIdle
    <3>3. recent' \in [Numbers -> 0..UrgentMin] /\ short' \in [Numbers -> 0..BlockMin]
      BY <3>2, NoteTyped
    <3>4. owed' = IF smooth THEN [owed EXCEPT ![n] = @ - 1] ELSE owed
      BY <1>8, <2>3, <3>1 DEF EndIdle
    <3>5. owed' \in [Numbers -> Int]
      BY <1>0, <3>2, <3>4
    <3>. QED BY <1>8, <2>1, <3>3, <3>5 DEF EndIdle, End, TypeOK, phone, screening
  <2>. QED BY <2>2, <2>3
<1>. QED BY <1>3, <1>4, <1>5, <1>6, <1>7, <1>8 DEF Handle

\* Every step.
LEMMA StepTyped == TypeOK /\ Counted /\ [Next]_vars => TypeOK'
<1>. SUFFICES ASSUME TypeOK, Counted, [Next]_vars PROVE TypeOK'
  OBVIOUS
<1>1. CASE \/ \E n \in Numbers : Screen(n) \/ WriteRow(n)
           \/ PickUp \/ HangUp
  BY <1>1, LineTyped
<1>2. ASSUME NEW i \in DOMAIN jobs, Handle(i) PROVE TypeOK'
  BY <1>2, HandleTyped
<1>3. CASE Kill
  <2>1. jobs' \in Seq(Job) /\ Len(jobs') <= MaxJobs
    <3>1. jobs' = <<>>
      BY <1>3 DEF Kill
    <3>. QED BY <3>1, TrackerAssumption
  <2>2. calls' \in [Numbers -> Nat]
    <3>1. \A n \in Numbers : calls[n] - writing[n] \in Nat
      BY Bounds DEF Counted
    <3>. QED BY <1>3, <3>1 DEF Kill
  <2>3. ringingNumber' = NoNumber /\ answered' \in BOOLEAN /\ smooth' \in BOOLEAN
    BY <1>3 DEF Kill
  <2>4. writing' \in [Numbers -> Nat] /\ owed' \in [Numbers -> Int]
    BY <1>3 DEF Kill
  <2>. QED BY <1>3, <2>1, <2>2, <2>3, <2>4 DEF Kill, TypeOK, phone, rows
<1>4. CASE HourPasses
  <2>1. recent' \in [Numbers -> 0..UrgentMin] /\ calls' \in [Numbers -> Nat]
    BY <1>4, TrackerAssumption DEF HourPasses
  <2>. QED BY <1>4, <2>1 DEF HourPasses, TypeOK, phone, tracker, ghosts
<1>5. CASE UNCHANGED vars
  BY <1>5 DEF TypeOK, vars
<1>. QED BY <1>1, <1>2, <1>3, <1>4, <1>5 DEF Next

\* A row more never counts against the caller.
LEMMA NoteCounted ==
    ASSUME TypeOK, Counted, NEW n, Note(n), UNCHANGED screening
    PROVE  Counted'
<1>1. /\ writing' = writing /\ calls' = calls
      /\ recent' = [recent EXCEPT ![n] = UpTo(@, UrgentMin)]
  BY DEF Note, screening
<1>2. ASSUME NEW m \in Numbers
      PROVE  /\ writing'[m] <= calls'[m]
             /\ recent'[m] = UrgentMin \/ calls'[m] - writing'[m] <= recent'[m]
  <2>1. recent'[m] = recent[m] \/ recent'[m] = UpTo(recent[m], UrgentMin)
    BY <1>1, Bounds
  <2>. QED BY <1>1, <2>1, Bounds DEF Counted, UpTo
<1>. QED BY <1>2 DEF Counted

LEMMA StepCounted == TypeOK /\ Counted /\ [Next]_vars => Counted'
<1>. SUFFICES ASSUME TypeOK, Counted, [Next]_vars PROVE Counted'
  OBVIOUS
<1>0. ASSUME UNCHANGED <<recent, writing, calls>> PROVE Counted'
  BY <1>0 DEF Counted
<1>1. ASSUME NEW n \in Numbers, Screen(n) PROVE Counted'
  <2>1. /\ writing' = [writing EXCEPT ![n] = @ + 1] /\ calls' = [calls EXCEPT ![n] = @ + 1]
        /\ recent' = recent
    BY <1>1 DEF Screen, rows
  <2>2. \A m \in Numbers : /\ writing'[m] <= calls'[m]
                           /\ calls'[m] - writing'[m] = calls[m] - writing[m]
    BY <2>1, Bounds DEF Counted
  <2>. QED BY <2>1, <2>2 DEF Counted
<1>2. ASSUME NEW n \in Numbers, WriteRow(n) PROVE Counted'
  <2>1. /\ writing' = [writing EXCEPT ![n] = @ - 1] /\ calls' = calls /\ writing[n] > 0
        /\ recent' = [recent EXCEPT ![n] = UpTo(@, UrgentMin)]
    BY <1>2 DEF WriteRow
  <2>2. ASSUME NEW m \in Numbers
        PROVE  /\ writing'[m] <= calls'[m]
               /\ recent'[m] = UrgentMin \/ calls'[m] - writing'[m] <= recent'[m]
    <3>1. CASE m = n
      <4>1. writing'[m] = writing[m] - 1 /\ recent'[m] = UpTo(recent[m], UrgentMin)
        BY <2>1, <3>1, Bounds
      <4>. QED BY <2>1, <4>1, Bounds DEF Counted, UpTo
    <3>2. CASE m # n
      BY <2>1, <3>2, Bounds DEF Counted
    <3>. QED BY <3>1, <3>2
  <2>. QED BY <2>2 DEF Counted
<1>3. CASE PickUp
  BY <1>0, <1>3 DEF PickUp, rows, screening
<1>4. CASE HangUp
  BY <1>0, <1>4 DEF HangUp, rows, screening
<1>5. ASSUME NEW i \in DOMAIN jobs, Handle(i) PROVE Counted'
  <2>1. CASE BeginRinging(i) \/ EndRinging(i) \/ Ignore(i) \/ BeginOther(i)
    BY <1>0, <2>1
       DEF BeginRinging, EndRinging, Ignore, BeginOther, Begin, End, rows, screening
  <2>2. CASE EndAnswered(i)
    BY <2>2, NoteCounted DEF EndAnswered, End
  <2>3. CASE EndIdle(i)
    <3>1. CASE answered
      BY <1>0, <2>3, <3>1 DEF EndIdle, End, rows, screening
    <3>2. CASE ~ answered
      BY <2>3, <3>2, NoteCounted DEF EndIdle, End
    <3>. QED BY <3>1, <3>2
  <2>. QED BY <1>5, <2>1, <2>2, <2>3 DEF Handle
<1>6. CASE Kill
  <2>1. /\ recent' = recent /\ writing' = [n \in Numbers |-> 0]
        /\ calls' = [n \in Numbers |-> calls[n] - writing[n]]
    BY <1>6 DEF Kill, rows
  <2>. QED BY <2>1, Bounds DEF Counted
<1>7. CASE HourPasses
  <2>1. /\ recent' = [n \in Numbers |-> 0] /\ calls' = [n \in Numbers |-> 0]
        /\ writing' = writing /\ \A n \in Numbers : writing[n] = 0
    BY <1>7 DEF HourPasses
  <2>. QED BY <2>1 DEF Counted
<1>8. CASE UNCHANGED vars
  BY <1>0, <1>8 DEF vars
<1>. QED BY <1>1, <1>2, <1>3, <1>4, <1>5, <1>6, <1>7, <1>8 DEF Next

-----------------------------------------------------------------------------
(* Types, and urgent calls.                                                *)

\* IInv holds in every reachable state: it holds at first and every step keeps it.
THEOREM Inductive == Spec => []IInv
<1>1. Init => IInv
  BY InitInv
<1>2. IInv /\ [Next]_vars => IInv'
  BY StepTyped, StepCounted DEF IInv
<1>. QED BY <1>1, <1>2, PTL DEF Spec

\* A handler that has begun has a number, and no handler is beyond the bound.
THEOREM TypeCorrect == Spec => []TypeOK
<1>1. IInv => TypeOK
  BY DEF IInv
<1>. QED BY <1>1, Inductive, PTL

\* Layer 3 never blocks a number whose calls of the hour are urgent and recorded.
THEOREM UrgentSafe == Spec => []UrgentCallsPass
<1>1. IInv => UrgentCallsPass
  <2>. SUFFICES ASSUME IInv, NEW n \in Numbers, Layer3(n) = "block"
                PROVE  calls[n] - writing[n] < UrgentMin
    BY DEF UrgentCallsPass
  <2>1. recent[n] < UrgentMin
    BY Bounds DEF IInv, Layer3
  <2>. QED BY <2>1, Bounds DEF IInv, Counted
<1>. QED BY <1>1, Inductive, PTL

-----------------------------------------------------------------------------
(* Missed calls, while broadcasts are handled one by one and in order.     *)

\* Only the first coroutine has begun, and nobody changes the number under it.
OneByOne ==
    /\ \A i \in DOMAIN jobs : i > 1 => ~ jobs[i].begun
    /\ jobs # <<>> /\ jobs[1].begun => ringingNumber = jobs[1].number

\* The last broadcast, or what the tracker made of it, is the state of the line.
Told ==
    /\ line.state = "ringing" =>
          IF jobs = <<>> THEN ringingNumber = line.from /\ ~ answered
          ELSE jobs[Len(jobs)].state = "ringing" /\ jobs[Len(jobs)].number = line.from
    /\ line.state = "offhook" =>
          IF jobs = <<>> THEN answered \/ ringingNumber = NoNumber
          ELSE jobs[Len(jobs)].state = "offhook"
    /\ line.state = "idle" /\ jobs # <<>> => jobs[Len(jobs)].state = "idle"

\* When coroutine i comes first, the tracker is at a call of n that nobody answered.
Missed(i, n) ==
    IF i = 1 THEN ~ answered /\ ringingNumber = n
    ELSE jobs[i - 1].state = "ringing" /\ jobs[i - 1].number = n

\* The coroutines that will write a row for a missed call of n.
Owing(n) == {i \in DOMAIN jobs : jobs[i].state = "idle" /\ Missed(i, n)}

AllOwed == \A n \in Numbers : owed[n] = Cardinality(Owing(n))

InOrder == smooth => OneByOne /\ Told /\ AllOwed

-----------------------------------------------------------------------------
(* Coroutines in their order, one by one.                                  *)

\* What is broadcast comes last.
LEMMA Appended ==
    ASSUME TypeOK, NEW state, NEW number, NEW n \in Nat, Broadcast(state, number, n)
    PROVE  /\ DOMAIN jobs' = 1..Len(jobs) + n /\ Len(jobs') = Len(jobs) + n
           /\ DOMAIN jobs = 1..Len(jobs) /\ Len(jobs) \in Nat
           /\ \A i \in 1..Len(jobs) : jobs'[i] = jobs[i]
           /\ \A i \in Len(jobs) + 1..Len(jobs) + n :
                 /\ jobs'[i].state = state /\ jobs'[i].number = number
                 /\ ~ jobs'[i].begun
<1> DEFINE new == [state |-> state, number |-> number, begun |-> FALSE]
           more == [i \in 1..n |-> new]
<1>1. jobs \in Seq(Job) /\ Len(jobs) \in Nat
  BY DEF TypeOK
<1>2. jobs' = jobs \o more
  BY DEF Broadcast
<1>3. new.state = state /\ new.number = number /\ ~ new.begun
  OBVIOUS
<1>. HIDE DEF new
<1>4. more \in Seq({new}) /\ Len(more) = n /\ \A i \in 1..n : more[i] = new
  OBVIOUS
<1>. HIDE DEF more
<1>5. jobs \in Seq(Job \cup {new}) /\ more \in Seq(Job \cup {new})
  BY <1>1, <1>4
<1>6. /\ Len(jobs') = Len(jobs) + n /\ jobs' \in Seq(Job \cup {new})
      /\ \A i \in 1..Len(jobs) + n :
            jobs'[i] = IF i <= Len(jobs) THEN jobs[i] ELSE more[i - Len(jobs)]
  BY <1>1, <1>2, <1>4, <1>5, ConcatProperties
<1>7. \A i \in Len(jobs) + 1..Len(jobs) + n : jobs'[i] = new
  BY <1>1, <1>4, <1>6
<1>. QED BY <1>1, <1>3, <1>6, <1>7

\* The first one goes, the others move up.
LEMMA MovedUp ==
    ASSUME TypeOK, 1 \in DOMAIN jobs, jobs' = RemoveAt(jobs, 1)
    PROVE  /\ DOMAIN jobs = 1..Len(jobs) /\ Len(jobs) \in Nat \ {0}
           /\ DOMAIN jobs' = 1..Len(jobs) - 1 /\ Len(jobs') = Len(jobs) - 1
           /\ \A i \in 1..Len(jobs) - 1 : jobs'[i] = jobs[i + 1]
<1>0. jobs \in Seq(Job) /\ Len(jobs) \in Nat /\ Len(jobs) >= 1
  BY DEF TypeOK
<1>1. PICK n \in Nat : n >= 1 /\ n = Len(jobs)
  BY <1>0
<1> DEFINE rest == SubSeq(jobs, 2, n)
<1>2. jobs' = <<>> \o rest
  <2>1. SubSeq(jobs, 1, 0) = <<>>
    BY <1>0
  <2>. QED BY <1>1, <2>1 DEF RemoveAt
<1>3. /\ rest \in Seq(Job)
      /\ Len(rest) = (IF 2 <= n THEN n - 2 + 1 ELSE 0)
      /\ \A i \in 1..n - 2 + 1 : rest[i] = jobs[2 + i - 1]
  <2>1. \A i \in 2..n : jobs[i] \in Job
    BY <1>0, <1>1
  <2>. QED BY <1>1, <2>1, SubSeqProperties
<1>. HIDE DEF rest
<1>4. (IF 2 <= n THEN n - 2 + 1 ELSE 0) = n - 1
  BY <1>1
<1>5. \A i \in 1..n - 1 : i \in 1..n - 2 + 1 /\ 2 + i - 1 = i + 1
  BY <1>1
<1>6. \A i \in 1..n - 1 : rest[i] = jobs[i + 1]
  BY <1>3, <1>5
<1>7. jobs' = rest
  BY <1>2, <1>3
<1>8. DOMAIN jobs = 1..Len(jobs) /\ DOMAIN rest = 1..Len(rest)
  BY <1>0, <1>3
<1>. QED BY <1>1, <1>3, <1>4, <1>6, <1>7, <1>8

\* The first one begins.
LEMMA Begun ==
    ASSUME TypeOK, 1 \in DOMAIN jobs, NEW number, Begin(1, number)
    PROVE  /\ DOMAIN jobs = 1..Len(jobs) /\ Len(jobs) \in Nat \ {0}
           /\ DOMAIN jobs' = DOMAIN jobs /\ Len(jobs') = Len(jobs) /\ jobs' # <<>>
           /\ \A i \in DOMAIN jobs : /\ jobs'[i].state = jobs[i].state
                                     /\ i > 1 => jobs'[i] = jobs[i]
           /\ jobs'[1].number = number
<1>1. jobs \in Seq(Job) /\ Len(jobs) \in Nat /\ 1 \in 1..Len(jobs)
  BY DEF TypeOK
<1>2. PICK j : j = [jobs[1] EXCEPT !.begun = TRUE, !.number = number]
  OBVIOUS
<1>3. jobs' = [jobs EXCEPT ![1] = j]
  BY <1>2 DEF Begin
<1>4. j.state = jobs[1].state /\ j.number = number
  <2>1. jobs[1] \in [state : {"ringing", "offhook", "idle"}, begun : BOOLEAN,
                     number : Numbers \cup {NoNumber}]
    BY <1>1 DEF Job
  <2>. QED BY <1>2, <2>1
<1>5. DOMAIN jobs' = 1..Len(jobs) /\ Len(jobs') = Len(jobs)
  BY <1>1, <1>3
<1>6. jobs' # <<>>
  BY <1>1, <1>5
<1>7. \A i \in 1..Len(jobs) : jobs'[i] = IF i = 1 THEN j ELSE jobs[i]
  BY <1>1, <1>3
<1>. QED BY <1>1, <1>4, <1>5, <1>6, <1>7

-----------------------------------------------------------------------------
(* What is owed, coroutine by coroutine.                                   *)

LEMMA OwingFinite ==
    ASSUME TypeOK, NEW n
    PROVE  /\ Owing(n) \subseteq 1..Len(jobs) /\ IsFiniteSet(Owing(n))
           /\ Cardinality(Owing(n)) \in Nat
<1>1. DOMAIN jobs = 1..Len(jobs) /\ Len(jobs) \in Nat
  BY DEF TypeOK
<1>2. Owing(n) \in SUBSET (1..Len(jobs))
  BY <1>1 DEF Owing
<1>3. IsFiniteSet(1..Len(jobs))
  BY <1>1, FS_Interval
<1>4. IsFiniteSet(Owing(n))
  BY <1>2, <1>3, FS_Subset
<1>. QED BY <1>2, <1>4, FS_CardinalityType

\* Numbers that are all lowered by one are as many as before.
LEMMA Lowered ==
    ASSUME NEW S, IsFiniteSet(S), S \subseteq Int
    PROVE  Cardinality({i - 1 : i \in S}) = Cardinality(S)
<1> DEFINE f == [i \in S |-> i - 1]
<1>1. f \in Bijection(S, {i - 1 : i \in S})
  <2>1. f \in [S -> {i - 1 : i \in S}]
    OBVIOUS
  <2>2. \A i, j \in S : f[i] = f[j] => i = j
    OBVIOUS
  <2>3. \A k \in {i - 1 : i \in S} : \E i \in S : f[i] = k
    OBVIOUS
  <2>. HIDE DEF f
  <2>. QED BY <2>1, <2>2, <2>3 DEF Bijection, Injection, Surjection, IsInjective
<1>. HIDE DEF f
<1>. QED BY <1>1, FS_Bijection DEF ExistsBijection

\* When the first one goes and the tracker is at the second as was foreseen, only a
\* row of the first is not owed any more.
LEMMA OwingLessFirst ==
    ASSUME TypeOK, 1 \in DOMAIN jobs, jobs' = RemoveAt(jobs, 1), NEW n,
           2 \in DOMAIN jobs => (Missed(1, n)' <=> Missed(2, n))
    PROVE  Cardinality(Owing(n))' =
              IF 1 \in Owing(n) THEN Cardinality(Owing(n)) - 1 ELSE Cardinality(Owing(n))
<1>1. /\ DOMAIN jobs = 1..Len(jobs) /\ Len(jobs) \in Nat \ {0}
      /\ DOMAIN jobs' = 1..Len(jobs) - 1
      /\ \A i \in 1..Len(jobs) - 1 : jobs'[i] = jobs[i + 1]
  BY MovedUp
<1>2. ASSUME NEW i \in 1..Len(jobs) - 1
      PROVE  Missed(i, n)' <=> Missed(i + 1, n)
  <2>1. CASE i = 1
    BY <1>1, <2>1
  <2>2. CASE i # 1
    <3>1. i - 1 \in 1..Len(jobs) - 1 /\ i + 1 # 1 /\ (i - 1) + 1 = (i + 1) - 1
      BY <1>1, <2>2
    <3>. QED BY <1>1, <2>2, <3>1 DEF Missed
  <2>. QED BY <2>1, <2>2
<1> DEFINE rest == Owing(n) \ {1}
<1>3. Owing(n)' = {i - 1 : i \in rest}
  <2>1. \A i \in 1..Len(jobs) - 1 : i \in Owing(n)' <=> i + 1 \in rest
    <3>. SUFFICES ASSUME NEW i \in 1..Len(jobs) - 1
                  PROVE  i \in Owing(n)' <=> i + 1 \in rest
      OBVIOUS
    <3>1. i + 1 \in DOMAIN jobs /\ i + 1 # 1 /\ jobs'[i] = jobs[i + 1] /\ i \in DOMAIN jobs'
      BY <1>1
    <3>. QED BY <1>2, <3>1 DEF Owing
  <2>2. Owing(n)' \subseteq 1..Len(jobs) - 1
    BY <1>1 DEF Owing
  <2>3. rest \subseteq 2..Len(jobs)
    BY <1>1 DEF Owing
  <2>. HIDE DEF rest
  <2>. QED BY <1>1, <2>1, <2>2, <2>3
<1>4. /\ IsFiniteSet(rest) /\ rest \subseteq Int
      /\ Cardinality(rest) =
            IF 1 \in Owing(n) THEN Cardinality(Owing(n)) - 1 ELSE Cardinality(Owing(n))
  BY OwingFinite, FS_RemoveElement
<1>. HIDE DEF rest
<1>. QED BY <1>3, <1>4, Lowered

-----------------------------------------------------------------------------
(* What is owed, step by step.                                             *)

\* Coroutines that are there already owe what they owed.
LEMMA OwingKept ==
    ASSUME TypeOK, NEW n, DOMAIN jobs \subseteq DOMAIN jobs',
           UNCHANGED <<ringingNumber, answered>> \/ jobs[1].state # "idle",
           \A i \in DOMAIN jobs : jobs'[i].state = jobs[i].state,
           \A i \in DOMAIN jobs : jobs[i].state = "ringing" => jobs'[i].number = jobs[i].number,
           NEW i \in DOMAIN jobs
    PROVE  i \in Owing(n)' <=> i \in Owing(n)
<1>1. DOMAIN jobs = 1..Len(jobs) /\ Len(jobs) \in Nat
  BY DEF TypeOK
<1>2. i # 1 => i - 1 \in DOMAIN jobs
  BY <1>1
<1>. QED BY <1>2 DEF Owing, Missed

\* A call rings, or the user picks up: nothing more is owed.
LEMMA OwingNoMore ==
    ASSUME TypeOK, NEW state, state # "idle", NEW number, NEW k \in Nat,
           Broadcast(state, number, k), UNCHANGED <<ringingNumber, answered>>, NEW n
    PROVE  Owing(n)' = Owing(n)
<1>1. /\ DOMAIN jobs' = 1..Len(jobs) + k /\ DOMAIN jobs = 1..Len(jobs) /\ Len(jobs) \in Nat
      /\ \A i \in 1..Len(jobs) : jobs'[i] = jobs[i]
      /\ \A i \in Len(jobs) + 1..Len(jobs) + k : jobs'[i].state = state
  BY Appended
<1>2. DOMAIN jobs \subseteq DOMAIN jobs'
  BY <1>1
<1>3. \A i \in DOMAIN jobs : i \in Owing(n)' <=> i \in Owing(n)
  BY <1>1, <1>2, OwingKept
<1>4. \A i \in DOMAIN jobs' \ DOMAIN jobs : i \notin Owing(n)'
  <2>1. \A i \in DOMAIN jobs' \ DOMAIN jobs : jobs'[i].state # "idle"
    BY <1>1
  <2>. QED BY <2>1 DEF Owing
<1>5. Owing(n) \subseteq DOMAIN jobs /\ Owing(n)' \subseteq DOMAIN jobs'
  BY DEF Owing
<1>. QED BY <1>2, <1>3, <1>4, <1>5

\* Somebody hangs up: the first coroutine for it owes a row if the call still rang.
LEMMA OwingOneMore ==
    ASSUME TypeOK, Told, line # Free, NEW k \in Nat \ {0},
           Broadcast("idle", NoNumber, k), UNCHANGED <<ringingNumber, answered>>,
           NEW n \in Numbers
    PROVE  Owing(n)' = IF line.state = "ringing" /\ line.from = n
                       THEN Owing(n) \cup {Len(jobs) + 1} ELSE Owing(n)
<1>1. PICK L \in Nat : L = Len(jobs)
  BY DEF TypeOK
<1>2. /\ DOMAIN jobs' = 1..L + k /\ DOMAIN jobs = 1..L
      /\ \A i \in 1..L : jobs'[i] = jobs[i]
      /\ \A i \in L + 1..L + k : jobs'[i].state = "idle"
  <2>1. /\ DOMAIN jobs' = 1..Len(jobs) + k /\ DOMAIN jobs = 1..Len(jobs)
        /\ \A i \in 1..Len(jobs) : jobs'[i] = jobs[i]
        /\ \A i \in Len(jobs) + 1..Len(jobs) + k : jobs'[i].state = "idle"
    BY Appended
  <2>. QED BY <1>1, <2>1
<1>3. DOMAIN jobs \subseteq DOMAIN jobs'
  BY <1>1, <1>2
<1>4. \A i \in DOMAIN jobs : i \in Owing(n)' <=> i \in Owing(n)
  BY <1>2, <1>3, OwingKept
<1>5. \A i \in L + 2..L + k : i \notin Owing(n)'
  <2>. SUFFICES ASSUME NEW i \in L + 2..L + k PROVE ~ Missed(i, n)'
    BY DEF Owing
  <2>1. i # 1 /\ i - 1 \in L + 1..L + k
    BY <1>1
  <2>. QED BY <1>2, <2>1 DEF Missed
<1>6. L + 1 \in Owing(n)' <=> line.state = "ringing" /\ line.from = n
  <2>1. L + 1 \in 1..L + k /\ L + 1 \in L + 1..L + k
    BY <1>1
  <2>2. L + 1 \in Owing(n)' <=> Missed(L + 1, n)'
    BY <1>2, <2>1 DEF Owing
  <2>3. line.state \in {"ringing", "offhook"}
    BY DEF TypeOK, Line, Free
  <2>4. CASE L = 0
    <3>1. jobs = <<>>
      <4>1. jobs \in Seq(Job) /\ Len(jobs) = 0
        BY <1>1, <2>4 DEF TypeOK
      <4>. QED BY <4>1
    <3>2. Missed(L + 1, n)' <=> ~ answered /\ ringingNumber = n
      BY <2>4 DEF Missed
    <3>. QED BY <2>2, <2>3, <3>1, <3>2, TrackerAssumption DEF Told
  <2>5. CASE L > 0
    <3>1. jobs # <<>> /\ L + 1 # 1 /\ (L + 1) - 1 = L /\ L \in 1..L
      BY <1>1, <2>5
    <3>2. Missed(L + 1, n)' <=> jobs[L].state = "ringing" /\ jobs[L].number = n
      BY <1>2, <3>1 DEF Missed
    <3>. QED BY <1>1, <2>2, <2>3, <3>1, <3>2 DEF Told
  <2>. QED BY <1>1, <2>4, <2>5
<1>7. Owing(n) \subseteq 1..L /\ Owing(n)' \subseteq 1..L + k
  BY <1>2 DEF Owing
<1>8. Owing(n)' \ {L + 1} = Owing(n)
  <2>1. \A i \in 1..L + k : i \in 1..L \/ i = L + 1 \/ i \in L + 2..L + k
    BY <1>1
  <2>2. L + 1 \notin 1..L
    BY <1>1
  <2>. QED BY <1>2, <1>4, <1>5, <1>7, <2>1, <2>2
<1>. QED BY <1>1, <1>6, <1>8

-----------------------------------------------------------------------------
(* The line.                                                               *)

LEMMA InOrderAtFirst == Init => InOrder
<1>. SUFFICES ASSUME Init PROVE OneByOne /\ Told /\ AllOwed
  BY DEF InOrder
<1>1. jobs = <<>> /\ line.state = "idle" /\ owed = [n \in Numbers |-> 0]
  BY DEF Init, Free
<1>2. DOMAIN jobs = {}
  BY <1>1
<1>3. \A n \in Numbers : Cardinality(Owing(n)) = 0
  BY <1>2, FS_EmptySet DEF Owing
<1>. QED BY <1>1, <1>2, <1>3 DEF OneByOne, Told, AllOwed

\* A broadcast waits behind the others.
LEMMA OneByOneBroadcast ==
    ASSUME TypeOK, OneByOne, NEW state, NEW number, NEW k \in Nat \ {0},
           Broadcast(state, number, k), ringingNumber' = ringingNumber
    PROVE  /\ OneByOne' /\ jobs' # <<>>
           /\ jobs'[Len(jobs')].state = state /\ jobs'[Len(jobs')].number = number
<1>1. PICK L \in Nat : L = Len(jobs)
  BY DEF TypeOK
<1>2. /\ DOMAIN jobs' = 1..L + k /\ DOMAIN jobs = 1..L /\ Len(jobs') = L + k
      /\ \A i \in 1..L : jobs'[i] = jobs[i]
      /\ \A i \in L + 1..L + k : /\ jobs'[i].state = state /\ jobs'[i].number = number
                                 /\ ~ jobs'[i].begun
  <2>1. /\ DOMAIN jobs' = 1..Len(jobs) + k /\ DOMAIN jobs = 1..Len(jobs)
        /\ Len(jobs') = Len(jobs) + k
        /\ \A i \in 1..Len(jobs) : jobs'[i] = jobs[i]
        /\ \A i \in Len(jobs) + 1..Len(jobs) + k :
              jobs'[i].state = state /\ jobs'[i].number = number /\ ~ jobs'[i].begun
    BY Appended
  <2>. QED BY <1>1, <2>1
<1>3. L + k \in L + 1..L + k /\ \A i \in 1..L + k : i \in 1..L \/ i \in L + 1..L + k
  BY <1>1
<1>4. 1 \in 1..L => jobs # <<>>
  <2>1. jobs = <<>> => DOMAIN jobs = {}
    OBVIOUS
  <2>. QED BY <1>2, <2>1
<1>5. 1 \in 1..L + k /\ jobs' # <<>>
  <2>1. 1 \in 1..L + k
    BY <1>1
  <2>2. jobs' = <<>> => DOMAIN jobs' = {}
    OBVIOUS
  <2>. QED BY <1>2, <2>1, <2>2
<1>6. OneByOne'
  <2>1. \A i \in 1..L + k : i > 1 => ~ jobs'[i].begun
    BY <1>2, <1>3 DEF OneByOne
  <2>2. jobs'[1].begun => ringingNumber' = jobs'[1].number
    BY <1>2, <1>3, <1>4, <1>5 DEF OneByOne
  <2>. QED BY <1>2, <2>1, <2>2 DEF OneByOne
<1>. QED BY <1>2, <1>3, <1>5, <1>6

LEMMA InOrderLine ==
    ASSUME TypeOK, InOrder, smooth,
           \/ \E n \in Numbers : Screen(n) \/ WriteRow(n)
           \/ PickUp \/ HangUp \/ HourPasses \/ UNCHANGED vars
    PROVE  InOrder'
<1>0. OneByOne /\ Told /\ AllOwed /\ owed \in [Numbers -> Int]
  BY DEF InOrder, TypeOK
<1>1. ASSUME UNCHANGED <<line, jobs, ringingNumber, answered, owed>> PROVE InOrder'
  BY <1>0, <1>1 DEF InOrder, OneByOne, Told, AllOwed, Owing, Missed
<1>2. ASSUME NEW n \in Numbers, Screen(n) PROVE InOrder'
  <2>1. CASE UNCHANGED <<line, jobs>>
    BY <1>1, <1>2, <2>1 DEF Screen, tracker, ghosts
  <2>2. CASE line' = [state |-> "ringing", from |-> n] /\ Broadcast("ringing", n, 1)
    <3>1. UNCHANGED <<ringingNumber, answered, smooth, owed>>
      BY <1>2 DEF Screen, tracker, ghosts
    <3>2. OneByOne' /\ Told'
      BY <1>0, <2>2, <3>1, OneByOneBroadcast DEF Told
    <3>3. AllOwed'
      BY <1>0, <2>2, <3>1, OwingNoMore DEF AllOwed
    <3>. QED BY <3>2, <3>3 DEF InOrder
  <2>. QED BY <1>2, <2>1, <2>2 DEF Screen
<1>3. CASE PickUp
  <2>1. PICK k \in Copies : Broadcast("offhook", NoNumber, k)
    BY <1>3 DEF PickUp
  <2>2. /\ k \in Nat \ {0} /\ UNCHANGED <<ringingNumber, answered, smooth, owed>>
        /\ line'.state = "offhook"
    BY <1>3, TrackerAssumption DEF PickUp, tracker, ghosts, TypeOK, Line
  <2>3. OneByOne' /\ Told'
    BY <1>0, <2>1, <2>2, OneByOneBroadcast DEF Told
  <2>4. AllOwed'
    BY <1>0, <2>1, <2>2, OwingNoMore DEF AllOwed
  <2>. QED BY <2>3, <2>4 DEF InOrder
<1>4. CASE HangUp
  <2>1. PICK k \in Copies : Broadcast("idle", NoNumber, k)
    BY <1>4 DEF HangUp
  <2>2. /\ k \in Nat \ {0} /\ UNCHANGED <<ringingNumber, answered, smooth>> /\ line # Free
        /\ line'.state = "idle"
        /\ owed' = IF line.state = "ringing" THEN [owed EXCEPT ![line.from] = @ + 1] ELSE owed
    BY <1>4, TrackerAssumption DEF HangUp, tracker, Free
  <2>3. OneByOne' /\ Told'
    BY <1>0, <2>1, <2>2, OneByOneBroadcast DEF Told
  <2>4. ASSUME NEW n \in Numbers PROVE owed'[n] = Cardinality(Owing(n))'
    <3>1. Owing(n)' = IF line.state = "ringing" /\ line.from = n
                      THEN Owing(n) \cup {Len(jobs) + 1} ELSE Owing(n)
      BY <1>0, <2>1, <2>2, OwingOneMore
    <3>2. owed[n] = Cardinality(Owing(n))
      BY <1>0 DEF AllOwed
    <3>3. CASE line.state = "ringing" /\ line.from = n
      <4>1. Len(jobs) + 1 \notin Owing(n)
        <5>1. Len(jobs) \in Nat /\ Owing(n) \subseteq 1..Len(jobs)
          BY OwingFinite DEF TypeOK
        <5>. QED BY <5>1
      <4>2. Cardinality(Owing(n))' = Cardinality(Owing(n)) + 1
        BY <3>1, <3>3, <4>1, OwingFinite, FS_AddElement
      <4>3. owed'[n] = owed[n] + 1
        BY <1>0, <2>2, <3>3
      <4>. QED BY <3>2, <4>2, <4>3
    <3>4. CASE ~ (line.state = "ringing" /\ line.from = n)
      <4>1. owed'[n] = owed[n]
        BY <1>0, <2>2, <3>4
      <4>. QED BY <3>1, <3>2, <3>4, <4>1
    <3>. QED BY <3>3, <3>4
  <2>. QED BY <2>3, <2>4 DEF InOrder, AllOwed
<1>5. CASE \/ \E n \in Numbers : WriteRow(n)
           \/ HourPasses \/ UNCHANGED vars
  BY <1>1, <1>5 DEF WriteRow, HourPasses, vars, phone, tracker, ghosts
<1>. QED BY <1>2, <1>3, <1>4, <1>5

-----------------------------------------------------------------------------
(* The tracker.                                                            *)

\* The first coroutine begins.
LEMMA FrontBegins ==
    ASSUME TypeOK, OneByOne, Told, AllOwed, 1 \in DOMAIN jobs,
           NEW number, Begin(1, number), ringingNumber' = number, UNCHANGED <<answered, owed>>,
           \/ jobs[1].state = "ringing" /\ number = jobs[1].number
           \/ jobs[1].state # "ringing" /\ number = ringingNumber
    PROVE  OneByOne' /\ Told' /\ AllOwed'
<1>0. line' = line
  BY DEF Begin, phone
<1>1. PICK L \in Nat \ {0} : L = Len(jobs)
  BY Begun
<1>2. /\ DOMAIN jobs = 1..L /\ DOMAIN jobs' = 1..L /\ Len(jobs') = L /\ jobs' # <<>>
      /\ \A i \in 1..L : jobs'[i].state = jobs[i].state /\ (i > 1 => jobs'[i] = jobs[i])
      /\ jobs'[1].number = number
  <2>1. /\ DOMAIN jobs = 1..Len(jobs) /\ DOMAIN jobs' = DOMAIN jobs
        /\ Len(jobs') = Len(jobs) /\ jobs' # <<>>
        /\ \A i \in DOMAIN jobs : jobs'[i].state = jobs[i].state /\ (i > 1 => jobs'[i] = jobs[i])
        /\ jobs'[1].number = number
    BY Begun
  <2>. QED BY <1>1, <2>1
<1>3. OneByOne'
  <2>1. \A i \in 1..L : i > 1 => ~ jobs'[i].begun
    BY <1>2 DEF OneByOne
  <2>. QED BY <1>2, <2>1 DEF OneByOne
<1>4. \A i \in 1..L : jobs[i].state = "ringing" => jobs'[i].number = jobs[i].number
  <2>. SUFFICES ASSUME NEW i \in 1..L, jobs[i].state = "ringing"
                PROVE  jobs'[i].number = jobs[i].number
    OBVIOUS
  <2>1. CASE i = 1
    BY <1>2, <2>1
  <2>2. CASE i > 1
    BY <1>2, <2>2
  <2>. QED BY <2>1, <2>2
<1>5. Told'
  <2>1. L \in 1..L /\ jobs # <<>>
    <3>1. L \in 1..L
      OBVIOUS
    <3>2. jobs = <<>> => DOMAIN jobs = {}
      OBVIOUS
    <3>. QED BY <1>2, <3>1, <3>2
  <2>. QED BY <1>0, <1>1, <1>2, <1>4, <2>1 DEF Told
<1>6. ASSUME NEW n \in Numbers PROVE Owing(n)' = Owing(n)
  <2>1. UNCHANGED <<ringingNumber, answered>> \/ jobs[1].state # "idle"
    OBVIOUS
  <2>2. \A i \in DOMAIN jobs : i \in Owing(n)' <=> i \in Owing(n)
    BY <1>2, <1>4, <2>1, OwingKept
  <2>3. Owing(n) \subseteq DOMAIN jobs /\ Owing(n)' \subseteq DOMAIN jobs
    BY <1>2 DEF Owing
  <2>. QED BY <2>2, <2>3
<1>. QED BY <1>3, <1>5, <1>6 DEF AllOwed

\* The first coroutine ends: the tracker is at a missed call if it has announced one,
\* and the row that it owed, if any, is written.
LEMMA FrontEnds ==
    ASSUME TypeOK, TypeOK', OneByOne, Told, AllOwed, 1 \in DOMAIN jobs,
           jobs' = RemoveAt(jobs, 1), line' = line,
           \A n \in Numbers : ~ answered' /\ ringingNumber' = n
                              <=> jobs[1].state = "ringing" /\ jobs[1].number = n,
           \A n \in Numbers : owed'[n] = IF 1 \in Owing(n) THEN owed[n] - 1 ELSE owed[n]
    PROVE  OneByOne' /\ Told' /\ AllOwed'
<1>1. PICK L \in Nat \ {0} : L = Len(jobs)
  BY MovedUp
<1>2. /\ DOMAIN jobs = 1..L /\ DOMAIN jobs' = 1..L - 1 /\ Len(jobs') = L - 1
      /\ \A i \in 1..L - 1 : jobs'[i] = jobs[i + 1]
  <2>1. /\ DOMAIN jobs = 1..Len(jobs) /\ DOMAIN jobs' = 1..Len(jobs) - 1
        /\ Len(jobs') = Len(jobs) - 1
        /\ \A i \in 1..Len(jobs) - 1 : jobs'[i] = jobs[i + 1]
    BY MovedUp
  <2>. QED BY <1>1, <2>1
<1>3. \A i \in 1..L - 1 : ~ jobs'[i].begun
  <2>1. \A i \in 1..L - 1 : i + 1 \in 1..L /\ i + 1 > 1
    BY <1>1
  <2>. QED BY <1>2, <2>1 DEF OneByOne
<1>4. jobs # <<>> /\ (jobs' # <<>> => L > 1)
  <2>1. jobs = <<>> => DOMAIN jobs = {}
    OBVIOUS
  <2>2. 1 \in 1..L
    OBVIOUS
  <2>3. Len(jobs') = 0 => jobs' = <<>>
    BY DEF TypeOK
  <2>. QED BY <1>2, <2>1, <2>2, <2>3
<1>5. OneByOne'
  <2>1. jobs' # <<>> => 1 \in 1..L - 1
    BY <1>1, <1>4
  <2>. QED BY <1>2, <1>3, <2>1 DEF OneByOne
<1>6. Told'
  <2>1. CASE jobs' # <<>>
    <3>1. L - 1 \in 1..L - 1 /\ (L - 1) + 1 = L
      BY <1>1, <1>4, <2>1
    <3>2. jobs'[Len(jobs')] = jobs[Len(jobs)]
      BY <1>1, <1>2, <3>1
    <3>. QED BY <1>4, <2>1, <3>2 DEF Told
  <2>2. CASE jobs' = <<>>
    <3>1. Len(jobs) = 1
      <4>1. jobs' = <<>> => DOMAIN jobs' = {}
        OBVIOUS
      <4>2. L > 1 => 1 \in 1..L - 1
        BY <1>1
      <4>. QED BY <1>1, <1>2, <2>2, <4>1, <4>2
    <3>2. line.state = "ringing" => line.from \in Numbers
      <4>1. line \in Line
        BY DEF TypeOK
      <4>. QED BY <4>1 DEF Line
    <3>3. ringingNumber' \in Numbers \cup {NoNumber}
      BY DEF TypeOK
    <3>. QED BY <1>4, <2>2, <3>1, <3>2, <3>3 DEF Told
  <2>. QED BY <2>1, <2>2
<1>7. ASSUME NEW n \in Numbers PROVE owed'[n] = Cardinality(Owing(n))'
  <2>1. Missed(1, n)' <=> Missed(2, n)
    BY DEF Missed
  <2>2. Cardinality(Owing(n))' =
           IF 1 \in Owing(n) THEN Cardinality(Owing(n)) - 1 ELSE Cardinality(Owing(n))
    BY <2>1, OwingLessFirst
  <2>. QED BY <2>2 DEF AllOwed
<1>. QED BY <1>5, <1>6, <1>7 DEF AllOwed

LEMMA InOrderHandle ==
    ASSUME TypeOK, TypeOK', InOrder, NEW i \in DOMAIN jobs, Handle(i)
    PROVE  InOrder'
<1>. SUFFICES ASSUME smooth' PROVE OneByOne' /\ Told' /\ AllOwed'
  BY DEF InOrder
<1>1. smooth
  BY DEF Handle, BeginRinging, EndRinging, Ignore, BeginOther, EndAnswered, EndIdle, Begin,
         Pick, End
<1>2. OneByOne /\ Told /\ AllOwed
  BY <1>1 DEF InOrder
<1>3. i = 1
  <2>1. i \in Nat /\ i >= 1
    <3>1. jobs \in Seq(Job)
      BY DEF TypeOK
    <3>. QED BY <3>1
  <2>2. CASE jobs[i].begun
    BY <1>2, <2>1, <2>2 DEF OneByOne
  <2>3. CASE ~ jobs[i].begun
    BY <2>3 DEF Handle, BeginRinging, EndRinging, Ignore, BeginOther, EndAnswered, EndIdle,
                Begin, Pick
  <2>. QED BY <2>2, <2>3
<1>4. /\ 1 \in DOMAIN jobs /\ jobs # <<>>
      /\ jobs[1].state = "ringing" \/ jobs[1].begun => jobs[1].number \in Numbers
      /\ owed \in [Numbers -> Int] /\ ringingNumber \in Numbers \cup {NoNumber}
  <2>1. jobs \in Seq(Job) /\ 1 \in DOMAIN jobs
    BY <1>3 DEF TypeOK
  <2>2. jobs[1] \in Job
    BY <2>1
  <2>3. jobs = <<>> => DOMAIN jobs = {}
    OBVIOUS
  <2>. QED BY <2>1, <2>2, <2>3 DEF Job, TypeOK
<1>5. \A n \in Numbers :
         1 \in Owing(n) <=> jobs[1].state = "idle" /\ ~ answered /\ ringingNumber = n
  BY <1>4 DEF Owing, Missed
<1>6. CASE BeginRinging(1)
  BY <1>2, <1>4, <1>6, FrontBegins DEF BeginRinging, Begin, Pick
<1>7. CASE BeginOther(1)
  BY <1>2, <1>4, <1>7, FrontBegins DEF BeginOther, Begin, Pick, tracker
<1>8. CASE EndRinging(1)
  <2>1. /\ jobs' = RemoveAt(jobs, 1) /\ line' = line /\ ~ answered' /\ owed' = owed
        /\ ringingNumber' = jobs[1].number /\ jobs[1].state = "ringing"
    BY <1>2, <1>4, <1>8 DEF EndRinging, End, phone, OneByOne
  <2>. QED BY <1>2, <1>4, <1>5, <2>1, FrontEnds
<1>9. CASE Ignore(1)
  <2>1. /\ jobs' = RemoveAt(jobs, 1) /\ line' = line /\ owed' = owed
        /\ ringingNumber' = NoNumber /\ ringingNumber = NoNumber /\ jobs[1].state # "ringing"
    BY <1>9 DEF Ignore, Pick, phone, tracker
  <2>. QED BY <1>2, <1>4, <1>5, <2>1, FrontEnds, TrackerAssumption
<1>10. CASE EndAnswered(1)
  <2>1. /\ jobs' = RemoveAt(jobs, 1) /\ line' = line /\ owed' = owed
        /\ answered' /\ jobs[1].state = "offhook"
    BY <1>10 DEF EndAnswered, End, phone
  <2>. QED BY <1>2, <1>4, <1>5, <2>1, FrontEnds
<1>11. CASE EndIdle(1)
  <2>1. /\ jobs' = RemoveAt(jobs, 1) /\ line' = line
        /\ ringingNumber' = NoNumber /\ jobs[1].state = "idle"
        /\ ringingNumber = jobs[1].number
        /\ owed' = IF answered THEN owed ELSE [owed EXCEPT ![jobs[1].number] = @ - 1]
    BY <1>1, <1>2, <1>4, <1>11 DEF EndIdle, End, phone, OneByOne
  <2>2. \A n \in Numbers : owed'[n] = IF 1 \in Owing(n) THEN owed[n] - 1 ELSE owed[n]
    BY <1>4, <1>5, <2>1
  <2>. QED BY <1>2, <1>4, <2>1, <2>2, FrontEnds, TrackerAssumption
<1>. QED BY <1>3, <1>6, <1>7, <1>8, <1>9, <1>10, <1>11 DEF Handle

\* Every step.
LEMMA StepInOrder == TypeOK /\ TypeOK' /\ InOrder /\ [Next]_vars => InOrder'
<1>. SUFFICES ASSUME TypeOK, TypeOK', InOrder, [Next]_vars PROVE InOrder'
  OBVIOUS
<1>1. CASE ~ smooth
  <2>1. ~ smooth'
    BY <1>1 DEF Next, Screen, WriteRow, PickUp, HangUp, Kill, HourPasses, Handle, BeginRinging,
                EndRinging, Ignore, BeginOther, EndAnswered, EndIdle, Begin, Pick, End, vars,
                ghosts
  <2>. QED BY <2>1 DEF InOrder
<1>2. CASE smooth
  <2>1. CASE \/ \E n \in Numbers : Screen(n) \/ WriteRow(n)
             \/ PickUp \/ HangUp \/ HourPasses \/ UNCHANGED vars
    BY <1>2, <2>1, InOrderLine
  <2>2. ASSUME NEW i \in DOMAIN jobs, Handle(i) PROVE InOrder'
    BY <2>2, InOrderHandle
  <2>3. CASE Kill
    BY <2>3 DEF Kill, InOrder
  <2>. QED BY <2>1, <2>2, <2>3 DEF Next
<1>. QED BY <1>1, <1>2

\* As long as broadcasts are handled one by one and in order, each call that was not
\* answered has one row when all is quiet, for any number of callers and however often
\* a broadcast comes (CallStateReceiver.kt:19).
THEOREM MissesSafe == Spec => []EveryMissIsNoted
<1>1. InOrder => EveryMissIsNoted
  <2>. SUFFICES ASSUME InOrder, smooth, jobs = <<>>, NEW n \in Numbers PROVE owed[n] = 0
    BY DEF EveryMissIsNoted
  <2>1. Owing(n) = {}
    BY DEF Owing
  <2>. QED BY <2>1, FS_EmptySet DEF InOrder, AllOwed
<1>2. Init => InOrder
  BY InOrderAtFirst
<1>3. TypeOK /\ TypeOK' /\ InOrder /\ [Next]_vars => InOrder'
  BY StepInOrder
<1>. QED BY <1>1, <1>2, <1>3, TypeCorrect, PTL DEF Spec
=============================================================================

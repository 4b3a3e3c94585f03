------------------------------ MODULE LogProofs ------------------------------
(***************************************************************************)
(* Proofs about the logs of calls: first about Partitions, in which the    *)
(* server keeps them, then about UploadQueue, by which they get there.     *)
(* Overlapping runs never split partitions in the wrong order, this month  *)
(* and the next have theirs while the server is on, and dropping takes all *)
(* old rows and no young ones.  A log leaves its device only when it is    *)
(* stored, and is stored twice only after an interruption.                 *)
(***************************************************************************)
EXTENDS Partitions, UploadQueue, FiniteSetTheorems, TLAPS

\* No run lasts for longer than a month, and a server that is on is at most a month
\* behind with its partitions.
Clock ==
    /\ \A j \in Workers :
          job[j].phase # "idle" => job[j].now >= 0 /\ job[j].now \in {month - 1, month}
    /\ ensured <= month /\ swept <= month
    /\ up => ensured >= 0 /\ month - 1 <= ensured

\* What was ensured is there unless it is old.
Made ==
    ensured >= 0 =>
        \A p \in Targets(ensured) : p >= month - KeepMonths => p \in parts

\* What a worker does not find missing any more is there.
Progress ==
    \A j \in Workers :
        job[j].phase = "add" => \A p \in Targets(job[j].now) : p \in parts \/ p \in job[j].todo

\* From month m on there are no gaps between partitions.
Whole(m) == \A p \in Int, q \in parts : m <= p /\ p < q => p \in parts

\* There are none among the months that a run now or later wants to make.
NoGaps ==
    /\ Whole(month - MonthsBack)
    /\ \A j \in Workers : job[j].phase \in {"ensure", "add"} => Whole(job[j].now - MonthsBack)

\* A run that has seen the end of a month has no need of the first partition.
Overtaken ==
    \A j \in Workers :
        up /\ job[j].phase \in {"ensure", "add"} /\ job[j].now < month =>
            job[j].now - MonthsBack \in parts

\* A row that is not dated later than it was uploaded is in a partition that is not
\* later either.
Housed == \A r \in rows : r.call <= r.stored => \E p \in parts : r.call <= p /\ p <= r.stored

\* A worker drops the partitions before its cutoff and no others.
Cutoff ==
    \A j \in Workers :
        job[j].phase = "drop" => /\ \A p \in job[j].todo : p < job[j].now - KeepMonths
                                 /\ \A p \in parts : p < job[j].now - KeepMonths => p \in job[j].todo

IInv == /\ TypeOK /\ Clock /\ Made /\ Progress /\ NoGaps /\ Overtaken
        /\ Housed /\ Cutoff /\ OldRowsGo

-----------------------------------------------------------------------------
(* Partitions: the properties that follow.                                 *)

LEMMA InvSplits == IInv => SplitsInOrder
<1>. SUFFICES ASSUME IInv, NEW j \in Workers, job[j].phase = "add", NEW p \in job[j].todo,
                     p \notin parts, NEW q \in parts
              PROVE  q < p
  BY DEF SplitsInOrder, Splits
<1>1. p \in Targets(job[j].now) /\ parts \in SUBSET Int /\ job[j].now \in Int
  BY DEF IInv, TypeOK, Job
<1>2. p \in Int /\ q \in Int /\ job[j].now - MonthsBack <= p
  BY <1>1, PartitionsAssumption DEF Targets
<1>3. Whole(job[j].now - MonthsBack)
  BY DEF IInv, NoGaps
<1>. QED BY <1>2, <1>3 DEF Whole

LEMMA InvMonths == IInv => MonthHasPartition
<1>. SUFFICES ASSUME IInv, up PROVE {month, month + 1} \subseteq parts
  BY DEF MonthHasPartition
<1>1. /\ month \in Nat /\ ensured \in Int
      /\ 0 <= ensured /\ month - 1 <= ensured /\ ensured <= month
  BY PartitionsAssumption DEF IInv, TypeOK, Clock
<1>2. \A p \in Targets(ensured) : p >= month - KeepMonths => p \in parts
  BY <1>1 DEF IInv, Made
<1>3. month \in Targets(ensured) /\ month + 1 \in Targets(ensured)
  BY <1>1, PartitionsAssumption DEF Targets
<1>. QED BY <1>1, <1>2, <1>3, PartitionsAssumption

-----------------------------------------------------------------------------
(* Partitions: types.                                                      *)

LEMMA InitInv == Init => IInv
<1>. SUFFICES ASSUME Init PROVE IInv
  OBVIOUS
<1>1. TypeOK
  <2>1. -1 \in Int /\ -KeepMonths \in Int /\ 0 \in 0..LastMonth /\ Idle \in Job
    BY PartitionsAssumption DEF Idle, Job
  <2>2. Busy = {}
    BY DEF Init, Busy, Idle
  <2>. QED BY <2>1, <2>2 DEF Init, TypeOK, Idle
<1>2. Clock
  BY PartitionsAssumption DEF Init, Clock, Idle
<1>3. Made /\ Progress /\ NoGaps /\ Overtaken
  BY DEF Init, Made, Progress, NoGaps, Whole, Overtaken, Idle
<1>4. Housed /\ Cutoff /\ OldRowsGo
  BY DEF Init, Housed, Cutoff, OldRowsGo, Idle
<1>. QED BY <1>1, <1>2, <1>3, <1>4 DEF IInv

LEMMA TargetsInt ==
    ASSUME NEW n \in Int
    PROVE  /\ Targets(n) \in SUBSET Int
           /\ \A p \in Int : p \in Targets(n) <=> n - MonthsBack <= p /\ p <= n + MonthsAhead
BY PartitionsAssumption DEF Targets

LEMMA StartStep ==
    ASSUME IInv, Start
    PROVE  IInv'
<1>0. /\ TypeOK /\ job \in [Workers -> Job] /\ parts \in SUBSET Int
      /\ month \in Nat /\ StartUp \in Workers
  BY PartitionsAssumption DEF IInv, TypeOK
<1>1. TypeOK'
  BY <1>0, TargetsInt DEF TypeOK, Start, Idle, Job, Busy, Old
<1>2. Clock'
  BY <1>0 DEF IInv, Clock, Start, Idle, Job
<1>3. Made'
  BY DEF IInv, Made, Start
<1>4. Progress'
  BY <1>0 DEF IInv, Progress, Start, Idle, Job
<1>5. NoGaps'
  BY <1>0 DEF IInv, NoGaps, Start, Idle, Job, Whole
<1>6. Overtaken'
  BY <1>0 DEF IInv, Overtaken, Start, Idle, Job
<1>7. Housed' /\ OldRowsGo'
  BY DEF IInv, Housed, OldRowsGo, Start
<1>8. Cutoff'
  BY <1>0 DEF IInv, Cutoff, Start, Idle, Job, Old
<1>. QED BY <1>1, <1>2, <1>3, <1>4, <1>5, <1>6, <1>7, <1>8 DEF IInv

LEMMA BeginStep ==
    ASSUME IInv, NEW j \in Workers, Begin(j)
    PROVE  IInv'
<1>0. /\ TypeOK /\ job \in [Workers -> Job] /\ parts \in SUBSET Int
      /\ month \in Nat /\ StartUp \in Workers
  BY PartitionsAssumption DEF IInv, TypeOK
<1>1. TypeOK'
  BY <1>0, TargetsInt DEF TypeOK, Begin, Idle, Job, Busy, Old
<1>2. Clock'
  BY <1>0 DEF IInv, Clock, Begin, Idle, Job
<1>3. Made'
  BY DEF IInv, Made, Begin
<1>4. Progress'
  BY <1>0 DEF IInv, Progress, Begin, Idle, Job
<1>5. NoGaps'
  BY <1>0 DEF IInv, NoGaps, Begin, Idle, Job, Whole
<1>6. Overtaken'
  BY <1>0 DEF IInv, Overtaken, Begin, Idle, Job
<1>7. Housed' /\ OldRowsGo'
  BY DEF IInv, Housed, OldRowsGo, Begin
<1>8. Cutoff'
  BY <1>0 DEF IInv, Cutoff, Begin, Idle, Job, Old
<1>. QED BY <1>1, <1>2, <1>3, <1>4, <1>5, <1>6, <1>7, <1>8 DEF IInv

LEMMA LookStep ==
    ASSUME IInv, NEW j \in Workers, Look(j)
    PROVE  IInv'
<1>0. /\ TypeOK /\ job \in [Workers -> Job] /\ parts \in SUBSET Int
      /\ month \in Nat /\ StartUp \in Workers
  BY PartitionsAssumption DEF IInv, TypeOK
<1>1. TypeOK'
  BY <1>0, TargetsInt DEF TypeOK, Look, Idle, Job, Busy, Old
<1>2. Clock'
  BY <1>0 DEF IInv, Clock, Look, Idle, Job
<1>3. Made'
  BY DEF IInv, Made, Look
<1>4. Progress'
  BY <1>0 DEF IInv, Progress, Look, Idle, Job
<1>5. NoGaps'
  BY <1>0 DEF IInv, NoGaps, Look, Idle, Job, Whole
<1>6. Overtaken'
  BY <1>0 DEF IInv, Overtaken, Look, Idle, Job
<1>7. Housed' /\ OldRowsGo'
  BY DEF IInv, Housed, OldRowsGo, Look
<1>8. Cutoff'
  BY <1>0 DEF IInv, Cutoff, Look, Idle, Job, Old
<1>. QED BY <1>1, <1>2, <1>3, <1>4, <1>5, <1>6, <1>7, <1>8 DEF IInv

LEMMA AddFailsStep ==
    ASSUME IInv, NEW j \in Workers, AddFails(j)
    PROVE  IInv'
<1>0. /\ TypeOK /\ job \in [Workers -> Job] /\ parts \in SUBSET Int
      /\ month \in Nat /\ StartUp \in Workers
  BY PartitionsAssumption DEF IInv, TypeOK
<1>1. TypeOK'
  BY <1>0, TargetsInt DEF TypeOK, AddFails, Idle, Job, Busy, Old
<1>2. Clock'
  BY <1>0 DEF IInv, Clock, AddFails, Idle, Job
<1>3. Made'
  BY DEF IInv, Made, AddFails
<1>4. Progress'
  BY <1>0 DEF IInv, Progress, AddFails, Idle, Job
<1>5. NoGaps'
  BY <1>0 DEF IInv, NoGaps, AddFails, Idle, Job, Whole
<1>6. Overtaken'
  BY <1>0 DEF IInv, Overtaken, AddFails, Idle, Job
<1>7. Housed' /\ OldRowsGo'
  BY DEF IInv, Housed, OldRowsGo, AddFails
<1>8. Cutoff'
  BY <1>0 DEF IInv, Cutoff, AddFails, Idle, Job, Old
<1>. QED BY <1>1, <1>2, <1>3, <1>4, <1>5, <1>6, <1>7, <1>8 DEF IInv

LEMMA LookOldStep ==
    ASSUME IInv, NEW j \in Workers, LookOld(j)
    PROVE  IInv'
<1>0. /\ TypeOK /\ job \in [Workers -> Job] /\ parts \in SUBSET Int
      /\ month \in Nat /\ StartUp \in Workers
  BY PartitionsAssumption DEF IInv, TypeOK
<1>1. TypeOK'
  <2>1. Old(job[j].now) \in SUBSET Int
    BY <1>0 DEF Old
  <2>2. job' \in [Workers -> Job]
    BY <1>0, <2>1 DEF LookOld, Job
  <2>3. \A k \in Workers :
            /\ job'[k].phase \in {"idle", "ensure", "cut"} => job'[k].todo = {}
            /\ job'[k].phase = "add" => job'[k].todo \subseteq Targets(job'[k].now)
    BY <1>0 DEF TypeOK, LookOld, Job
  <2>4. Busy' = Busy
    BY <1>0 DEF LookOld, Job, Busy
  <2>. QED BY <1>0, <2>2, <2>3, <2>4 DEF TypeOK, LookOld
<1>2. Clock'
  BY <1>0 DEF IInv, Clock, LookOld, Idle, Job
<1>3. Made'
  BY DEF IInv, Made, LookOld
<1>4. Progress'
  BY <1>0 DEF IInv, Progress, LookOld, Idle, Job
<1>5. NoGaps'
  BY <1>0 DEF IInv, NoGaps, LookOld, Idle, Job, Whole
<1>6. Overtaken'
  BY <1>0 DEF IInv, Overtaken, LookOld, Idle, Job
<1>7. Housed' /\ OldRowsGo'
  BY DEF IInv, Housed, OldRowsGo, LookOld
<1>8. Cutoff'
  BY <1>0 DEF IInv, Cutoff, LookOld, Idle, Job, Old
<1>. QED BY <1>1, <1>2, <1>3, <1>4, <1>5, <1>6, <1>7, <1>8 DEF IInv

LEMMA DropFailsStep ==
    ASSUME IInv, NEW j \in Workers, DropFails(j)
    PROVE  IInv'
<1>0. /\ TypeOK /\ job \in [Workers -> Job] /\ parts \in SUBSET Int
      /\ month \in Nat /\ StartUp \in Workers
  BY PartitionsAssumption DEF IInv, TypeOK
<1>1. TypeOK'
  BY <1>0, TargetsInt DEF TypeOK, DropFails, Idle, Job, Busy, Old
<1>2. Clock'
  BY <1>0 DEF IInv, Clock, DropFails, Idle, Job
<1>3. Made'
  BY DEF IInv, Made, DropFails
<1>4. Progress'
  BY <1>0 DEF IInv, Progress, DropFails, Idle, Job
<1>5. NoGaps'
  BY <1>0 DEF IInv, NoGaps, DropFails, Idle, Job, Whole
<1>6. Overtaken'
  BY <1>0 DEF IInv, Overtaken, DropFails, Idle, Job
<1>7. Housed' /\ OldRowsGo'
  BY DEF IInv, Housed, OldRowsGo, DropFails
<1>8. Cutoff'
  BY <1>0 DEF IInv, Cutoff, DropFails, Idle, Job, Old
<1>. QED BY <1>1, <1>2, <1>3, <1>4, <1>5, <1>6, <1>7, <1>8 DEF IInv

LEMMA AddedStep ==
    ASSUME IInv, NEW j \in Workers, Added(j)
    PROVE  IInv'
<1>0. /\ TypeOK /\ job \in [Workers -> Job] /\ parts \in SUBSET Int
      /\ month \in Nat /\ ensured \in Int /\ swept \in Int
      /\ rows \subseteq [call : Int, stored : 0..month]
  BY PartitionsAssumption DEF IInv, TypeOK
<1>1. TypeOK'
  <2>1. job' \in [Workers -> Job]
    BY <1>0 DEF Added, Idle, Job
  <2>2. \A k \in Workers :
            /\ job'[k].phase \in {"idle", "ensure", "cut"} => job'[k].todo = {}
            /\ job'[k].phase = "add" => job'[k].todo \subseteq Targets(job'[k].now)
    BY <1>0 DEF TypeOK, Added, Idle, Job
  <2>3. Busy' \subseteq Workers \ {StartUp}
    BY <1>0 DEF TypeOK, Added, Idle, Job, Busy
  <2>4. ensured' \in Int
    BY <1>0 DEF Added, Later, Job
  <2>. QED BY <1>0, <2>1, <2>2, <2>3, <2>4 DEF TypeOK, Added
<1>2. Clock'
  <2>1. job[j].now \in {month - 1, month} /\ job[j].now \in Int /\ job[j].now >= 0
    BY <1>0 DEF IInv, Clock, Added, Job
  <2>2. \A k \in Workers : job'[k].phase # "idle" =>
            job'[k].now >= 0 /\ job'[k].now \in {month - 1, month}
    BY <1>0 DEF IInv, Clock, Added, Idle, Job
  <2>3. ensured' <= month /\ month - 1 <= ensured'
    BY <1>0, <2>1 DEF IInv, Clock, Added, Later
  <2>4. ensured' >= 0
    BY <1>0, <2>1 DEF IInv, Clock, Added, Later
  <2>. QED BY <1>0, <2>2, <2>3, <2>4 DEF IInv, Clock, Added
<1>3. Made'
  BY <1>0, PartitionsAssumption DEF IInv, Made, Progress, Added, Job, Later
<1>4. Progress'
  BY <1>0 DEF IInv, Progress, Added, Idle, Job
<1>5. NoGaps'
  BY <1>0 DEF IInv, NoGaps, Whole, Added, Idle, Job
<1>6. Overtaken'
  BY <1>0 DEF IInv, TypeOK, Busy, Overtaken, Added, Idle, Job
<1>7. Housed'
  BY DEF IInv, Housed, Added
<1>8. Cutoff'
  BY <1>0 DEF IInv, Cutoff, Added, Idle, Job
<1>9. OldRowsGo'
  BY DEF IInv, OldRowsGo, Added
<1>. QED BY <1>1, <1>2, <1>3, <1>4, <1>5, <1>6, <1>7, <1>8, <1>9 DEF IInv

LEMMA DroppedStep ==
    ASSUME IInv, NEW j \in Workers, Dropped(j)
    PROVE  IInv'
<1>0. /\ TypeOK /\ job \in [Workers -> Job] /\ parts \in SUBSET Int
      /\ month \in Nat /\ ensured \in Int /\ swept \in Int
      /\ rows \subseteq [call : Int, stored : 0..month]
  BY PartitionsAssumption DEF IInv, TypeOK
<1>1. TypeOK'
  BY <1>0, PartitionsAssumption DEF TypeOK, Dropped, Idle, Job, Busy, Later
<1>2. Clock'
  BY <1>0, PartitionsAssumption DEF IInv, Clock, Dropped, Idle, Job, Later
<1>3. Made'
  BY DEF IInv, Made, Dropped
<1>4. Progress'
  BY <1>0 DEF IInv, Progress, Dropped, Idle, Job
<1>5. NoGaps'
  BY <1>0 DEF IInv, NoGaps, Whole, Dropped, Idle, Job
<1>6. Overtaken'
  BY <1>0 DEF IInv, Overtaken, Dropped, Idle, Job
<1>7. Housed'
  BY DEF IInv, Housed, Dropped
<1>8. Cutoff'
  BY <1>0 DEF IInv, Cutoff, Dropped, Idle, Job
<1>9. OldRowsGo'
  BY <1>0, PartitionsAssumption DEF IInv, OldRowsGo, Housed, Cutoff, Dropped, Job, Later
<1>. QED BY <1>1, <1>2, <1>3, <1>4, <1>5, <1>6, <1>7, <1>8, <1>9 DEF IInv

LEMMA TickStep ==
    ASSUME IInv, NEW n \in 1..LastMonth, Tick(n)
    PROVE  IInv'
<1>0. /\ TypeOK /\ job \in [Workers -> Job] /\ parts \in SUBSET Int
      /\ month \in Nat /\ ensured \in Int /\ swept \in Int
      /\ rows \subseteq [call : Int, stored : 0..month]
  BY PartitionsAssumption DEF IInv, TypeOK
<1>1. TypeOK'
  BY <1>0, PartitionsAssumption DEF TypeOK, Tick, Busy
<1>2. Clock'
  BY <1>0, PartitionsAssumption DEF IInv, TypeOK, Clock, Tick, Busy
<1>3. Made'
  BY <1>0, PartitionsAssumption, TargetsInt DEF IInv, Made, Tick
<1>4. Progress'
  BY DEF IInv, Progress, Tick
<1>5. NoGaps'
  BY <1>0, PartitionsAssumption DEF IInv, NoGaps, Whole, Tick
<1>6. Overtaken'
  BY <1>0, PartitionsAssumption, TargetsInt DEF IInv, Clock, Made, Overtaken, Tick, Busy
<1>7. Housed'
  BY DEF IInv, Housed, Tick
<1>8. Cutoff'
  BY DEF IInv, Cutoff, Tick
<1>9. OldRowsGo'
  BY DEF IInv, OldRowsGo, Tick
<1>. QED BY <1>1, <1>2, <1>3, <1>4, <1>5, <1>6, <1>7, <1>8, <1>9 DEF IInv

LEMMA StopStep ==
    ASSUME IInv, Stop
    PROVE  IInv'
<1>0. /\ TypeOK /\ job \in [Workers -> Job] /\ parts \in SUBSET Int
      /\ month \in Nat /\ ensured \in Int /\ swept \in Int
      /\ rows \subseteq [call : Int, stored : 0..month]
  BY PartitionsAssumption DEF IInv, TypeOK
<1>1. TypeOK'
  <2>1. Idle \in Job
    BY DEF Idle, Job
  <2>2. Busy' = {}
    BY DEF Stop, Busy, Idle
  <2>. QED BY <1>0, <2>1, <2>2 DEF TypeOK, Stop, Idle
<1>2. Clock'
  BY DEF IInv, Clock, Stop, Idle
<1>3. Made'
  BY DEF IInv, Made, Stop
<1>4. Progress'
  BY DEF IInv, Progress, Stop, Idle
<1>5. NoGaps'
  BY DEF IInv, NoGaps, Whole, Stop, Idle
<1>6. Overtaken'
  BY DEF IInv, Overtaken, Stop, Idle
<1>7. Housed'
  BY DEF IInv, Housed, Stop
<1>8. Cutoff'
  BY DEF IInv, Cutoff, Stop, Idle
<1>9. OldRowsGo'
  BY DEF IInv, OldRowsGo, Stop
<1>. QED BY <1>1, <1>2, <1>3, <1>4, <1>5, <1>6, <1>7, <1>8, <1>9 DEF IInv

LEMMA UploadStep ==
    ASSUME IInv, NEW call \in Int, Upload(call)
    PROVE  IInv'
<1>0. /\ TypeOK /\ job \in [Workers -> Job] /\ parts \in SUBSET Int
      /\ month \in Nat /\ ensured \in Int /\ swept \in Int
      /\ rows \subseteq [call : Int, stored : 0..month]
  BY PartitionsAssumption DEF IInv, TypeOK
<1>1. TypeOK'
  BY <1>0, PartitionsAssumption DEF TypeOK, Upload, Busy
<1>2. Clock'
  BY DEF IInv, Clock, Upload
<1>3. Made'
  BY DEF IInv, Made, Upload
<1>4. Progress'
  BY DEF IInv, Progress, Upload
<1>5. NoGaps'
  BY DEF IInv, NoGaps, Whole, Upload
<1>6. Overtaken'
  BY DEF IInv, Overtaken, Upload
<1>7. Housed'
  BY <1>0, InvMonths DEF IInv, Housed, MonthHasPartition, Upload
<1>8. Cutoff'
  BY DEF IInv, Cutoff, Upload
<1>9. OldRowsGo'
  BY <1>0 DEF IInv, Clock, OldRowsGo, Upload
<1>. QED BY <1>1, <1>2, <1>3, <1>4, <1>5, <1>6, <1>7, <1>8, <1>9 DEF IInv

LEMMA DropStep ==
    ASSUME IInv, NEW j \in Workers, Drop(j)
    PROVE  IInv'
<1>0. /\ TypeOK /\ job \in [Workers -> Job] /\ parts \in SUBSET Int
      /\ month \in Nat /\ ensured \in Int /\ swept \in Int
      /\ rows \subseteq [call : Int, stored : 0..month]
  BY PartitionsAssumption DEF IInv, TypeOK
<1>1. TypeOK'
  BY <1>0 DEF TypeOK, Drop, Job, Busy
<1>2. Clock'
  BY <1>0 DEF IInv, Clock, Drop, Job
<1>3. Made'
  BY <1>0, PartitionsAssumption DEF IInv, Clock, Cutoff, Made, Drop, Job
<1>4. Progress'
  BY <1>0, PartitionsAssumption, TargetsInt DEF IInv, Clock, Cutoff, Progress, Drop, Job
<1>5. NoGaps'
  BY <1>0, PartitionsAssumption DEF IInv, Clock, Cutoff, NoGaps, Whole, Drop, Job
<1>6. Overtaken'
  BY <1>0, PartitionsAssumption DEF IInv, Clock, Cutoff, Overtaken, Drop, Job
<1>7. Housed'
  BY <1>0 DEF IInv, Housed, Drop, InPartition
<1>8. Cutoff'
  BY <1>0 DEF IInv, Cutoff, Drop, Job
<1>9. OldRowsGo'
  BY DEF IInv, OldRowsGo, Drop
<1>. QED BY <1>1, <1>2, <1>3, <1>4, <1>5, <1>6, <1>7, <1>8, <1>9 DEF IInv

LEMMA AddStep ==
    ASSUME IInv, NEW j \in Workers, Add(j)
    PROVE  IInv'
<1>0. /\ TypeOK /\ job \in [Workers -> Job] /\ parts \in SUBSET Int
      /\ month \in Nat /\ ensured \in Int /\ swept \in Int
      /\ rows \subseteq [call : Int, stored : 0..month]
  BY PartitionsAssumption DEF IInv, TypeOK
<1>1. TypeOK'
  BY <1>0, TargetsInt DEF TypeOK, Add, Job, Busy
<1>2. Clock'
  BY <1>0 DEF IInv, Clock, Add, Job
<1>3. Made'
  BY DEF IInv, Made, Add
<1>4. Progress'
  BY <1>0 DEF IInv, Progress, Add, Job
<1>5. NoGaps'
  <2>1. PICK new \in job[j].todo :
            /\ \A p \in job[j].todo : new <= p
            /\ parts' = parts \cup {new}
            /\ job' = [job EXCEPT ![j].todo = @ \ {new}]
    BY DEF Add, NextMonth
  <2>2. /\ job[j].phase = "add" /\ job[j].now \in Int /\ job[j].now \in {month - 1, month}
        /\ new \in Int /\ new <= job[j].now + MonthsAhead /\ month' = month
    BY <1>0, TargetsInt DEF IInv, TypeOK, Clock, Add, Job
  <2>3. \A p \in Int : job[j].now - MonthsBack <= p /\ p < new => p \in parts
    BY <1>0, <2>1, <2>2, PartitionsAssumption, TargetsInt DEF IInv, TypeOK, Progress, Job
  <2>4. Whole(month - MonthsBack)'
    BY <1>0, <2>1, <2>2, <2>3, PartitionsAssumption DEF IInv, NoGaps, Whole
  <2>5. ASSUME NEW k \in Workers, job'[k].phase \in {"ensure", "add"}
        PROVE  Whole(job[k].now - MonthsBack)'
    <3>1. /\ job'[k].now = job[k].now /\ job[k].now \in Int
          /\ job[k].phase \in {"ensure", "add"} /\ job[k].now \in {month - 1, month}
      BY <1>0, <2>1, <2>5 DEF IInv, Clock, Job
    <3>2. Whole(job[k].now - MonthsBack)
      BY <3>1 DEF IInv, NoGaps
    <3>3. CASE job[j].now <= job[k].now
      BY <2>1, <2>2, <2>3, <3>1, <3>2, <3>3, PartitionsAssumption DEF Whole
    <3>4. CASE job[k].now < job[j].now
      <4>1. job[k].now = month - 1 /\ job[j].now = month
        BY <1>0, <2>2, <3>1, <3>4
      <4>2. up
        BY <1>0, <2>2, <3>1, <4>1 DEF TypeOK, Busy
      <4>3. job[k].now - MonthsBack \in parts
        BY <1>0, <3>1, <4>1, <4>2 DEF IInv, Overtaken
      <4>. QED BY <1>0, <2>1, <2>2, <2>3, <3>1, <3>2, <4>1, <4>3, PartitionsAssumption DEF Whole
    <3>. QED BY <1>0, <2>2, <3>1, <3>3, <3>4
  <2>. QED BY <2>4, <2>5 DEF NoGaps
<1>6. Overtaken'
  BY <1>0 DEF IInv, Overtaken, Add, Job
<1>7. Housed'
  BY DEF IInv, Housed, Add
<1>8. Cutoff'
  BY <1>0, PartitionsAssumption, TargetsInt DEF IInv, TypeOK, Clock, Cutoff, Add, Job
<1>9. OldRowsGo'
  BY DEF IInv, OldRowsGo, Add
<1>. QED BY <1>1, <1>2, <1>3, <1>4, <1>5, <1>6, <1>7, <1>8, <1>9 DEF IInv

-----------------------------------------------------------------------------
(* Partitions: the theorems.                                               *)

LEMMA NextStep == IInv /\ [Next]_vars => IInv'
<1>. SUFFICES ASSUME IInv, [Next]_vars PROVE IInv'
  OBVIOUS
<1>1. ASSUME NEW j \in Workers, Maintain(j) PROVE IInv'
  BY <1>1, BeginStep, LookStep, AddStep, AddFailsStep, AddedStep, LookOldStep, DropStep,
     DropFailsStep, DroppedStep DEF Maintain
<1>2. CASE Start
  BY <1>2, StartStep
<1>3. ASSUME NEW call \in -Skew .. LastMonth + Skew, Upload(call) PROVE IInv'
  <2>1. call \in Int
    BY PartitionsAssumption
  <2>. QED BY <1>3, <2>1, UploadStep
<1>4. ASSUME NEW n \in 1..LastMonth, Tick(n) PROVE IInv'
  BY <1>4, TickStep
<1>5. CASE Stop
  BY <1>5, StopStep
<1>6. CASE UNCHANGED vars
  BY <1>6 DEF IInv, vars, TypeOK, Busy, Clock, Made, Progress, NoGaps, Whole, Overtaken, Housed,
              Cutoff, OldRowsGo
<1>. QED BY <1>1, <1>2, <1>3, <1>4, <1>5, <1>6 DEF Next

\* What the other theorems rest on.
THEOREM Inductive == Spec => []IInv
BY InitInv, NextStep, PTL DEF Spec

\* Workers stay within their targets, and no two of them run across the start of the
\* server (database.py:131-217, main.py:24).
THEOREM TypeCorrect == Spec => []TypeOK
<1>1. IInv => TypeOK
  BY DEF IInv
<1>. QED BY <1>1, Inductive, PTL

\* However runs overlap and wherever they stop, MySQL refuses no month for its
\* order (database.py:163).
THEOREM SplitsSafe == Spec => []SplitsInOrder
BY InvSplits, Inductive, PTL

\* While the server is on, this month and the next have partitions of their own, if
\* at least two months are made ahead (database.py:167-173).
THEOREM MonthsSafe == Spec => []MonthHasPartition
BY InvMonths, Inductive, PTL

\* What a run should have dropped is dropped, rows that are dated too late apart
\* (database.py:234-243).
THEOREM OldRowsSafe == Spec => []OldRowsGo
<1>1. IInv => OldRowsGo
  BY DEF IInv
<1>. QED BY <1>1, Inductive, PTL

\* No step removes a row whose call is not older than what is to be kept
\* (scheduler.py:47).
THEOREM YoungRowsSafe == Spec => YoungRowsStay
<1> DEFINE Step == \A r \in rows \ rows' : r.call < month - KeepMonths
<1>1. IInv /\ [Next]_vars => [Step]_vars
  <2>. SUFFICES ASSUME IInv, Next, NEW r \in rows, r \notin rows'
                PROVE  r.call < month - KeepMonths
    OBVIOUS
  <2>1. PICK j \in Workers : Drop(j)
    BY DEF Next, Maintain, Start, Begin, Look, Add, AddFails, Added, LookOld, DropFails,
           Dropped, Upload, Tick, Stop
  <2>2. PICK p \in job[j].todo : job[j].phase = "drop" /\ r.call <= p
    BY <2>1 DEF Drop, InPartition
  <2>3. /\ p < job[j].now - KeepMonths /\ job[j].now \in {month - 1, month}
        /\ job[j].now \in Int /\ p \in Int /\ r.call \in Int /\ month \in Int
    BY <2>2, PartitionsAssumption DEF IInv, TypeOK, Clock, Cutoff, Job
  <2>. QED BY <2>2, <2>3, PartitionsAssumption
<1>. HIDE DEF Step
<1>2. Spec => [][Step]_vars
  BY <1>1, Inductive, PTL DEF Spec
<1>. QED BY <1>2, PTL DEF Step, YoungRowsStay

-----------------------------------------------------------------------------
(* UploadQueue: the invariant.                                             *)

\* A call has no row on the server before its coroutine has run.
UnseenIsNew == \A c \in Calls : c \in writing \/ c \notin screened => stored[c] = 0

\* The call is in a batch that the server has stored and the device has not forgotten.
InFlight(c) == worker.phase = "ok" /\ c \in CallsOf(worker.batch)

\* A call that waits, other than in such a batch, has at most one row for each
\* interruption; any call has at most one more.
OwedToLoss ==
    \A c \in Calls :
        /\ stored[c] <= 1 + lost
        /\ c \in CallsOf(queue) /\ ~ InFlight(c) => stored[c] <= lost

QueueInv == QueueTypeOK /\ UnseenIsNew /\ OwedToLoss

-----------------------------------------------------------------------------
(* UploadQueue: the rows with the smallest ids.                            *)

\* LIMIT: there are not more than n of them.
LEMMA OldestFew ==
    ASSUME NEW R, IsFiniteSet(R), NEW n \in Nat,
           \A r \in R : r.id \in Int,
           \A r, q \in R : r.id = q.id => r = q
    PROVE  IsFiniteSet(Oldest(R, n)) /\ Cardinality(Oldest(R, n)) <= n
<1> DEFINE before(r) == {q \in R : q.id < r.id}
           rank == [r \in Oldest(R, n) |-> Cardinality(before(r))]
<1>1. ASSUME NEW r \in R
      PROVE  IsFiniteSet(before(r)) /\ Cardinality(before(r)) \in Nat
  BY FS_Subset, FS_CardinalityType
<1>2. ASSUME NEW r \in R, NEW q \in R, r.id < q.id
      PROVE  Cardinality(before(r)) < Cardinality(before(q))
  <2>1. before(r) \in SUBSET before(q) /\ r \in before(q) /\ r \notin before(r)
    BY <1>2
  <2>2. /\ Cardinality(before(r)) <= Cardinality(before(q))
        /\ Cardinality(before(r)) # Cardinality(before(q))
    <3>1. IsFiniteSet(before(q))
      BY <1>1
    <3>. HIDE DEF before
    <3>. QED BY <2>1, <3>1, FS_Subset
  <2>. HIDE DEF before
  <2>. QED BY <1>1, <2>2
<1>3. rank \in Injection(Oldest(R, n), 0..n - 1)
  <2>1. \A r \in Oldest(R, n) : r \in R /\ rank[r] \in 0..n - 1
    <3>. SUFFICES ASSUME NEW r \in Oldest(R, n) PROVE r \in R /\ rank[r] \in 0..n - 1
      OBVIOUS
    <3>1. r \in R /\ Cardinality(before(r)) < n
      BY DEF Oldest
    <3>2. Cardinality(before(r)) \in Nat
      BY <1>1, <3>1
    <3>. HIDE DEF before
    <3>. QED BY <3>1, <3>2
  <2>2. ASSUME NEW r \in Oldest(R, n), NEW q \in Oldest(R, n), rank[r] = rank[q]
        PROVE  r = q
    <3>1. r \in R /\ q \in R
      BY <2>1
    <3>2. Cardinality(before(r)) = Cardinality(before(q))
      BY <2>2
    <3>3. Cardinality(before(r)) \in Nat /\ Cardinality(before(q)) \in Nat
      BY <1>1, <3>1
    <3>4. ~ (r.id < q.id) /\ ~ (q.id < r.id)
      <4>. HIDE DEF before
      <4>. QED BY <1>2, <3>1, <3>2, <3>3
    <3>. QED BY <3>1, <3>4
  <2>3. rank \in [Oldest(R, n) -> 0..n - 1]
    BY <2>1
  <2>. HIDE DEF rank
  <2>. QED BY <2>2, <2>3 DEF Injection, IsInjective
<1>4. IsFiniteSet(0..n - 1) /\ Cardinality(0..n - 1) = n
  <2>1. 0 \in Int /\ n - 1 \in Int
    OBVIOUS
  <2>. QED BY <2>1, FS_Interval
<1>. HIDE DEF rank
<1>. QED BY <1>3, <1>4, FS_Injection

\* ORDER BY: rows that are left out have greater ids.
LEMMA OldestFirst ==
    ASSUME NEW R, IsFiniteSet(R), NEW n \in Nat,
           \A r \in R : r.id \in Int,
           NEW r \in Oldest(R, n), NEW q \in R \ Oldest(R, n)
    PROVE  r.id < q.id
<1> DEFINE before(s) == {t \in R : t.id < s.id}
<1>1. SUFFICES ASSUME q.id <= r.id PROVE FALSE
  BY DEF Oldest
<1>2. before(q) \in SUBSET before(r)
  BY <1>1 DEF Oldest
<1>3. IsFiniteSet(before(r)) /\ IsFiniteSet(before(q))
  BY FS_Subset
<1>4. Cardinality(before(r)) < n /\ ~ (Cardinality(before(q)) < n)
  BY DEF Oldest
<1>. HIDE DEF before
<1>5. Cardinality(before(q)) <= Cardinality(before(r))
  BY <1>2, <1>3, FS_Subset
<1>6. Cardinality(before(q)) \in Nat /\ Cardinality(before(r)) \in Nat
  BY <1>3, FS_CardinalityType
<1>. QED BY <1>4, <1>5, <1>6

LEMMA QueueFinite ==
    ASSUME QueueTypeOK
    PROVE  /\ IsFiniteSet(queue)
           /\ \A r \in queue : r.id \in Int
           /\ \A r, q \in queue : r.id = q.id => r = q
<1>1. /\ \A r \in queue : r.id \in 1..lastId
      /\ \A r, q \in queue : r.id = q.id => r = q
      /\ lastId \in Nat
  BY DEF QueueTypeOK
<1> DEFINE ids == [r \in queue |-> r.id]
<1>2. ids \in Injection(queue, 1..lastId)
  BY <1>1 DEF Injection, IsInjective
<1>3. IsFiniteSet(1..lastId)
  BY <1>1, FS_Interval
<1>. HIDE DEF ids
<1>4. IsFiniteSet(queue)
  BY <1>2, <1>3, FS_Injection
<1>. QED BY <1>1, <1>4

-----------------------------------------------------------------------------
(* UploadQueue: types.                                                     *)

\* The worker has nothing to do: what is true of its batch is true of none.
LEMMA NoWorkTyped ==
    ASSUME NEW R
    PROVE  /\ NoWork \in [phase : Phase, batch : SUBSET R]
           /\ NoWork.phase = "idle" /\ NoWork.batch = {}
           /\ Cardinality(NoWork.batch) <= BatchSize
<1>1. Cardinality(NoWork.batch) = 0
  BY FS_EmptySet DEF NoWork
<1>. QED BY <1>1, UploadAssumption DEF NoWork, Phase

LEMMA QueueInitTyped == QueueInit => QueueTypeOK
<1>. SUFFICES ASSUME QueueInit PROVE QueueTypeOK
  OBVIOUS
<1>1. /\ worker \in [phase : Phase, batch : SUBSET queue] /\ worker.batch = {}
      /\ Cardinality(worker.batch) <= BatchSize /\ worker.phase = "idle" /\ worker = NoWork
  BY NoWorkTyped DEF QueueInit
<1>2. /\ lost \in 0..MaxLost /\ stored \in [Calls -> Nat]
      /\ screened = {} /\ writing = {} /\ queue = {} /\ lastId = 0
      /\ loggedIn = FALSE /\ kicked = FALSE
  BY UploadAssumption DEF QueueInit
<1>. QED BY <1>1, <1>2 DEF QueueTypeOK

\* The device.
LEMMA WriteTyped ==
    ASSUME QueueTypeOK, NEW c \in Calls, Write(c)
    PROVE  QueueTypeOK'
<1> DEFINE row == [id |-> lastId', call |-> c]
<1>1. /\ c \in writing /\ writing' = writing \ {c} /\ screened' = screened
      /\ lastId' = lastId + 1 /\ queue' = queue \cup {row} /\ worker' = worker
      /\ UNCHANGED <<loggedIn, kicked, stored, lost>>
  BY DEF Write
<1>2. /\ lastId \in Nat /\ writing \in SUBSET screened
      /\ queue \in SUBSET [id : 1..lastId, call : screened \ writing]
      /\ worker \in [phase : Phase, batch : SUBSET queue]
  BY DEF QueueTypeOK
<1>3. lastId' \in Nat /\ queue' \in SUBSET [id : 1..lastId', call : screened' \ writing']
  <2>1. row \in [id : 1..lastId', call : screened' \ writing']
    BY <1>1, <1>2
  <2>2. [id : 1..lastId, call : screened \ writing]
          \subseteq [id : 1..lastId', call : screened' \ writing']
    BY <1>1, <1>2
  <2>. HIDE DEF row
  <2>. QED BY <1>1, <1>2, <2>1, <2>2
<1>4. \A r \in queue : r.id < row.id /\ r.call # row.call
  BY <1>1, <1>2
<1>5. \A r, q \in queue' : r.id = q.id \/ r.call = q.call => r = q
  <2>1. \A r \in queue : r.id \in Nat /\ row.id \in Nat
    BY <1>1, <1>2
  <2>2. \A r, q \in queue : r.id = q.id \/ r.call = q.call => r = q
    BY DEF QueueTypeOK
  <2>. HIDE DEF row
  <2>. QED BY <1>1, <1>4, <2>1, <2>2
<1>6. \A r \in worker'.batch, q \in queue' \ worker'.batch : r.id < q.id
  <2>1. \A r \in worker.batch, q \in queue \ worker.batch : r.id < q.id
    BY DEF QueueTypeOK
  <2>. HIDE DEF row
  <2>. QED BY <1>1, <1>2, <1>4, <2>1
<1>7. worker' \in [phase : Phase, batch : SUBSET queue']
  <2>. HIDE DEF row
  <2>. QED BY <1>1, <1>2
<1>. QED BY <1>1, <1>2, <1>3, <1>5, <1>6, <1>7 DEF QueueTypeOK

LEMMA TakeTyped ==
    ASSUME QueueTypeOK, Take
    PROVE  QueueTypeOK'
<1>1. /\ worker' = [phase |-> "sent", batch |-> Oldest(queue, BatchSize)]
      /\ UNCHANGED <<screened, writing, queue, lastId, loggedIn, kicked, stored, lost>>
  BY DEF Take, table
<1>2. BatchSize \in Nat
  BY UploadAssumption
<1>3. Cardinality(worker'.batch) <= BatchSize
  BY <1>1, <1>2, QueueFinite, OldestFew
<1>4. \A r \in worker'.batch, q \in queue' \ worker'.batch : r.id < q.id
  BY <1>1, <1>2, QueueFinite, OldestFirst
<1>5. worker' \in [phase : Phase, batch : SUBSET queue'] /\ worker'.phase = "sent"
  BY <1>1 DEF Oldest, Phase
<1>. QED BY <1>1, <1>3, <1>4, <1>5 DEF QueueTypeOK

\* What a step leaves of the queue when the worker ends.
LEMMA EndTyped ==
    ASSUME QueueTypeOK, worker' = NoWork, queue' \in SUBSET queue, lastId' = lastId,
           screened' = screened, writing' \in SUBSET writing, stored' = stored,
           loggedIn' \in BOOLEAN, kicked' \in BOOLEAN, lost' \in 0..MaxLost
    PROVE  QueueTypeOK'
<1>1. /\ worker' \in [phase : Phase, batch : SUBSET queue'] /\ worker'.batch = {}
      /\ Cardinality(worker'.batch) <= BatchSize /\ worker'.phase = "idle"
  BY NoWorkTyped
<1>2. queue' \in SUBSET [id : 1..lastId', call : screened' \ writing']
  BY DEF QueueTypeOK
<1>. QED BY <1>1, <1>2 DEF QueueTypeOK

LEMMA ReceiveTyped ==
    ASSUME QueueTypeOK, Receive
    PROVE  QueueTypeOK'
<1>1. /\ UNCHANGED <<screened, writing, queue, lastId, loggedIn, kicked, lost>>
      /\ worker.phase = "sent"
      /\ worker' = [worker EXCEPT !.phase = IF kicked THEN "kicked"
                                            ELSE IF Valid(worker.batch) THEN "ok" ELSE "refused"]
      /\ stored' = IF worker'.phase = "ok"
                   THEN [c \in Calls |-> IF c \in CallsOf(worker.batch)
                                         THEN stored[c] + 1 ELSE stored[c]]
                   ELSE stored
  BY DEF Receive, table
<1>2. /\ worker \in [phase : Phase, batch : SUBSET queue]
      /\ stored \in [Calls -> Nat]
      /\ queue \in SUBSET [id : 1..lastId, call : screened \ writing]
      /\ screened \in SUBSET Calls
  BY DEF QueueTypeOK
<1>3. /\ worker' \in [phase : Phase, batch : SUBSET queue']
      /\ worker'.batch = worker.batch /\ worker'.phase # "idle"
  BY <1>1, <1>2 DEF Phase
<1>4. stored' \in [Calls -> Nat]
  BY <1>1, <1>2
<1>5. worker'.phase = "ok" => \A r \in worker'.batch : stored'[r.call] > 0
  <2>. SUFFICES ASSUME worker'.phase = "ok", NEW r \in worker.batch
                PROVE  stored'[r.call] > 0
    BY <1>3
  <2>1. r.call \in Calls /\ r.call \in CallsOf(worker.batch)
    BY <1>2 DEF CallsOf
  <2>2. stored'[r.call] = stored[r.call] + 1
    BY <1>1, <2>1
  <2>. QED BY <1>2, <2>1, <2>2
<1>. QED BY <1>1, <1>3, <1>4, <1>5 DEF QueueTypeOK

LEMMA QueueStepTyped == QueueTypeOK /\ [QueueNext]_queueVars => QueueTypeOK'
<1>. SUFFICES ASSUME QueueTypeOK, [QueueNext]_queueVars PROVE QueueTypeOK'
  OBVIOUS
<1>0. /\ lost \in 0..MaxLost /\ MaxLost \in Nat /\ loggedIn \in BOOLEAN /\ kicked \in BOOLEAN
      /\ writing \in SUBSET screened
  BY UploadAssumption DEF QueueTypeOK
<1>1. ASSUME NEW c \in Calls, Screen(c) PROVE QueueTypeOK'
  <2>1. /\ UNCHANGED <<queue, lastId, worker, loggedIn, kicked, stored, lost>>
        /\ screened' = screened \cup {c} /\ writing' = writing \cup {c} /\ c \notin screened
    BY <1>1 DEF Screen, table
  <2>2. queue' \in SUBSET [id : 1..lastId', call : screened' \ writing']
    <3>1. \A r \in queue : r \in [id : 1..lastId, call : screened \ writing]
      BY DEF QueueTypeOK
    <3>2. screened \ writing \subseteq screened' \ writing'
      BY <1>0, <2>1
    <3>. QED BY <2>1, <3>1, <3>2
  <2>. QED BY <2>1, <2>2 DEF QueueTypeOK
<1>2. ASSUME NEW c \in Calls, Write(c) PROVE QueueTypeOK'
  BY <1>2, WriteTyped
<1>3. CASE Take
  BY <1>3, TakeTyped
<1>4. CASE Receive
  BY <1>4, ReceiveTyped
<1>5. CASE Forget
  BY <1>0, <1>5, EndTyped DEF Forget
<1>6. CASE GiveUp \/ Logout
  BY <1>0, <1>6, EndTyped DEF GiveUp, Logout, table
<1>7. CASE Lose \/ Kill
  <2>1. /\ UNCHANGED <<screened, queue, lastId, loggedIn, kicked, stored>> /\ worker' = NoWork
        /\ writing' \in SUBSET writing /\ lost' \in 0..MaxLost
    BY <1>0, <1>7 DEF Lose, Kill, table
  <2>. QED BY <1>0, <2>1, EndTyped
<1>8. CASE Login \/ Kick
  BY <1>0, <1>8 DEF Login, Kick, table, QueueTypeOK
<1>9. CASE UNCHANGED queueVars
  BY <1>9 DEF queueVars, QueueTypeOK
<1>. QED BY <1>1, <1>2, <1>3, <1>4, <1>5, <1>6, <1>7, <1>8, <1>9 DEF QueueNext

-----------------------------------------------------------------------------
(* UploadQueue: rows on the server.                                        *)

LEMMA QueueInitInv == QueueInit => QueueInv
<1>. SUFFICES ASSUME QueueInit PROVE UnseenIsNew /\ OwedToLoss
  BY QueueInitTyped DEF QueueInv
<1>1. lost = 0 /\ stored = [c \in Calls |-> 0]
  BY DEF QueueInit
<1>. QED BY <1>1 DEF UnseenIsNew, OwedToLoss

\* Calls with a row that waits are not new.
LEMMA WaitingAreWritten ==
    ASSUME QueueTypeOK
    PROVE  /\ CallsOf(queue) \subseteq screened \ writing /\ screened \subseteq Calls
           /\ CallsOf(worker.batch) \subseteq CallsOf(queue)
BY DEF QueueTypeOK, CallsOf

LEMMA UnseenStep == QueueInv /\ [QueueNext]_queueVars => UnseenIsNew'
<1>. SUFFICES ASSUME QueueInv, [QueueNext]_queueVars PROVE UnseenIsNew'
  OBVIOUS
<1>0. writing \subseteq screened /\ UnseenIsNew /\ QueueTypeOK
  BY DEF QueueInv, QueueTypeOK
<1>1. ASSUME stored' = stored, screened \subseteq screened',
             writing' \subseteq writing \cup (screened' \ screened)
      PROVE  UnseenIsNew'
  BY <1>0, <1>1 DEF UnseenIsNew
<1>2. CASE Receive
  <2>1. ASSUME NEW c \in Calls, c \in writing' \/ c \notin screened'
        PROVE  stored'[c] = 0
    <3>1. stored[c] = 0 /\ c \notin CallsOf(worker.batch)
      BY <1>0, <1>2, <2>1, WaitingAreWritten DEF Receive, UnseenIsNew
    <3>2. stored' = stored \/ stored'[c] = stored[c]
      BY <1>2, <3>1 DEF Receive
    <3>. QED BY <3>1, <3>2
  <2>. QED BY <2>1 DEF UnseenIsNew
<1>3. ASSUME NEW c \in Calls, Screen(c) \/ Write(c) PROVE UnseenIsNew'
  BY <1>1, <1>3 DEF Screen, Write
<1>4. CASE Take \/ Forget \/ GiveUp \/ Logout \/ Lose \/ Kill \/ Login \/ Kick
  BY <1>1, <1>4 DEF Take, Forget, GiveUp, Logout, Lose, Kill, Login, Kick
<1>5. CASE UNCHANGED queueVars
  BY <1>1, <1>5 DEF queueVars
<1>. QED BY <1>2, <1>3, <1>4, <1>5 DEF QueueNext

LEMMA OwedStep == QueueInv /\ [QueueNext]_queueVars => OwedToLoss'
<1>. SUFFICES ASSUME QueueInv, [QueueNext]_queueVars PROVE OwedToLoss'
  OBVIOUS
<1>0. /\ QueueTypeOK /\ OwedToLoss /\ UnseenIsNew
      /\ lost \in Nat /\ stored \in [Calls -> Nat]
      /\ CallsOf(worker.batch) \subseteq CallsOf(queue) /\ CallsOf(queue) \subseteq Calls
  BY WaitingAreWritten, UploadAssumption DEF QueueInv, QueueTypeOK
\* Nothing that was stored becomes unknown to the device.
<1>1. ASSUME stored' = stored, lost' = lost, CallsOf(queue)' \subseteq CallsOf(queue),
             \A c \in CallsOf(queue)' : InFlight(c) => InFlight(c)'
      PROVE  OwedToLoss'
  BY <1>1 DEF QueueInv, OwedToLoss
<1>2. ASSUME NEW c \in Calls, Screen(c) PROVE OwedToLoss'
  BY <1>1, <1>2 DEF Screen, table, InFlight, CallsOf
<1>3. ASSUME NEW c \in Calls, Write(c) PROVE OwedToLoss'
  <2>1. /\ UNCHANGED <<worker, stored, lost>> /\ c \in writing
        /\ queue' = queue \cup {[id |-> lastId', call |-> c]}
    BY <1>3 DEF Write
  <2>2. CallsOf(queue)' = CallsOf(queue) \cup {c}
    <3>1. PICK row : row = [id |-> lastId', call |-> c]
      OBVIOUS
    <3>2. queue' = queue \cup {row} /\ row.call = c
      BY <2>1, <3>1
    <3>. QED BY <3>2 DEF CallsOf
  <2>3. stored[c] <= lost
    BY <1>0, <2>1 DEF UnseenIsNew
  <2>. QED BY <1>0, <2>1, <2>2, <2>3 DEF OwedToLoss, InFlight
<1>4. CASE Take
  BY <1>1, <1>4 DEF Take, NoWork, table, InFlight, CallsOf
<1>5. CASE Receive
  <2>1. /\ worker.phase = "sent" /\ UNCHANGED <<queue, lost>>
        /\ worker'.batch = worker.batch
        /\ stored' = IF worker'.phase = "ok"
                     THEN [c \in Calls |-> IF c \in CallsOf(worker.batch)
                                           THEN stored[c] + 1 ELSE stored[c]]
                     ELSE stored
    BY <1>5 DEF Receive, table, QueueInv, QueueTypeOK
  <2>2. CASE worker'.phase = "ok"
    <3>1. ASSUME NEW c \in Calls
          PROVE  /\ stored'[c] <= 1 + lost'
                 /\ c \in CallsOf(queue)' /\ ~ InFlight(c)' => stored'[c] <= lost'
      <4>1. stored[c] <= 1 + lost /\ (c \in CallsOf(queue) => stored[c] <= lost)
        BY <1>0, <2>1 DEF OwedToLoss, InFlight
      <4>2. CASE c \in CallsOf(worker.batch)
        <5>1. stored'[c] = stored[c] + 1 /\ c \in CallsOf(queue) /\ InFlight(c)'
          BY <1>0, <2>1, <2>2, <4>2 DEF InFlight, CallsOf
        <5>. QED BY <1>0, <2>1, <4>1, <5>1
      <4>3. CASE c \notin CallsOf(worker.batch)
        <5>1. stored'[c] = stored[c] /\ CallsOf(queue)' = CallsOf(queue)
          BY <2>1, <2>2, <4>3 DEF CallsOf
        <5>. QED BY <2>1, <4>1, <5>1
      <4>. QED BY <4>2, <4>3
    <3>. QED BY <3>1 DEF OwedToLoss
  <2>3. CASE worker'.phase # "ok"
    <3>1. CallsOf(queue)' = CallsOf(queue) /\ \A c \in Calls : ~ InFlight(c)
      BY <2>1 DEF CallsOf, InFlight
    <3>. QED BY <1>0, <1>1, <2>1, <2>3, <3>1
  <2>. QED BY <2>2, <2>3
<1>6. CASE Forget
  <2>1. /\ stored' = stored /\ lost' = lost /\ worker.phase = "ok"
        /\ queue' = {r \in queue : \A b \in worker.batch : r.id # b.id}
    BY <1>6 DEF Forget
  <2>2. \A r, q \in queue : r.call = q.call => r = q
    BY <1>0 DEF QueueTypeOK
  <2>3. worker.batch \subseteq queue
    BY <1>0 DEF QueueTypeOK
  <2>4. \A c \in CallsOf(queue)' : c \in CallsOf(queue) /\ ~ InFlight(c)
    BY <2>1, <2>2, <2>3 DEF CallsOf, InFlight
  <2>. QED BY <1>1, <2>1, <2>4
<1>7. CASE GiveUp \/ Logout
  BY <1>1, <1>7 DEF GiveUp, Logout, table, InFlight, CallsOf
<1>8. CASE Lose \/ Kill
  <2>1. /\ UNCHANGED <<queue, stored>> /\ worker' = NoWork
        /\ lost' = IF worker.phase = "ok" THEN lost + 1 ELSE lost
    BY <1>8 DEF Lose, Kill, table
  <2>2. CASE worker.phase = "ok"
    <3>1. lost' = lost + 1 /\ CallsOf(queue)' = CallsOf(queue)
      BY <2>1, <2>2 DEF CallsOf
    <3>2. \A c \in Calls : stored'[c] <= lost'
      BY <1>0, <2>1, <3>1 DEF OwedToLoss
    <3>. QED BY <1>0, <3>1, <3>2, <2>1 DEF OwedToLoss
  <2>3. CASE worker.phase # "ok"
    <3>1. CallsOf(queue)' = CallsOf(queue) /\ \A c \in Calls : ~ InFlight(c)
      BY <2>1, <2>3 DEF CallsOf, InFlight
    <3>. QED BY <1>0, <1>1, <2>1, <2>3, <3>1
  <2>. QED BY <2>2, <2>3
<1>9. CASE Login \/ Kick
  BY <1>1, <1>9 DEF Login, Kick, table, InFlight, CallsOf
<1>10. CASE UNCHANGED queueVars
  BY <1>1, <1>10 DEF queueVars, InFlight, CallsOf
<1>. QED BY <1>2, <1>3, <1>4, <1>5, <1>6, <1>7, <1>8, <1>9, <1>10 DEF QueueNext

\* QueueInv holds in every reachable state: it holds at first and every step keeps it.
THEOREM QueueInductive == QueueSpec => []QueueInv
<1>1. QueueInit => QueueInv
  BY QueueInitInv
<1>2. QueueInv /\ [QueueNext]_queueVars => QueueInv'
  BY QueueStepTyped, UnseenStep, OwedStep DEF QueueInv
<1>. QED BY <1>1, <1>2, PTL DEF QueueSpec

\* Types; in particular the batch of the worker stays the head of the queue, whatever
\* coroutines write and whatever is forgotten in the meantime (LogUploadWorker.kt:34-50).
THEOREM QueueTypeCorrect == QueueSpec => []QueueTypeOK
<1>1. QueueInv => QueueTypeOK
  BY DEF QueueInv
<1>. QED BY <1>1, QueueInductive, PTL

\* No log has more rows on the server than one, and one more for every interruption
\* between the commit and the removal of a batch (LogUploadWorker.kt:49-50).
THEOREM DuplicatesSafe == QueueSpec => []DuplicatesOnlyAfterLoss
<1>1. QueueInv => DuplicatesOnlyAfterLoss
  BY DEF QueueInv, OwedToLoss, DuplicatesOnlyAfterLoss
<1>. QED BY <1>1, QueueInductive, PTL

-----------------------------------------------------------------------------
(* UploadQueue: the abstract specification.                                *)

\* Every step of the device or the server queues logs, stores some that wait, forgets
\* some that are stored, or does not concern the abstract specification.
LEMMA UploadStepDelivers ==
    QueueInv /\ [QueueNext]_queueVars => [Delivery!Next]_(Delivery!deliveryVars)
<1>. SUFFICES ASSUME QueueInv, [QueueNext]_queueVars
              PROVE  [Delivery!Next]_(Delivery!deliveryVars)
  OBVIOUS
<1> DEFINE waiting == CallsOf(queue)
<1>0. QueueTypeOK
  BY DEF QueueInv
<1>1. ASSUME UNCHANGED <<queue, stored>> PROVE UNCHANGED Delivery!deliveryVars
  BY <1>1 DEF Delivery!deliveryVars, CallsOf
<1>2. ASSUME NEW c \in Calls, Write(c) PROVE Delivery!Queue
  BY <1>2 DEF Write, Delivery!Queue, CallsOf
<1>3. CASE Receive
  <2>1. CASE worker'.phase = "ok"
    <3>1. CallsOf(worker.batch) \in SUBSET waiting
      BY <1>0, WaitingAreWritten
    <3>2. /\ waiting' = waiting
          /\ stored' = [c \in Calls |-> IF c \in CallsOf(worker.batch)
                                        THEN stored[c] + 1 ELSE stored[c]]
      BY <1>3, <2>1 DEF Receive, table, CallsOf
    <3>. QED BY <3>1, <3>2 DEF Delivery!Next, Delivery!Store
  <2>2. CASE worker'.phase # "ok"
    BY <1>1, <1>3, <2>2 DEF Receive, table
  <2>. QED BY <2>1, <2>2
<1>4. CASE Forget
  <2>1. /\ stored' = stored /\ worker.phase = "ok"
        /\ queue' = {r \in queue : \A b \in worker.batch : r.id # b.id}
    BY <1>4 DEF Forget
  <2>2. /\ \A r, q \in queue : r.id = q.id => r = q
        /\ worker.batch \subseteq queue
        /\ \A r \in worker.batch : stored[r.call] > 0
    BY <1>0, <2>1 DEF QueueTypeOK
  <2>3. waiting' \subseteq waiting /\ \A c \in waiting \ waiting' : stored[c] > 0
    BY <2>1, <2>2 DEF CallsOf
  <2>. QED BY <2>1, <2>3 DEF Delivery!Next, Delivery!Forget
<1>5. CASE \/ \E c \in Calls : Screen(c)
           \/ Take \/ GiveUp \/ Logout \/ Lose \/ Kill \/ Login \/ Kick
  BY <1>1, <1>5 DEF Screen, Take, GiveUp, Logout, Lose, Kill, Login, Kick, table
<1>6. CASE UNCHANGED queueVars
  BY <1>1, <1>6 DEF queueVars
<1>. QED BY <1>2, <1>3, <1>4, <1>5, <1>6 DEF QueueNext, Delivery!Next

\* A log leaves the queue of the device only when the server has it, for any number
\* of calls and any size of a batch (LogUploadWorker.kt:25).
THEOREM UploadImplementsDelivery == QueueSpec => ImplementsDelivery
<1>1. QueueInit => Delivery!Init
  BY DEF QueueInit, Delivery!Init, CallsOf
<1>2. QueueInv /\ [QueueNext]_queueVars => [Delivery!Next]_(Delivery!deliveryVars)
  BY UploadStepDelivers
<1>. QED BY <1>1, <1>2, QueueInductive, PTL DEF QueueSpec, ImplementsDelivery, Delivery!Spec
=============================================================================

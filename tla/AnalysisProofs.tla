--------------------------- MODULE AnalysisProofs ---------------------------
(***************************************************************************)
(* Proofs about Analysis: how far the limit of calls is kept, and what     *)
(* overlapping and failing runs leave behind.                              *)
(***************************************************************************)
EXTENDS Analysis, FiniteSetTheorems, TLAPS

\* The calls of a day left a row or were raised; those that are recorded or under
\* way are below the limit, except for one of each run.
Accounts ==
    \A f \in Families :
        /\ spent[f] = recent[f] + raised[f]
        /\ recent[f] + Cardinality(Waiting(f)) <= Limit - 1 + Cardinality(Jobs)

IInv == TypeOK /\ Accounts /\ OneRuleEach /\ RememberedOnlyIfStored

LEMMA WaitingFinite ==
    /\ Cardinality(Jobs) \in Nat \ {0}
    /\ \A f \in Families : /\ IsFiniteSet(Waiting(f))
                           /\ Cardinality(Waiting(f)) \in Nat
                           /\ Cardinality(Waiting(f)) <= Cardinality(Jobs)
<1>1. IsFiniteSet(Jobs) /\ Jobs # {}
  BY AnalysisAssumption
<1>2. Cardinality(Jobs) \in Nat \ {0}
  BY <1>1, FS_CardinalityType, FS_EmptySet
<1>3. \A f \in Families : Waiting(f) \subseteq Jobs
  BY DEF Waiting
<1>. QED BY <1>1, <1>2, <1>3, FS_Subset, FS_CardinalityType

\* The same of the next state.
LEMMA WaitingFinite2 ==
    \A f \in Families : /\ IsFiniteSet(Waiting(f)')
                        /\ Cardinality(Waiting(f))' \in Nat
                        /\ Cardinality(Waiting(f))' <= Cardinality(Jobs)
<1>1. \A f \in Families : Waiting(f)' \subseteq Jobs
  BY DEF Waiting
<1>. QED BY <1>1, AnalysisAssumption, FS_Subset, FS_CardinalityType

LEMMA InvLimit == IInv => LimitKept
<1>. SUFFICES ASSUME IInv, NEW f \in Families
              PROVE  spent[f] + Cardinality(Waiting(f)) <= Limit - 1 + Cardinality(Jobs) + raised[f]
  BY DEF LimitKept
<1>1. recent[f] \in Nat /\ raised[f] \in Nat /\ Limit \in Nat /\ Cardinality(Jobs) \in Nat
  BY WaitingFinite, AnalysisAssumption DEF IInv, TypeOK
<1>. QED BY <1>1, WaitingFinite DEF IInv, Accounts

-----------------------------------------------------------------------------
(* What runs wait for.                                                     *)

LEMMA AskWaits ==
    ASSUME TypeOK, NEW j \in Jobs, NEW f \in Families, Ask(j, f), NEW g \in Families, g # f
    PROVE  Waiting(g)' = Waiting(g)
<1>1. job \in [Jobs -> Job]
  BY DEF TypeOK
<1>. QED BY <1>1, AnalysisAssumption DEF Ask, Waiting, Job

LEMMA EndedWaits ==
    ASSUME TypeOK, NEW j \in Jobs, NEW f \in Families, job[j].family = f, Ended(j)
    PROVE  /\ \A g \in Families : g # f => Waiting(g)' = Waiting(g)
           /\ Cardinality(Waiting(f))' = Cardinality(Waiting(f)) - 1
<1>1. job \in [Jobs -> Job]
  BY DEF TypeOK
<1>2. \A g \in Families : g # f => Waiting(g)' = Waiting(g)
  BY <1>1, AnalysisAssumption DEF Ended, Waiting, Job
<1>3. Waiting(f)' = Waiting(f) \ {j}
  BY <1>1, AnalysisAssumption DEF Ended, Waiting, Job
<1>4. j \in Waiting(f) /\ IsFiniteSet(Waiting(f))
  BY WaitingFinite DEF Waiting
<1>5. Cardinality(Waiting(f) \ {j}) = Cardinality(Waiting(f)) - 1
  BY <1>4, FS_RemoveElement
<1>. QED BY <1>2, <1>3, <1>5

-----------------------------------------------------------------------------
(* Steps.                                                                  *)

LEMMA InitInv == Init => IInv
<1>. SUFFICES ASSUME Init PROVE IInv
  OBVIOUS
<1>1. TypeOK
  BY AnalysisAssumption DEF Init, TypeOK, Idle, Job, AllSigs
<1>2. Accounts
  <2>. SUFFICES ASSUME NEW f \in Families
                PROVE  /\ spent[f] = recent[f] + raised[f]
                       /\ recent[f] + Cardinality(Waiting(f)) <= Limit - 1 + Cardinality(Jobs)
    BY DEF Accounts
  <2>1. Waiting(f) = {}
    BY AnalysisAssumption DEF Init, Waiting, Idle
  <2>. QED BY <2>1, FS_EmptySet, WaitingFinite, AnalysisAssumption DEF Init
<1>3. OneRuleEach /\ RememberedOnlyIfStored
  BY DEF Init, OneRuleEach, RememberedOnlyIfStored
<1>. QED BY <1>1, <1>2, <1>3 DEF IInv

LEMMA StartAllStep ==
    ASSUME IInv, NEW j \in Jobs, StartAll(j)
    PROVE  IInv'
<1>0. /\ TypeOK /\ job \in [Jobs -> Job]
      /\ recent \in [Families -> Nat] /\ raised \in [Families -> Nat]
      /\ spent \in [Families -> Nat] /\ active \in [Families -> [Patterns -> Nat]]
  BY DEF IInv, TypeOK
<1>1. TypeOK'
  BY <1>0, AnalysisAssumption DEF TypeOK, StartAll, Job, Idle
<1>2. Accounts'
  <2>1. \A g \in Families : Waiting(g)' = Waiting(g)
    BY <1>0 DEF Waiting, StartAll, Job
  <2>. QED BY <2>1 DEF IInv, Accounts, StartAll
<1>3. OneRuleEach'
  BY <1>0 DEF IInv, OneRuleEach, StartAll
<1>4. RememberedOnlyIfStored'
  BY <1>0 DEF IInv, RememberedOnlyIfStored, StartAll
<1>. QED BY <1>1, <1>2, <1>3, <1>4 DEF IInv

LEMMA StartOneStep ==
    ASSUME IInv, NEW j \in Jobs, NEW f \in Families, StartOne(j, f)
    PROVE  IInv'
<1>0. /\ TypeOK /\ job \in [Jobs -> Job]
      /\ recent \in [Families -> Nat] /\ raised \in [Families -> Nat]
      /\ spent \in [Families -> Nat] /\ active \in [Families -> [Patterns -> Nat]]
  BY DEF IInv, TypeOK
<1>1. TypeOK'
  BY <1>0, AnalysisAssumption DEF TypeOK, StartOne, Job, Idle
<1>2. Accounts'
  <2>1. \A g \in Families : Waiting(g)' = Waiting(g)
    BY <1>0 DEF Waiting, StartOne, Job
  <2>. QED BY <2>1 DEF IInv, Accounts, StartOne
<1>3. OneRuleEach'
  BY <1>0 DEF IInv, OneRuleEach, StartOne
<1>4. RememberedOnlyIfStored'
  BY <1>0 DEF IInv, RememberedOnlyIfStored, StartOne
<1>. QED BY <1>1, <1>2, <1>3, <1>4 DEF IInv

LEMMA SkipStep ==
    ASSUME IInv, NEW j \in Jobs, NEW f \in Families, Skip(j, f)
    PROVE  IInv'
<1>0. /\ TypeOK /\ job \in [Jobs -> Job]
      /\ recent \in [Families -> Nat] /\ raised \in [Families -> Nat]
      /\ spent \in [Families -> Nat] /\ active \in [Families -> [Patterns -> Nat]]
  BY DEF IInv, TypeOK
<1>1. TypeOK'
  BY <1>0, AnalysisAssumption DEF TypeOK, Skip, Job
<1>2. Accounts'
  <2>1. \A g \in Families : Waiting(g)' = Waiting(g)
    BY <1>0 DEF Waiting, Skip, Job
  <2>. QED BY <2>1 DEF IInv, Accounts, Skip
<1>3. OneRuleEach'
  BY <1>0 DEF IInv, OneRuleEach, Skip
<1>4. RememberedOnlyIfStored'
  BY <1>0 DEF IInv, RememberedOnlyIfStored, Skip
<1>. QED BY <1>1, <1>2, <1>3, <1>4 DEF IInv

LEMMA AskStep ==
    ASSUME IInv, NEW j \in Jobs, NEW f \in Families, Ask(j, f)
    PROVE  IInv'
<1>0. /\ TypeOK /\ job \in [Jobs -> Job]
      /\ recent \in [Families -> Nat] /\ raised \in [Families -> Nat]
      /\ spent \in [Families -> Nat] /\ active \in [Families -> [Patterns -> Nat]]
  BY DEF IInv, TypeOK
<1>1. TypeOK'
  BY <1>0, AnalysisAssumption DEF TypeOK, Ask, Due, Job
<1>2. Accounts'
  <2>. SUFFICES ASSUME NEW g \in Families
                PROVE  /\ spent'[g] = recent'[g] + raised'[g]
                       /\ recent'[g] + Cardinality(Waiting(g))' <= Limit - 1 + Cardinality(Jobs)
    BY DEF Accounts
  <2>1. CASE g # f
    BY <2>1, AskWaits, <1>0 DEF IInv, Accounts, Ask
  <2>2. CASE g = f
    <3>1. recent'[g] <= Limit - 1 /\ recent'[g] \in Nat
      BY <1>0, <2>2, AnalysisAssumption DEF Ask, Due
    <3>2. Cardinality(Waiting(g))' <= Cardinality(Jobs) /\ Cardinality(Waiting(g))' \in Nat
      BY WaitingFinite2
    <3>. QED BY <3>1, <3>2, WaitingFinite, AnalysisAssumption DEF IInv, Accounts, Ask
  <2>. QED BY <2>1, <2>2
<1>3. OneRuleEach'
  BY <1>0 DEF IInv, OneRuleEach, Ask
<1>4. RememberedOnlyIfStored'
  BY <1>0 DEF IInv, RememberedOnlyIfStored, Ask
<1>. QED BY <1>1, <1>2, <1>3, <1>4 DEF IInv

LEMMA FailsStep ==
    ASSUME IInv, NEW j \in Jobs, Fails(j)
    PROVE  IInv'
<1>0. /\ TypeOK /\ job \in [Jobs -> Job]
      /\ recent \in [Families -> Nat] /\ raised \in [Families -> Nat]
      /\ spent \in [Families -> Nat] /\ active \in [Families -> [Patterns -> Nat]]
  BY DEF IInv, TypeOK
<1>1. TypeOK'
  BY <1>0, AnalysisAssumption DEF TypeOK, Fails, Ended, Record, Job, AllSigs
<1>2. Accounts'
  <2> DEFINE f == job[j].family
  <2>. SUFFICES ASSUME NEW g \in Families
                PROVE  /\ spent'[g] = recent'[g] + raised'[g]
                       /\ recent'[g] + Cardinality(Waiting(g))' <= Limit - 1 + Cardinality(Jobs)
    BY DEF Accounts
  <2>1. PICK h \in Families : h = f
    BY <1>0 DEF Fails, Job
  <2>2. Ended(j)
    BY DEF Fails
  <2>3. CASE g # h
    <3>1. Waiting(g)' = Waiting(g)
      BY <1>0, <2>1, <2>2, <2>3, EndedWaits
    <3>. QED BY <1>0, <2>1, <2>3, <3>1 DEF IInv, Accounts, Fails, Ended, Record
  <2>4. CASE g = h
    <3>1. Cardinality(Waiting(g))' = Cardinality(Waiting(g)) - 1
      BY <1>0, <2>1, <2>2, <2>4, EndedWaits
    <3>. QED BY <1>0, <2>1, <2>4, <3>1, WaitingFinite, AnalysisAssumption DEF IInv, Accounts, Fails, Ended, Record
  <2>. QED BY <2>3, <2>4
<1>3. OneRuleEach'
  BY <1>0 DEF IInv, OneRuleEach, Fails
<1>4. RememberedOnlyIfStored'
  BY <1>0 DEF IInv, RememberedOnlyIfStored, Fails
<1>. QED BY <1>1, <1>2, <1>3, <1>4 DEF IInv

LEMMA RaisesStep ==
    ASSUME IInv, NEW j \in Jobs, Raises(j)
    PROVE  IInv'
<1>0. /\ TypeOK /\ job \in [Jobs -> Job]
      /\ recent \in [Families -> Nat] /\ raised \in [Families -> Nat]
      /\ spent \in [Families -> Nat] /\ active \in [Families -> [Patterns -> Nat]]
  BY DEF IInv, TypeOK
<1>1. TypeOK'
  BY <1>0, AnalysisAssumption DEF TypeOK, Raises, Ended, Job, AllSigs
<1>2. Accounts'
  <2> DEFINE f == job[j].family
  <2>. SUFFICES ASSUME NEW g \in Families
                PROVE  /\ spent'[g] = recent'[g] + raised'[g]
                       /\ recent'[g] + Cardinality(Waiting(g))' <= Limit - 1 + Cardinality(Jobs)
    BY DEF Accounts
  <2>1. PICK h \in Families : h = f
    BY <1>0 DEF Raises, Job
  <2>2. Ended(j)
    BY DEF Raises
  <2>3. CASE g # h
    <3>1. Waiting(g)' = Waiting(g)
      BY <1>0, <2>1, <2>2, <2>3, EndedWaits
    <3>. QED BY <1>0, <2>1, <2>3, <3>1 DEF IInv, Accounts, Raises, Ended
  <2>4. CASE g = h
    <3>1. Cardinality(Waiting(g))' = Cardinality(Waiting(g)) - 1
      BY <1>0, <2>1, <2>2, <2>4, EndedWaits
    <3>2. spent'[g] = spent[g] + 1 /\ raised'[g] = raised[g] + 1 /\ recent'[g] = recent[g]
      BY <1>0, <2>1, <2>4 DEF Raises, Ended
    <3>. QED BY <1>0, <3>1, <3>2, WaitingFinite, AnalysisAssumption DEF IInv, Accounts
  <2>. QED BY <2>3, <2>4
<1>3. OneRuleEach'
  BY <1>0 DEF IInv, OneRuleEach, Raises
<1>4. RememberedOnlyIfStored'
  BY <1>0 DEF IInv, RememberedOnlyIfStored, Raises
<1>. QED BY <1>1, <1>2, <1>3, <1>4 DEF IInv

\* What storing an answer does.
LEMMA PersistKeeps ==
    ASSUME IInv, NEW j \in Jobs, job[j].family # NoFamily, Persist(j)
    PROVE  /\ active' \in [Families -> [Patterns -> Nat]]
           /\ OneRuleEach'
           /\ <<job[j].family, job[j].sig>> \in Families \X AllSigs
           /\ stored' = stored \cup {<<job[j].family, job[j].sig>>}
<1>0. /\ job \in [Jobs -> Job] /\ active \in [Families -> [Patterns -> Nat]]
      /\ job[j].family \in Families /\ job[j].sig \in AllSigs
  BY DEF IInv, TypeOK, Job
<1>1. PICK answer \in SUBSET Patterns :
          active' = [active EXCEPT ![job[j].family] =
              [p \in Patterns |-> IF p \in answer THEN WithRule(@[p]) ELSE @[p]]]
  BY DEF Persist
<1>2. \A n \in Nat : WithRule(n) \in Nat /\ (n <= 1 => WithRule(n) <= 1)
  BY DEF WithRule
<1>3. active' \in [Families -> [Patterns -> Nat]]
  BY <1>0, <1>1, <1>2
<1>4. \A f \in Families, p \in Patterns :
          active'[f][p] = active[f][p] \/ active'[f][p] = WithRule(active[f][p])
  BY <1>0, <1>1
<1>5. OneRuleEach'
  BY <1>0, <1>2, <1>4 DEF IInv, OneRuleEach
<1>. QED BY <1>0, <1>3, <1>5 DEF Persist

LEMMA SucceedsStep ==
    ASSUME IInv, NEW j \in Jobs, Succeeds(j)
    PROVE  IInv'
<1>0. /\ TypeOK /\ job \in [Jobs -> Job]
      /\ recent \in [Families -> Nat] /\ raised \in [Families -> Nat]
      /\ spent \in [Families -> Nat] /\ active \in [Families -> [Patterns -> Nat]]
  BY DEF IInv, TypeOK
<1>5. /\ active' \in [Families -> [Patterns -> Nat]] /\ OneRuleEach'
      /\ <<job[j].family, job[j].sig>> \in Families \X AllSigs
      /\ stored' = stored \cup {<<job[j].family, job[j].sig>>}
  BY PersistKeeps DEF Succeeds
<1>1. TypeOK'
  <2>1. job' \in [Jobs -> Job] /\ \A k \in Jobs :
            /\ job'[k].family = NoFamily <=> job'[k].sig = NoLogs
            /\ job'[k].family \notin job'[k].todo
    BY <1>0, AnalysisAssumption DEF TypeOK, Succeeds, Ended, Job, AllSigs
  <2>2. spent' \in [Families -> Nat] /\ recent' \in [Families -> Nat]
        /\ \A f \in Families : spent'[f] >= raised[f]
    BY <1>0 DEF TypeOK, Succeeds, Ended, Record, Job
  <2>. QED BY <1>0, <1>5, <2>1, <2>2 DEF TypeOK, Succeeds, Key
<1>2. Accounts'
  <2> DEFINE f == job[j].family
  <2>. SUFFICES ASSUME NEW g \in Families
                PROVE  /\ spent'[g] = recent'[g] + raised'[g]
                       /\ recent'[g] + Cardinality(Waiting(g))' <= Limit - 1 + Cardinality(Jobs)
    BY DEF Accounts
  <2>1. PICK h \in Families : h = f
    BY <1>0 DEF Succeeds, Job
  <2>2. Ended(j)
    BY DEF Succeeds
  <2>3. CASE g # h
    <3>1. Waiting(g)' = Waiting(g)
      BY <1>0, <2>1, <2>2, <2>3, EndedWaits
    <3>. QED BY <1>0, <2>1, <2>3, <3>1 DEF IInv, Accounts, Succeeds, Ended, Record
  <2>4. CASE g = h
    <3>1. Cardinality(Waiting(g))' = Cardinality(Waiting(g)) - 1
      BY <1>0, <2>1, <2>2, <2>4, EndedWaits
    <3>. QED BY <1>0, <2>1, <2>4, <3>1, WaitingFinite, AnalysisAssumption DEF IInv, Accounts, Succeeds, Ended, Record
  <2>. QED BY <2>3, <2>4
<1>3. OneRuleEach'
  BY <1>5
<1>4. RememberedOnlyIfStored'
  BY <1>5 DEF IInv, RememberedOnlyIfStored, Succeeds, Key
<1>. QED BY <1>1, <1>2, <1>3, <1>4 DEF IInv

LEMMA CrashStep ==
    ASSUME IInv, Crash
    PROVE  IInv'
<1>0. /\ TypeOK /\ job \in [Jobs -> Job]
      /\ recent \in [Families -> Nat] /\ raised \in [Families -> Nat]
      /\ spent \in [Families -> Nat]
  BY DEF IInv, TypeOK
<1>1. /\ active' \in [Families -> [Patterns -> Nat]] /\ OneRuleEach'
      /\ remembered' \subseteq Families \X AllSigs /\ stored' \subseteq Families \X AllSigs
      /\ RememberedOnlyIfStored'
  <2>1. CASE UNCHANGED <<remembered, stored, active>>
    BY <1>0, <2>1 DEF IInv, TypeOK, OneRuleEach, RememberedOnlyIfStored
  <2>2. ASSUME NEW j \in Jobs, job[j].family # NoFamily, Persist(j),
               remembered' \in {remembered, remembered \cup {Key(j)}}
        PROVE  /\ active' \in [Families -> [Patterns -> Nat]] /\ OneRuleEach'
               /\ remembered' \subseteq Families \X AllSigs /\ stored' \subseteq Families \X AllSigs
               /\ RememberedOnlyIfStored'
    BY <1>0, <2>2, PersistKeeps DEF IInv, TypeOK, RememberedOnlyIfStored, Key
  <2>. QED BY <2>1, <2>2 DEF Crash
<1>2. \A f \in Families :
          /\ raised'[f] = raised[f] + Cardinality(Waiting(f))
          /\ spent'[f] = spent[f] + Cardinality(Waiting(f))
          /\ recent'[f] = recent[f]
  BY DEF Crash, Stops
<1>3. /\ raised' \in [Families -> Nat] /\ spent' \in [Families -> Nat]
      /\ \A f \in Families : spent'[f] >= raised'[f]
  <2>1. raised' = [f \in Families |-> raised'[f]] /\ spent' = [f \in Families |-> spent'[f]]
    BY DEF Crash, Stops
  <2>2. \A f \in Families : spent'[f] \in Nat /\ raised'[f] \in Nat /\ spent'[f] >= raised'[f]
    BY <1>0, <1>2, WaitingFinite DEF TypeOK
  <2>. QED BY <2>1, <2>2
<1>4. TypeOK'
  <2>1. Idle \in Job
    BY DEF Idle, Job
  <2>. QED BY <1>0, <1>1, <1>3, <2>1, AnalysisAssumption DEF TypeOK, Crash, Stops, Idle
<1>5. Accounts'
  <2>. SUFFICES ASSUME NEW g \in Families
                PROVE  /\ spent'[g] = recent'[g] + raised'[g]
                       /\ recent'[g] + Cardinality(Waiting(g))' <= Limit - 1 + Cardinality(Jobs)
    BY DEF Accounts
  <2>1. Waiting(g)' = {}
    BY AnalysisAssumption DEF Crash, Stops, Waiting, Idle
  <2>2. /\ spent[g] = recent[g] + raised[g]
        /\ recent[g] + Cardinality(Waiting(g)) <= Limit - 1 + Cardinality(Jobs)
    BY DEF IInv, Accounts
  <2>. QED BY <1>0, <1>2, <2>1, <2>2, WaitingFinite, FS_EmptySet, AnalysisAssumption
<1>. QED BY <1>1, <1>4, <1>5 DEF IInv

LEMMA ExpireStep ==
    ASSUME IInv, NEW k, Expire(k)
    PROVE  IInv'
<1>0. /\ TypeOK /\ job \in [Jobs -> Job]
      /\ recent \in [Families -> Nat] /\ raised \in [Families -> Nat]
      /\ spent \in [Families -> Nat] /\ active \in [Families -> [Patterns -> Nat]]
  BY DEF IInv, TypeOK
<1>1. TypeOK'
  BY <1>0 DEF IInv, Accounts, TypeOK, Expire
<1>2. Accounts'
  <2>1. \A g \in Families : Waiting(g)' = Waiting(g)
    BY DEF Waiting, Expire
  <2>. QED BY <1>0, <2>1, WaitingFinite, AnalysisAssumption DEF IInv, Accounts, Expire
<1>3. OneRuleEach'
  BY <1>0 DEF IInv, OneRuleEach, Expire
<1>4. RememberedOnlyIfStored'
  BY <1>0 DEF IInv, RememberedOnlyIfStored, Expire
<1>. QED BY <1>1, <1>2, <1>3, <1>4 DEF IInv

LEMMA AgeStep ==
    ASSUME IInv, NEW f \in Families, Age(f)
    PROVE  IInv'
<1>0. /\ TypeOK /\ job \in [Jobs -> Job]
      /\ recent \in [Families -> Nat] /\ raised \in [Families -> Nat]
      /\ spent \in [Families -> Nat] /\ active \in [Families -> [Patterns -> Nat]]
  BY DEF IInv, TypeOK
<1>1. TypeOK'
  BY <1>0 DEF IInv, Accounts, TypeOK, Age
<1>2. Accounts'
  <2>1. \A g \in Families : Waiting(g)' = Waiting(g)
    BY DEF Waiting, Age
  <2>. QED BY <1>0, <2>1, WaitingFinite, AnalysisAssumption DEF IInv, Accounts, Age
<1>3. OneRuleEach'
  BY <1>0 DEF IInv, OneRuleEach, Age
<1>4. RememberedOnlyIfStored'
  BY <1>0 DEF IInv, RememberedOnlyIfStored, Age
<1>. QED BY <1>1, <1>2, <1>3, <1>4 DEF IInv

LEMMA AgeRaisedStep ==
    ASSUME IInv, NEW f \in Families, AgeRaised(f)
    PROVE  IInv'
<1>0. /\ TypeOK /\ job \in [Jobs -> Job]
      /\ recent \in [Families -> Nat] /\ raised \in [Families -> Nat]
      /\ spent \in [Families -> Nat] /\ active \in [Families -> [Patterns -> Nat]]
  BY DEF IInv, TypeOK
<1>1. TypeOK'
  BY <1>0 DEF IInv, Accounts, TypeOK, AgeRaised
<1>2. Accounts'
  <2>1. \A g \in Families : Waiting(g)' = Waiting(g)
    BY DEF Waiting, AgeRaised
  <2>. QED BY <1>0, <2>1, WaitingFinite, AnalysisAssumption DEF IInv, Accounts, AgeRaised
<1>3. OneRuleEach'
  BY <1>0 DEF IInv, OneRuleEach, AgeRaised
<1>4. RememberedOnlyIfStored'
  BY <1>0 DEF IInv, RememberedOnlyIfStored, AgeRaised
<1>. QED BY <1>1, <1>2, <1>3, <1>4 DEF IInv

LEMMA LogsChangeStep ==
    ASSUME IInv, NEW f \in Families, NEW s \in Sigs[f] \cup {NoLogs}, LogsChange(f, s)
    PROVE  IInv'
<1>0. /\ TypeOK /\ job \in [Jobs -> Job]
      /\ recent \in [Families -> Nat] /\ raised \in [Families -> Nat]
      /\ spent \in [Families -> Nat] /\ active \in [Families -> [Patterns -> Nat]]
  BY DEF IInv, TypeOK
<1>1. TypeOK'
  BY <1>0 DEF IInv, Accounts, TypeOK, LogsChange, AllSigs
<1>2. Accounts'
  <2>1. \A g \in Families : Waiting(g)' = Waiting(g)
    BY DEF Waiting, LogsChange
  <2>. QED BY <1>0, <2>1, WaitingFinite, AnalysisAssumption DEF IInv, Accounts, LogsChange
<1>3. OneRuleEach'
  BY <1>0 DEF IInv, OneRuleEach, LogsChange
<1>4. RememberedOnlyIfStored'
  BY <1>0 DEF IInv, RememberedOnlyIfStored, LogsChange
<1>. QED BY <1>1, <1>2, <1>3, <1>4 DEF IInv

LEMMA DiscardStep ==
    ASSUME IInv, NEW f \in Families, NEW p \in Patterns, Discard(f, p)
    PROVE  IInv'
<1>0. /\ TypeOK /\ job \in [Jobs -> Job]
      /\ recent \in [Families -> Nat] /\ raised \in [Families -> Nat]
      /\ spent \in [Families -> Nat] /\ active \in [Families -> [Patterns -> Nat]]
  BY DEF IInv, TypeOK
<1>1. TypeOK'
  BY <1>0 DEF IInv, Accounts, TypeOK, Discard
<1>2. Accounts'
  <2>1. \A g \in Families : Waiting(g)' = Waiting(g)
    BY DEF Waiting, Discard
  <2>. QED BY <1>0, <2>1, WaitingFinite, AnalysisAssumption DEF IInv, Accounts, Discard
<1>3. OneRuleEach'
  BY <1>0 DEF IInv, OneRuleEach, Discard
<1>4. RememberedOnlyIfStored'
  BY <1>0 DEF IInv, RememberedOnlyIfStored, Discard
<1>. QED BY <1>1, <1>2, <1>3, <1>4 DEF IInv

LEMMA NextStep == IInv /\ [Next]_vars => IInv'
<1>. SUFFICES ASSUME IInv, [Next]_vars PROVE IInv'
  OBVIOUS
<1>1. ASSUME NEW j \in Jobs, StartAll(j) \/ Go(j) \/ \E f \in Families : StartOne(j, f)
      PROVE  IInv'
  BY <1>1, StartAllStep, StartOneStep, SkipStep, AskStep, FailsStep, RaisesStep, SucceedsStep DEF Go
<1>2. CASE Crash
  BY <1>2, CrashStep
<1>3. ASSUME NEW k \in remembered, Expire(k) PROVE IInv'
  BY <1>3, ExpireStep
<1>4. ASSUME NEW f \in Families,
             \/ Age(f) \/ AgeRaised(f)
             \/ \E s \in Sigs[f] \cup {NoLogs} : LogsChange(f, s)
             \/ \E p \in Patterns : Discard(f, p)
      PROVE  IInv'
  BY <1>4, AgeStep, AgeRaisedStep, LogsChangeStep, DiscardStep
<1>5. CASE UNCHANGED vars
  BY <1>5 DEF IInv, vars, TypeOK, Accounts, Waiting, OneRuleEach, RememberedOnlyIfStored
<1>. QED BY <1>1, <1>2, <1>3, <1>4, <1>5 DEF Next

-----------------------------------------------------------------------------
(* The specification.                                                      *)

\* What the other theorems rest on.
THEOREM Inductive == Spec => []IInv
BY InitInv, NextStep, PTL DEF Spec

\* A run waits for the answer on logs that it has read, of a family it has taken off
\* its list (deepseek_service.py:247-274).
THEOREM TypeCorrect == Spec => []TypeOK
<1>1. IInv => TypeOK
  BY DEF IInv
<1>. QED BY <1>1, Inductive, PTL

\* The daily limit is exceeded by no more calls than there are further runs and
\* calls without a row (deepseek_service.py:8).
THEOREM LimitSafe == Spec => []LimitKept
BY InvLimit, Inductive, PTL

\* No pattern gets two active rules (deepseek_service.py:319-342).
THEOREM RulesOnce == Spec => []OneRuleEach
<1>1. IInv => OneRuleEach
  BY DEF IInv
<1>. QED BY <1>1, Inductive, PTL

\* The analysis skips only logs whose rules were stored (deepseek_service.py:256-296).
THEOREM NoneSkipped == Spec => []RememberedOnlyIfStored
<1>1. IInv => RememberedOnlyIfStored
  BY DEF IInv
<1>. QED BY <1>1, Inductive, PTL
=============================================================================

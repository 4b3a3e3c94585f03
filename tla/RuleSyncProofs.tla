--------------------------- MODULE RuleSyncProofs ---------------------------
(***************************************************************************)
(* Proofs about RuleSync: rule versions grow, and, when a device does not  *)
(* go from one family directly to another, it passes no version without    *)
(* its number rules.                                                       *)
(***************************************************************************)
EXTENDS RuleSync, TLAPS

Numeric(r) == r.kind \in {"black", "white"}

\* What a kind of rule has for a pattern.
Matched(r) == /\ Numeric(r) => r.pattern \in Hashes
              /\ r.kind = "prefix" => r.pattern \in Prefixes

\* The list of device d that the number rule r belongs on has its number.
Holds(d, r) == \/ r.kind = "black" /\ r.pattern \in black[d]
               \/ r.kind = "white" /\ r.pattern \in white[d]

\* The rules of the server: only inactive ones have been discarded, patterns
\* suit kinds, and the versions of a family have a highest one.
ServerOK ==
    /\ \A r \in rules : (r.active => r.status = "effective") /\ Matched(r)
    /\ \A f \in Families : \E v \in Versions(f) : \A w \in Versions(f) : w <= v

\* The answer in a worker's hand suits its kinds.
InHandOK == \A d \in Devices : \A r \in sync[d].rules : Matched(r)

\* A device and its worker are not ahead of the family.
NotAhead ==
    \A d \in Devices : home[d] \in Families =>
        /\ ver[d] <= Latest(home[d])
        /\ sync[d].version <= Latest(home[d])

\* What the device has passed it holds.
Passed ==
    \A d \in Devices : home[d] \in Families =>
        \A r \in Of(home[d]) :
            Effective(r) /\ Numeric(r) /\ r.version <= ver[d] => Holds(d, r)

\* What the worker is about to pass, the device holds or the worker has in hand.
InHand ==
    \A d \in Devices : home[d] \in Families /\ sync[d].phase \in {"answered", "applying"} =>
        \A r \in Of(home[d]) :
            Effective(r) /\ Numeric(r) /\ r.version <= sync[d].version =>
                \/ Holds(d, r)
                \/ \E s \in sync[d].rules : s.kind = r.kind /\ s.pattern = r.pattern

Basic == TypeOK /\ ServerOK /\ InHandOK
IInv == Basic /\ NotAhead /\ Passed /\ InHand

-----------------------------------------------------------------------------
(* Versions.                                                               *)

\* Latest is the highest version of the family.
LEMMA LatestHighest ==
    ASSUME Basic, NEW f \in Families
    PROVE  /\ Latest(f) \in Versions(f)
           /\ \A w \in Versions(f) : w <= Latest(f)
           /\ Latest(f) \in Nat
           /\ \A r \in Of(f) : r.version <= Latest(f)
<1>1. PICK v \in Versions(f) : \A w \in Versions(f) : w <= v
  BY DEF Basic, ServerOK
<1>2. Latest(f) \in Versions(f) /\ \A w \in Versions(f) : w <= Latest(f)
  BY <1>1 DEF Latest
<1>3. Versions(f) \subseteq Nat
  BY RuleAssumption DEF Versions, Of, Basic, TypeOK, Rule
<1>. QED BY <1>2, <1>3 DEF Versions

LEMMA LatestNat == Basic => \A f \in Families : Latest(f) \in Nat
BY LatestHighest

\* What an operation of the server on family f does to the rules.
Grown(f) ==
    /\ \A n \in rules' :
          \/ n \in rules
          \/ ~ n.active /\ \E r \in rules : r.family = n.family /\ r.version = n.version
          \/ /\ n.family = f /\ n.version = NextVersion(f)
             /\ n.active /\ n.status = "effective"
    /\ \A r \in rules : \E n \in rules' : n.family = r.family /\ n.version = r.version
    /\ rules' \subseteq Rule
    /\ \A n \in rules' : Matched(n)
    /\ UNCHANGED <<home, ver, black, white, gray, sync>>

LEMMA NewRuleGood ==
    ASSUME Basic, NEW f \in Families, NextVersion(f) <= MaxVersion,
           NEW k \in Kind, NEW p \in Pattern
    PROVE  /\ NewRule(f, k, p) \in Rule
           /\ NewRule(f, k, p).family = f /\ NewRule(f, k, p).version = NextVersion(f)
           /\ NewRule(f, k, p).active /\ NewRule(f, k, p).status = "effective"
           /\ NewRule(f, k, p).kind = k /\ NewRule(f, k, p).pattern = p
<1>1. NextVersion(f) \in 1..MaxVersion
  BY LatestHighest, RuleAssumption DEF NextVersion
<1>. QED BY <1>1 DEF NewRule, Rule, Status

LEMMA DiscardGood ==
    ASSUME NEW r \in Rule
    PROVE  /\ Discard(r) \in Rule
           /\ ~ Discard(r).active
           /\ Discard(r).family = r.family /\ Discard(r).version = r.version
           /\ Discard(r).kind = r.kind /\ Discard(r).pattern = r.pattern
BY DEF Discard, Rule, Status

LEMMA FeedbackGrows ==
    ASSUME Basic, NEW f \in Families, NEW h \in Hashes, NEW k \in {"black", "white"},
           ApplyFeedback(f, h, k)
    PROVE  Grown(f)
<1> DEFINE opposite == {r \in Of(f) : r.pattern = h /\ r.kind = "white"}
           new == NewRule(f, k, h)
<1>1. /\ rules' = (rules \ opposite) \cup {Discard(r) : r \in opposite} \cup {new}
      /\ NextVersion(f) <= MaxVersion
      /\ UNCHANGED <<home, ver, black, white, gray, sync>>
  BY DEF ApplyFeedback
<1>2. rules \subseteq Rule /\ opposite \subseteq rules
  BY DEF Basic, TypeOK, Of
<1>3. /\ new \in Rule /\ new.family = f /\ new.version = NextVersion(f)
      /\ new.active /\ new.status = "effective" /\ new.kind = k /\ new.pattern = h
  BY <1>1, NewRuleGood DEF Kind, Pattern
<1>4. \A r \in opposite :
          /\ Discard(r) \in Rule /\ ~ Discard(r).active
          /\ Discard(r).family = r.family /\ Discard(r).version = r.version
          /\ Discard(r).kind = r.kind /\ Discard(r).pattern = r.pattern
  BY <1>2, DiscardGood
<1>5. \A r \in rules : Matched(r)
  BY DEF Basic, ServerOK
<1>6. \A n \in rules' : Matched(n)
  BY <1>1, <1>2, <1>3, <1>4, <1>5 DEF Matched, Numeric
<1>7. \A r \in rules : \E n \in rules' : n.family = r.family /\ n.version = r.version
  <2> TAKE r \in rules
  <2>1. CASE r \in opposite
    BY <2>1, <1>1, <1>4
  <2>2. CASE r \notin opposite
    BY <2>2, <1>1
  <2>. QED BY <2>1, <2>2
<1> HIDE DEF opposite, new
<1>. QED BY <1>1, <1>2, <1>3, <1>4, <1>6, <1>7 DEF Grown

LEMMA BatchGrows ==
    ASSUME Basic, NEW f \in Families, NEW batch,
           batch \subseteq Kind \X Pattern,
           \A b \in batch : /\ b[1] \in {"black", "white"} => b[2] \in Hashes
                            /\ b[1] = "prefix" => b[2] \in Prefixes,
           PublishBatch(f, batch)
    PROVE  Grown(f)
<1>1. /\ rules' = rules \cup {NewRule(f, b[1], b[2]) : b \in batch}
      /\ NextVersion(f) <= MaxVersion
      /\ UNCHANGED <<home, ver, black, white, gray, sync>>
  BY DEF PublishBatch
<1>2. \A b \in batch :
          LET new == NewRule(f, b[1], b[2])
          IN  /\ new \in Rule /\ new.family = f /\ new.version = NextVersion(f)
              /\ new.active /\ new.status = "effective"
              /\ new.kind = b[1] /\ new.pattern = b[2]
  BY <1>1, NewRuleGood
<1>3. rules \subseteq Rule /\ \A r \in rules : Matched(r)
  BY DEF Basic, TypeOK, ServerOK
<1>4. \A n \in rules' : Matched(n)
  BY <1>1, <1>2, <1>3 DEF Matched, Numeric
<1>. QED BY <1>1, <1>2, <1>3, <1>4 DEF Grown

LEMMA ReviewGrows ==
    ASSUME Basic, NEW f \in Families, NEW r \in Of(f), NEW approve \in BOOLEAN,
           Review(f, r, approve)
    PROVE  Grown(f)
<1> DEFINE n == IF approve THEN [r EXCEPT !.status = "effective"] ELSE Discard(r)
<1>1. /\ rules' = (rules \ {r}) \cup {n}
      /\ UNCHANGED <<home, ver, black, white, gray, sync>>
  BY DEF Review
<1>2. /\ r \in rules /\ r \in Rule /\ rules \subseteq Rule
      /\ \A s \in rules : (s.active => s.status = "effective") /\ Matched(s)
  BY DEF Of, Basic, TypeOK, ServerOK
<1>3. /\ n \in Rule
      /\ n.family = r.family /\ n.version = r.version
      /\ n.kind = r.kind /\ n.pattern = r.pattern
      /\ n = r \/ ~ n.active
  BY <1>2, DiscardGood DEF Rule, Status
<1>4. \A s \in rules' : Matched(s)
  BY <1>1, <1>2, <1>3 DEF Matched, Numeric
<1> HIDE DEF n
<1>. QED BY <1>1, <1>2, <1>3, <1>4 DEF Grown

\* Every operation of the server.
Serves(f) == Aggregate(f) \/ PersistAnalysis(f) \/ MemberActs(f)

LEMMA ServerGrows ==
    ASSUME Basic, NEW f \in Families, Serves(f)
    PROVE  Grown(f)
<1>1. CASE Aggregate(f)
  <2>1. PICK batch \in SUBSET ({"black", "white"} \X Hashes) : PublishBatch(f, batch)
    BY <1>1 DEF Aggregate
  <2>. QED BY <2>1, BatchGrows DEF Kind, Pattern
<1>2. CASE PersistAnalysis(f)
  <2>1. PICK batch \in SUBSET (({"prefix"} \X Prefixes) \cup ({"behavior"} \X Behaviors)) :
            PublishBatch(f, batch)
    BY <1>2 DEF PersistAnalysis
  <2>. QED BY <2>1, BatchGrows DEF Kind, Pattern
<1>3. CASE MemberActs(f)
  BY <1>3, FeedbackGrows, ReviewGrows DEF MemberActs
<1>. QED BY <1>1, <1>2, <1>3 DEF Serves

-----------------------------------------------------------------------------
(* Operations of the server preserve the invariant.                        *)

LEMMA GrownKeepsBasic ==
    ASSUME Basic, NEW f \in Families, Grown(f)
    PROVE  /\ Basic'
           /\ \A g \in Families : Latest(g) <= Latest(g)' /\ Latest(g)' \in Nat
<1>1. /\ rules' \subseteq Rule /\ rules \subseteq Rule
      /\ UNCHANGED <<home, ver, black, white, gray, sync>>
  BY DEF Grown, Basic, TypeOK
<1>2. TypeOK'
  BY <1>1 DEF Basic, TypeOK
<1>3. InHandOK'
  BY <1>1 DEF Basic, InHandOK, Matched, Numeric
<1>4. \A r \in rules' : (r.active => r.status = "effective") /\ Matched(r)'
  BY DEF Grown, Basic, ServerOK, Matched, Numeric
<1>5. \A g \in Families : Versions(g) \subseteq Versions(g)'
  BY DEF Grown, Versions, Of
<1>6. NextVersion(f) \in Nat /\ NextVersion(f) = Latest(f) + 1
  BY LatestHighest DEF NextVersion
<1>7. \A g \in Families : Versions(g)' \subseteq Versions(g) \cup {NextVersion(g)}
  BY DEF Grown, Versions, Of
<1>8. \A g \in Families : \E v \in Versions(g)' : \A w \in Versions(g)' : w <= v
  <2> TAKE g \in Families
  <2>1. /\ Latest(g) \in Versions(g) /\ \A w \in Versions(g) : w <= Latest(g)
        /\ Latest(g) \in Nat /\ NextVersion(g) = Latest(g) + 1
        /\ Versions(g) \subseteq Nat
    BY LatestHighest, RuleAssumption DEF NextVersion, Versions, Of, Basic, TypeOK, Rule
  <2>2. CASE NextVersion(g) \in Versions(g)'
    BY <2>1, <2>2, <1>7
  <2>3. CASE NextVersion(g) \notin Versions(g)'
    <3>1. Versions(g)' \subseteq Versions(g) /\ Latest(g) \in Versions(g)'
      BY <2>1, <2>3, <1>5, <1>7
    <3>. QED BY <2>1, <3>1
  <2>. QED BY <2>2, <2>3
<1>9. Basic'
  BY <1>2, <1>3, <1>4, <1>8 DEF Basic, ServerOK
<1>10. \A g \in Families : Latest(g) <= Latest(g)' /\ Latest(g)' \in Nat
  <2> TAKE g \in Families
  <2>1. PICK v \in Versions(g)' : \A w \in Versions(g)' : w <= v
    BY <1>8
  <2>2. Latest(g)' \in Versions(g)' /\ \A w \in Versions(g)' : w <= Latest(g)'
    BY <2>1 DEF Latest
  <2>3. Latest(g) \in Versions(g)
    BY LatestHighest
  <2>4. Versions(g)' \subseteq Nat
    BY <1>1, RuleAssumption DEF Versions, Of, Rule
  <2>. QED BY <2>2, <2>3, <2>4, <1>5
<1>. QED BY <1>9, <1>10

LEMMA GrownKeeps ==
    ASSUME IInv, NEW f \in Families, Grown(f)
    PROVE  IInv'
<1>1. /\ Basic' /\ \A g \in Families : Latest(g) <= Latest(g)'
      /\ \A g \in Families : Latest(g) \in Nat /\ Latest(g)' \in Nat
  BY GrownKeepsBasic, LatestNat DEF IInv
<1>2. UNCHANGED <<home, ver, black, white, gray, sync>>
  BY DEF Grown
<1>3. \A d \in Devices : home[d] \in Families =>
          \A r \in Of(home[d])' : Effective(r) =>
              r \in Of(home[d]) \/ r.version = Latest(home[d]) + 1
  BY <1>2 DEF Grown, Of, Effective, NextVersion
<1>4. NotAhead'
  BY <1>1, <1>2 DEF IInv, NotAhead, Basic, TypeOK, Sync
<1>5. \A d \in Devices : ver[d] \in Nat /\ sync[d].version \in Nat
  BY RuleAssumption DEF IInv, Basic, TypeOK, Sync
<1>6. Passed'
  BY <1>1, <1>2, <1>3, <1>5 DEF IInv, NotAhead, Passed, Holds, Numeric, Effective
<1>7. InHand'
  BY <1>1, <1>2, <1>3, <1>5 DEF IInv, NotAhead, InHand, Holds, Numeric, Effective
<1>. QED BY <1>1, <1>4, <1>6, <1>7 DEF IInv

-----------------------------------------------------------------------------
(* Steps of devices preserve the basic facts, with direct changes of family *)
(* or without.                                                             *)

\* Only the worker of one device moves; it may fill the lists.
WorkerStep(d) ==
    /\ UNCHANGED <<rules, home>>
    /\ sync'[d] \in Sync
    /\ sync' = [sync EXCEPT ![d] = sync'[d]]
    /\ \A e \in Devices \ {d} : ver'[e] = ver[e]
    /\ \A e \in Devices : black[e] \subseteq black'[e] /\ white[e] \subseteq white'[e]

LEMMA WorkerKeepsBasic ==
    ASSUME Basic, NEW d \in Devices, WorkerStep(d), \A r \in sync'[d].rules : Matched(r),
           ver' \in [Devices -> 0..MaxVersion],
           black' \in [Devices -> SUBSET Hashes], white' \in [Devices -> SUBSET Hashes],
           gray' \in [Devices -> SUBSET Prefixes],
           sync'[d].phase = "idle" => sync'[d] = IdleSync,
           sync'[d].phase = "asked" => sync'[d].version = ver'[d],
           sync'[d].phase = "applying" => \A r \in sync'[d].rules : Numeric(r)
    PROVE  Basic'
<1>1. /\ UNCHANGED <<rules, home>>
      /\ \A e \in Devices \ {d} : sync'[e] = sync[e] /\ ver'[e] = ver[e]
      /\ sync' \in [Devices -> Sync]
  BY DEF WorkerStep, Basic, TypeOK
<1>2. \A e \in Devices : \A r \in sync'[e].rules : Matched(r)
  BY <1>1 DEF Basic, InHandOK
<1>3. \A r \in sync'[d].rules : Numeric(r) => <<r.kind, r.pattern>> \in NumberItems
  BY DEF Matched, Numeric, NumberItems
<1>4. TypeOK'
  BY <1>1, <1>3 DEF Basic, TypeOK, IdleSync, NumberItems
<1>5. ServerOK'
  BY <1>1 DEF Basic, ServerOK, Matched, Numeric, Versions, Of
<1>6. InHandOK'
  BY <1>1, <1>2 DEF InHandOK, Matched, Numeric
<1>. QED BY <1>4, <1>5, <1>6 DEF Basic

\* What each step of the worker does.
LEMMA AskSteps ==
    ASSUME Basic, NEW d \in Devices, Ask(d)
    PROVE  /\ Basic' /\ WorkerStep(d)
           /\ sync'[d].phase = "asked" /\ sync'[d].version = ver[d]
           /\ UNCHANGED <<ver, black, white>>
<1>1. /\ sync' = [sync EXCEPT ![d] = [phase |-> "asked", version |-> ver[d], rules |-> {}]]
      /\ UNCHANGED <<rules, home, ver, black, white, gray>>
  BY DEF Ask
<1>2. sync'[d] = [phase |-> "asked", version |-> ver[d], rules |-> {}] /\ sync'[d] \in Sync
  BY <1>1 DEF Basic, TypeOK, Sync, Phase
<1>3. WorkerStep(d)
  BY <1>1, <1>2 DEF WorkerStep
<1>4. Basic'
  BY <1>1, <1>2, <1>3, WorkerKeepsBasic DEF Basic, TypeOK
<1>. QED BY <1>1, <1>2, <1>3, <1>4

LEMMA IncrementGood ==
    ASSUME Basic, NEW d \in Devices
    PROVE  /\ Increment(home[d], sync[d].version) \in Sync
           /\ Increment(home[d], sync[d].version).phase = "answered"
           /\ \A r \in Increment(home[d], sync[d].version).rules : Matched(r)
           /\ home[d] \in Families =>
                Increment(home[d], sync[d].version) =
                    [phase |-> "answered", version |-> Latest(home[d]),
                     rules |-> {r \in Of(home[d]) : r.version > sync[d].version /\ Effective(r)}]
<1>1. home[d] \in Families \cup {NoFamily} /\ NoFamily \notin Families /\ MaxVersion \in Nat
  BY RuleAssumption DEF Basic, TypeOK
<1>2. CASE home[d] = NoFamily
  <2>1. Increment(home[d], sync[d].version) =
            [phase |-> "answered", version |-> 0, rules |-> {}]
    BY <1>2 DEF Increment
  <2>2. [phase |-> "answered", version |-> 0, rules |-> {}] \in Sync
    BY <1>1 DEF Sync, Phase
  <2>. QED BY <1>1, <1>2, <2>1, <2>2
<1>3. CASE home[d] \in Families
  <2>1. Latest(home[d]) \in 0..MaxVersion
    BY <1>1, <1>3, LatestHighest DEF Versions, Of, Basic, TypeOK, Rule
  <2> DEFINE fresh == {r \in Of(home[d]) : r.version > sync[d].version /\ Effective(r)}
  <2>2. fresh \subseteq rules /\ rules \subseteq Rule
    BY DEF Of, Basic, TypeOK
  <2>3. Increment(home[d], sync[d].version) =
            [phase |-> "answered", version |-> Latest(home[d]), rules |-> fresh]
    BY <1>1, <1>3 DEF Increment
  <2>4. \A r \in fresh : Matched(r)
    BY <2>2 DEF Basic, ServerOK
  <2> HIDE DEF fresh
  <2>5. [phase |-> "answered", version |-> Latest(home[d]), rules |-> fresh] \in Sync
    BY <2>1, <2>2 DEF Sync, Phase
  <2>6. /\ Increment(home[d], sync[d].version) \in Sync
        /\ Increment(home[d], sync[d].version).phase = "answered"
        /\ \A r \in Increment(home[d], sync[d].version).rules : Matched(r)
    BY <2>3, <2>4, <2>5
  <2>. QED BY <2>3, <2>6 DEF fresh
<1>. QED BY <1>1, <1>2, <1>3

LEMMA AnswerSteps ==
    ASSUME Basic, NEW d \in Devices, Answer(d)
    PROVE  /\ Basic' /\ WorkerStep(d)
           /\ sync'[d] = Increment(home[d], sync[d].version)
           /\ sync[d].version = ver[d]
           /\ UNCHANGED <<ver, black, white>>
<1>1. /\ sync[d].phase = "asked"
      /\ sync' = [sync EXCEPT ![d] = Increment(home[d], sync[d].version)]
      /\ UNCHANGED <<rules, home, ver, black, white, gray>>
  BY DEF Answer
<1>2. sync'[d] = Increment(home[d], sync[d].version)
  BY <1>1 DEF Basic, TypeOK
<1>3. WorkerStep(d)
  BY <1>1, <1>2, IncrementGood DEF WorkerStep
<1>4. Basic'
  BY <1>1, <1>2, <1>3, IncrementGood, WorkerKeepsBasic DEF Basic, TypeOK
<1>. QED BY <1>1, <1>2, <1>3, <1>4 DEF Basic, TypeOK

LEMMA ReplaceGraySteps ==
    ASSUME Basic, NEW d \in Devices, ReplaceGray(d)
    PROVE  /\ Basic' /\ WorkerStep(d)
           /\ sync[d].phase = "answered"
           /\ sync'[d].phase = "applying" /\ sync'[d].version = sync[d].version
           /\ sync'[d].rules = {r \in sync[d].rules : Numeric(r)}
           /\ UNCHANGED <<ver, black, white>>
<1> DEFINE prefixes == {r.pattern : r \in {s \in sync[d].rules : s.kind = "prefix"}}
<1>1. /\ sync[d].phase = "answered"
      /\ gray' = [gray EXCEPT ![d] = IF prefixes = {} THEN @ ELSE prefixes]
      /\ sync' = [sync EXCEPT ![d].phase = "applying",
                        ![d].rules = {r \in @ : r.kind \in {"black", "white"}}]
      /\ UNCHANGED <<rules, home, ver, black, white>>
  BY DEF ReplaceGray
<1>2. sync[d] \in Sync /\ sync \in [Devices -> Sync]
  BY DEF Basic, TypeOK
<1>3. sync'[d] = [phase |-> "applying", version |-> sync[d].version,
                  rules |-> {r \in sync[d].rules : Numeric(r)}]
  BY <1>1, <1>2 DEF Sync, Numeric
<1>4. sync'[d] \in Sync /\ sync' = [sync EXCEPT ![d] = sync'[d]]
  BY <1>1, <1>2, <1>3 DEF Sync, Phase
<1>5. \A r \in sync[d].rules : Matched(r)
  BY DEF Basic, InHandOK
<1>6. gray' \in [Devices -> SUBSET Prefixes]
  <2>1. prefixes \subseteq Prefixes
    BY <1>5 DEF Matched
  <2> HIDE DEF prefixes
  <2>. QED BY <1>1, <2>1 DEF Basic, TypeOK
<1>7. WorkerStep(d)
  BY <1>1, <1>4 DEF WorkerStep
<1>8. \A r \in sync'[d].rules : Matched(r) /\ Numeric(r)
  BY <1>3, <1>5
<1>9. /\ sync'[d].phase = "applying" /\ sync'[d].version = sync[d].version
      /\ sync'[d].rules = {r \in sync[d].rules : Numeric(r)}
  BY <1>3
<1>10. /\ ver' \in [Devices -> 0..MaxVersion]
       /\ black' \in [Devices -> SUBSET Hashes] /\ white' \in [Devices -> SUBSET Hashes]
  BY <1>1 DEF Basic, TypeOK
<1>11. Basic'
  BY <1>6, <1>7, <1>8, <1>9, <1>10, WorkerKeepsBasic
<1>. QED BY <1>1, <1>7, <1>9, <1>11

LEMMA AddNumberSteps ==
    ASSUME Basic, NEW d \in Devices, AddNumber(d)
    PROVE  /\ Basic' /\ WorkerStep(d)
           /\ sync[d].phase = "applying"
           /\ \E s \in sync[d].rules :
                 /\ sync'[d] = [sync[d] EXCEPT !.rules = @ \ {s}]
                 /\ \A r : r.kind = s.kind /\ r.pattern = s.pattern => Holds(d, r)'
           /\ UNCHANGED ver
<1>1. PICK s \in sync[d].rules :
         /\ black' = IF s.kind = "black"
                     THEN [black EXCEPT ![d] = @ \cup {s.pattern}] ELSE black
         /\ white' = IF s.kind = "white"
                     THEN [white EXCEPT ![d] = @ \cup {s.pattern}] ELSE white
         /\ sync' = [sync EXCEPT ![d].rules = @ \ {s}]
  BY DEF AddNumber
<1>2. sync[d].phase = "applying" /\ UNCHANGED <<rules, home, ver, gray>>
  BY DEF AddNumber
<1>3. sync[d] \in Sync /\ sync \in [Devices -> Sync]
  BY DEF Basic, TypeOK
<1>4. /\ sync'[d] = [sync[d] EXCEPT !.rules = @ \ {s}]
      /\ sync'[d] \in Sync /\ sync' = [sync EXCEPT ![d] = sync'[d]]
  BY <1>1, <1>3 DEF Sync
<1>5. \A r \in sync[d].rules : Numeric(r) /\ Matched(r)
  BY <1>2 DEF Basic, TypeOK, InHandOK, NumberItems, Numeric
<1>6. /\ black' \in [Devices -> SUBSET Hashes] /\ white' \in [Devices -> SUBSET Hashes]
      /\ \A e \in Devices : black[e] \subseteq black'[e] /\ white[e] \subseteq white'[e]
  BY <1>1, <1>5 DEF Basic, TypeOK, Matched
<1>7. \A r : r.kind = s.kind /\ r.pattern = s.pattern => Holds(d, r)'
  BY <1>1, <1>5 DEF Holds, Numeric, Basic, TypeOK
<1>8. WorkerStep(d)
  BY <1>2, <1>4, <1>6 DEF WorkerStep
<1>9. sync'[d].phase = "applying" /\ sync'[d].rules \subseteq sync[d].rules
  BY <1>2, <1>3, <1>4 DEF Sync
<1>10. Basic'
  BY <1>2, <1>5, <1>6, <1>8, <1>9, WorkerKeepsBasic DEF Basic, TypeOK
<1>. QED BY <1>2, <1>4, <1>7, <1>8, <1>10

LEMMA SaveVersionSteps ==
    ASSUME Basic, NEW d \in Devices, SaveVersion(d)
    PROVE  /\ Basic' /\ WorkerStep(d)
           /\ sync[d].phase = "applying" /\ sync[d].rules = {}
           /\ ver'[d] = sync[d].version /\ sync'[d] = IdleSync
           /\ UNCHANGED <<black, white>>
<1>1. /\ sync[d].phase = "applying" /\ sync[d].rules = {}
      /\ ver' = [ver EXCEPT ![d] = sync[d].version]
      /\ sync' = [sync EXCEPT ![d] = IdleSync]
      /\ UNCHANGED <<rules, home, black, white, gray>>
  BY DEF SaveVersion
<1>2. /\ ver'[d] = sync[d].version /\ ver' \in [Devices -> 0..MaxVersion]
      /\ \A e \in Devices \ {d} : ver'[e] = ver[e]
  BY <1>1 DEF Basic, TypeOK, Sync
<1>3. sync'[d] = IdleSync /\ sync'[d] \in Sync
  BY <1>1, RuleAssumption DEF Basic, TypeOK, Sync, IdleSync, Phase
<1>4. WorkerStep(d)
  BY <1>1, <1>2, <1>3 DEF WorkerStep
<1>5. Basic'
  BY <1>1, <1>2, <1>3, <1>4, WorkerKeepsBasic DEF Basic, TypeOK, IdleSync
<1>. QED BY <1>1, <1>2, <1>3, <1>4, <1>5

LEMMA AbortSteps ==
    ASSUME Basic, NEW d \in Devices, Abort(d)
    PROVE  Basic' /\ WorkerStep(d) /\ sync'[d] = IdleSync /\ UNCHANGED <<ver, black, white>>
<1>1. /\ sync' = [sync EXCEPT ![d] = IdleSync]
      /\ UNCHANGED <<rules, home, ver, black, white, gray>>
  BY DEF Abort
<1>2. sync'[d] = IdleSync /\ sync'[d] \in Sync
  BY <1>1, RuleAssumption DEF Basic, TypeOK, Sync, IdleSync, Phase
<1>3. WorkerStep(d)
  BY <1>1, <1>2 DEF WorkerStep
<1>4. Basic'
  BY <1>1, <1>2, <1>3, WorkerKeepsBasic DEF Basic, TypeOK, IdleSync
<1>. QED BY <1>1, <1>2, <1>3, <1>4

\* Changes of family.
LEMMA MoveKeepsBasic ==
    ASSUME Basic, NEW d \in Devices, NEW h \in Families \cup {NoFamily},
           home' = [home EXCEPT ![d] = h],
           UNCHANGED <<rules, ver, black, white, gray, sync>>
    PROVE  Basic'
BY DEF Basic, TypeOK, ServerOK, InHandOK, Matched, Numeric, Versions, Of, NumberItems

-----------------------------------------------------------------------------
(* Steps of devices preserve the invariant.                                *)

\* What has to be seen of a step of a worker.
LEMMA WorkerKeeps ==
    ASSUME IInv, NEW d \in Devices, WorkerStep(d), Basic',
           home[d] \in Families =>
              /\ ver'[d] <= Latest(home[d]) /\ sync'[d].version <= Latest(home[d])
              /\ \A r \in Of(home[d]) : Effective(r) /\ Numeric(r) =>
                    /\ r.version <= ver'[d] => Holds(d, r)'
                    /\ sync'[d].phase \in {"answered", "applying"}
                          /\ r.version <= sync'[d].version =>
                       \/ Holds(d, r)'
                       \/ \E s \in sync'[d].rules : s.kind = r.kind /\ s.pattern = r.pattern
    PROVE  IInv'
<1>1. /\ UNCHANGED <<rules, home>>
      /\ \A e \in Devices \ {d} : sync'[e] = sync[e] /\ ver'[e] = ver[e]
      /\ \A e \in Devices : black[e] \subseteq black'[e] /\ white[e] \subseteq white'[e]
  BY DEF WorkerStep, IInv, Basic, TypeOK
<1>2. \A g \in Families : Latest(g)' = Latest(g) /\ Of(g)' = Of(g)
  BY <1>1 DEF Latest, Versions, Of
<1>3. \A e \in Devices : \A r : Holds(e, r) => Holds(e, r)'
  BY <1>1 DEF Holds
<1>4. NotAhead'
  BY <1>1, <1>2 DEF NotAhead, IInv
<1>5. Passed'
  BY <1>1, <1>2, <1>3 DEF Passed, IInv, Effective, Numeric
<1>6. InHand'
  BY <1>1, <1>2, <1>3 DEF InHand, IInv, Effective, Numeric
<1>. QED BY <1>4, <1>5, <1>6 DEF IInv

LEMMA AskKeeps ==
    ASSUME IInv, NEW d \in Devices, Ask(d)
    PROVE  IInv'
<1>1. /\ Basic' /\ WorkerStep(d)
      /\ sync'[d].phase = "asked" /\ sync'[d].version = ver[d]
      /\ UNCHANGED <<ver, black, white>>
  BY AskSteps DEF IInv
<1>2. home[d] \in Families =>
          /\ ver[d] <= Latest(home[d])
          /\ \A r \in Of(home[d]) : Effective(r) /\ Numeric(r) /\ r.version <= ver[d] =>
                Holds(d, r)'
  BY <1>1 DEF IInv, NotAhead, Passed, Holds
<1>. QED BY <1>1, <1>2, WorkerKeeps

LEMMA AnswerKeeps ==
    ASSUME IInv, NEW d \in Devices, Answer(d)
    PROVE  IInv'
<1>1. /\ Basic' /\ WorkerStep(d)
      /\ sync'[d] = Increment(home[d], sync[d].version)
      /\ sync[d].version = ver[d]
      /\ UNCHANGED <<ver, black, white>>
  BY AnswerSteps DEF IInv
<1>2. ASSUME home[d] \in Families
      PROVE  /\ ver'[d] <= Latest(home[d]) /\ sync'[d].version <= Latest(home[d])
             /\ \A r \in Of(home[d]) : Effective(r) /\ Numeric(r) =>
                   /\ r.version <= ver'[d] => Holds(d, r)'
                   /\ \/ Holds(d, r)'
                      \/ \E s \in sync'[d].rules : s.kind = r.kind /\ s.pattern = r.pattern
  <2>1. sync'[d] = [phase |-> "answered", version |-> Latest(home[d]),
                    rules |-> {r \in Of(home[d]) : r.version > ver[d] /\ Effective(r)}]
    BY <1>1, <1>2, IncrementGood DEF IInv
  <2>2. Latest(home[d]) \in Nat /\ ver[d] \in Nat /\ ver[d] <= Latest(home[d])
    BY <1>2, LatestNat DEF IInv, NotAhead, Basic, TypeOK
  <2>3. \A r \in Of(home[d]) : r.version \in Nat
    BY RuleAssumption DEF Of, IInv, Basic, TypeOK, Rule
  <2>4. \A r \in Of(home[d]) : Effective(r) /\ Numeric(r) /\ r.version <= ver[d] =>
            Holds(d, r)'
    BY <1>1, <1>2 DEF IInv, Passed, Holds
  <2>5. \A r \in Of(home[d]) : Effective(r) /\ r.version > ver[d] => r \in sync'[d].rules
    BY <2>1
  <2>. QED BY <1>1, <2>1, <2>2, <2>3, <2>4, <2>5
<1>. QED BY <1>1, <1>2, WorkerKeeps

LEMMA ReplaceGrayKeeps ==
    ASSUME IInv, NEW d \in Devices, ReplaceGray(d)
    PROVE  IInv'
<1>1. /\ Basic' /\ WorkerStep(d)
      /\ sync[d].phase = "answered"
      /\ sync'[d].version = sync[d].version
      /\ sync'[d].rules = {r \in sync[d].rules : Numeric(r)}
      /\ UNCHANGED <<ver, black, white>>
  BY ReplaceGraySteps DEF IInv
<1>2. \A r, s : Numeric(r) /\ s.kind = r.kind => Numeric(s)
  BY DEF Numeric
<1>3. home[d] \in Families =>
          /\ ver[d] <= Latest(home[d]) /\ sync[d].version <= Latest(home[d])
          /\ \A r \in Of(home[d]) : Effective(r) /\ Numeric(r) =>
                /\ r.version <= ver[d] => Holds(d, r)'
                /\ r.version <= sync[d].version =>
                   \/ Holds(d, r)'
                   \/ \E s \in sync[d].rules : s.kind = r.kind /\ s.pattern = r.pattern
  BY <1>1 DEF IInv, NotAhead, Passed, InHand, Holds
<1>. QED BY <1>1, <1>2, <1>3, WorkerKeeps

LEMMA AddNumberKeeps ==
    ASSUME IInv, NEW d \in Devices, AddNumber(d)
    PROVE  IInv'
<1>1. Basic' /\ WorkerStep(d) /\ sync[d].phase = "applying" /\ UNCHANGED ver
  BY AddNumberSteps DEF IInv
<1>2. PICK s \in sync[d].rules :
          /\ sync'[d] = [sync[d] EXCEPT !.rules = @ \ {s}]
          /\ \A r : r.kind = s.kind /\ r.pattern = s.pattern => Holds(d, r)'
  BY AddNumberSteps DEF IInv
<1>3. sync'[d].version = sync[d].version /\ sync'[d].rules = sync[d].rules \ {s}
  BY <1>2 DEF IInv, Basic, TypeOK, Sync
<1>4. \A r : Holds(d, r) => Holds(d, r)'
  BY <1>1 DEF WorkerStep, Holds
<1>5. home[d] \in Families =>
          /\ ver[d] <= Latest(home[d]) /\ sync[d].version <= Latest(home[d])
          /\ \A r \in Of(home[d]) : Effective(r) /\ Numeric(r) =>
                /\ r.version <= ver[d] => Holds(d, r)
                /\ r.version <= sync[d].version =>
                   \/ Holds(d, r)
                   \/ \E t \in sync[d].rules : t.kind = r.kind /\ t.pattern = r.pattern
  BY <1>1 DEF IInv, NotAhead, Passed, InHand
<1>. QED BY <1>1, <1>2, <1>3, <1>4, <1>5, WorkerKeeps

LEMMA SaveVersionKeeps ==
    ASSUME IInv, NEW d \in Devices, SaveVersion(d)
    PROVE  IInv'
<1>1. /\ Basic' /\ WorkerStep(d)
      /\ sync[d].phase = "applying" /\ sync[d].rules = {}
      /\ ver'[d] = sync[d].version
      /\ sync'[d].phase = "idle" /\ sync'[d].version = 0
      /\ UNCHANGED <<black, white>>
  BY SaveVersionSteps DEF IInv, IdleSync
<1>2. home[d] \in Families =>
          /\ sync[d].version <= Latest(home[d]) /\ 0 <= Latest(home[d])
          /\ \A r \in Of(home[d]) :
                Effective(r) /\ Numeric(r) /\ r.version <= sync[d].version => Holds(d, r)'
  BY <1>1, LatestNat DEF IInv, NotAhead, InHand, Holds
<1>. QED BY <1>1, <1>2, WorkerKeeps

LEMMA AbortKeeps ==
    ASSUME IInv, NEW d \in Devices, Abort(d)
    PROVE  IInv'
<1>1. /\ Basic' /\ WorkerStep(d)
      /\ sync'[d].phase = "idle" /\ sync'[d].version = 0
      /\ UNCHANGED <<ver, black, white>>
  BY AbortSteps DEF IInv, IdleSync
<1>2. home[d] \in Families =>
          /\ ver[d] <= Latest(home[d]) /\ 0 <= Latest(home[d])
          /\ \A r \in Of(home[d]) : Effective(r) /\ Numeric(r) /\ r.version <= ver[d] =>
                Holds(d, r)'
  BY <1>1, LatestNat DEF IInv, NotAhead, Passed, Holds
<1>. QED BY <1>1, <1>2, WorkerKeeps

\* Without direct changes of family, a device that joins one has passed nothing.
LEMMA JoinKeeps ==
    ASSUME IInv, NEW d \in Devices, NEW f \in Families, ~ DirectSwitch, Join(d, f)
    PROVE  /\ IInv'
           /\ home[d] = NoFamily /\ ver[d] = 0
           /\ home' = [home EXCEPT ![d] = f]
           /\ UNCHANGED <<rules, ver, black, white>>
<1>1. /\ home[d] = NoFamily /\ ver[d] = 0
      /\ sync[d].phase = "idle" /\ sync[d].version = 0
      /\ home' = [home EXCEPT ![d] = f]
      /\ UNCHANGED <<rules, ver, black, white, gray, sync>>
  BY DEF Join, IdleSync
<1>2. Basic'
  BY <1>1, MoveKeepsBasic DEF IInv
<1>3. /\ home'[d] = f
      /\ \A e \in Devices \ {d} : home'[e] = home[e]
      /\ \A g \in Families : Latest(g)' = Latest(g) /\ Of(g)' = Of(g)
  BY <1>1 DEF IInv, Basic, TypeOK, Latest, Versions, Of
<1>4. 0 <= Latest(f) /\ \A r \in Of(f) : ~ (r.version <= 0)
  BY LatestNat, RuleAssumption DEF Of, IInv, Basic, TypeOK, Rule
<1>5. NotAhead'
  BY <1>1, <1>3, <1>4 DEF NotAhead, IInv
<1>6. Passed'
  BY <1>1, <1>3, <1>4 DEF Passed, IInv, Effective, Numeric, Holds
<1>7. InHand'
  BY <1>1, <1>3, <1>4 DEF InHand, IInv, Effective, Numeric, Holds
<1>. QED BY <1>1, <1>2, <1>5, <1>6, <1>7 DEF IInv

LEMMA LeaveKeeps ==
    ASSUME IInv, NEW d \in Devices, Leave(d)
    PROVE  IInv'
<1>1. /\ home' = [home EXCEPT ![d] = NoFamily]
      /\ UNCHANGED <<rules, ver, black, white, gray, sync>>
  BY DEF Leave
<1>2. Basic'
  BY <1>1, MoveKeepsBasic DEF IInv
<1>3. /\ home'[d] \notin Families
      /\ \A e \in Devices \ {d} : home'[e] = home[e]
      /\ \A g \in Families : Latest(g)' = Latest(g) /\ Of(g)' = Of(g)
  BY <1>1, RuleAssumption DEF IInv, Basic, TypeOK, Latest, Versions, Of
<1>4. NotAhead'
  BY <1>1, <1>3 DEF NotAhead, IInv
<1>5. Passed'
  BY <1>1, <1>3 DEF Passed, IInv, Effective, Numeric, Holds
<1>6. InHand'
  BY <1>1, <1>3 DEF InHand, IInv, Effective, Numeric, Holds
<1>. QED BY <1>2, <1>4, <1>5, <1>6 DEF IInv

-----------------------------------------------------------------------------
(* The invariants.                                                         *)

LEMMA InitIInv == Init => IInv
<1> SUFFICES ASSUME Init PROVE IInv
  OBVIOUS
<1>1. /\ rules = {} /\ \A d \in Devices : sync[d] = IdleSync /\ ver[d] = 0
      /\ \A f \in Families : Of(f) = {} /\ Versions(f) = {0} /\ Latest(f) = 0
  BY DEF Init, Of, Versions, Latest
<1>2. TypeOK
  BY <1>1, RuleAssumption DEF Init, TypeOK, IdleSync, Sync, Phase
<1>3. ServerOK /\ InHandOK
  BY <1>1 DEF ServerOK, InHandOK, IdleSync
<1>4. NotAhead /\ Passed /\ InHand
  BY <1>1 DEF NotAhead, Passed, InHand, IdleSync
<1>. QED BY <1>2, <1>3, <1>4 DEF IInv, Basic

LEMMA StepBasic == Basic /\ [Next]_vars => Basic'
<1> SUFFICES ASSUME Basic, [Next]_vars PROVE Basic'
  OBVIOUS
<1>1. ASSUME NEW f \in Families, Serves(f) PROVE Basic'
  BY <1>1, ServerGrows, GrownKeepsBasic
<1>2. ASSUME NEW d \in Devices, NEW f \in Families, Join(d, f) PROVE Basic'
  BY <1>2, MoveKeepsBasic DEF Join
<1>3. ASSUME NEW d \in Devices, Leave(d) PROVE Basic'
  BY <1>3, MoveKeepsBasic DEF Leave
<1>4. ASSUME NEW d \in Devices,
             \/ Ask(d) \/ Answer(d) \/ ReplaceGray(d)
             \/ AddNumber(d) \/ SaveVersion(d) \/ Abort(d)
      PROVE  Basic'
  BY <1>4, AskSteps, AnswerSteps, ReplaceGraySteps, AddNumberSteps, SaveVersionSteps, AbortSteps
<1>5. CASE UNCHANGED vars
  BY <1>5 DEF vars, Basic, TypeOK, ServerOK, InHandOK, Matched, Numeric, Versions, Of, NumberItems
<1>. QED BY <1>1, <1>2, <1>3, <1>4, <1>5 DEF Next, Serves

LEMMA StepIInv == ~ DirectSwitch /\ IInv /\ [Next]_vars => IInv'
<1> SUFFICES ASSUME ~ DirectSwitch, IInv, [Next]_vars PROVE IInv'
  OBVIOUS
<1>1. ASSUME NEW f \in Families, Serves(f) PROVE IInv'
  BY <1>1, ServerGrows, GrownKeeps DEF IInv
<1>2. ASSUME NEW d \in Devices, NEW f \in Families, Join(d, f) PROVE IInv'
  BY <1>2, JoinKeeps
<1>3. ASSUME NEW d \in Devices, Leave(d) PROVE IInv'
  BY <1>3, LeaveKeeps
<1>4. ASSUME NEW d \in Devices,
             \/ Ask(d) \/ Answer(d) \/ ReplaceGray(d)
             \/ AddNumber(d) \/ SaveVersion(d) \/ Abort(d)
      PROVE  IInv'
  BY <1>4, AskKeeps, AnswerKeeps, ReplaceGrayKeeps, AddNumberKeeps, SaveVersionKeeps, AbortKeeps
<1>5. CASE UNCHANGED vars
  <2>1. Basic'
    BY <1>5, StepBasic DEF IInv
  <2>2. \A g \in Families : Latest(g)' = Latest(g) /\ Of(g)' = Of(g)
    BY <1>5 DEF vars, Latest, Versions, Of
  <2>3. NotAhead'
    BY <1>5, <2>2 DEF vars, NotAhead, IInv
  <2>4. Passed'
    BY <1>5, <2>2 DEF vars, Passed, IInv, Effective, Numeric, Holds
  <2>5. InHand'
    BY <1>5, <2>2 DEF vars, InHand, IInv, Effective, Numeric, Holds
  <2>. QED BY <2>1, <2>3, <2>4, <2>5 DEF IInv
<1>. QED BY <1>1, <1>2, <1>3, <1>4, <1>5 DEF Next, Serves

\* Type correctness of the rule tables, the devices and their workers, however
\* devices change families.
THEOREM TypeCorrect == Spec => []TypeOK
<1>1. Init => Basic
  BY InitIInv DEF IInv
<1>2. Basic => TypeOK
  BY DEF Basic
<1>. QED BY <1>1, <1>2, StepBasic, PTL DEF Spec

\* A rule comes into force above all versions of its family, and none that was
\* discarded comes back (next_version, apply_feedback, review_rule).
THEOREM VersionsOnlyGrow == Spec => VersionsGrow
<1> DEFINE Fresh == \A r \in rules' \ rules :
                        Effective(r) => \A s \in Of(r.family) : s.version < r.version
<1>1. Basic /\ [Next]_vars => [Fresh]_vars
  <2> SUFFICES ASSUME Basic, Next PROVE Fresh
    BY DEF vars
  <2>1. ASSUME NEW f \in Families, Serves(f) PROVE Fresh
    <3>1. Grown(f)
      BY <2>1, ServerGrows
    <3>2. \A r \in rules' \ rules : Effective(r) => r.family = f /\ r.version = Latest(f) + 1
      BY <3>1 DEF Grown, Effective, NextVersion
    <3>3. Latest(f) \in Nat /\ \A s \in Of(f) : s.version \in Nat /\ s.version <= Latest(f)
      BY LatestHighest, RuleAssumption DEF Of, Basic, TypeOK, Rule
    <3>. QED BY <3>2, <3>3
  <2>2. ASSUME NEW d \in Devices,
               \/ \E f \in Families : Join(d, f)
               \/ Leave(d) \/ Ask(d) \/ Answer(d) \/ ReplaceGray(d)
               \/ AddNumber(d) \/ SaveVersion(d) \/ Abort(d)
        PROVE  rules' = rules
    BY <2>2 DEF Join, Leave, Ask, Answer, ReplaceGray, AddNumber, SaveVersion, Abort
  <2>. QED BY <2>1, <2>2 DEF Next, Serves
<1>2. Init => Basic
  BY InitIInv DEF IInv
<1>. QED BY <1>1, <1>2, StepBasic, PTL DEF Spec, VersionsGrow

-----------------------------------------------------------------------------
(* The promise of incremental delivery.                                    *)

\* What is offered to a device, and what it has, in terms of the rules.
LEMMA OfferedIs ==
    ASSUME Basic, NEW d \in Devices
    PROVE  /\ home[d] \notin Families => Offered[d] = {}
           /\ home[d] \in Families =>
                Offered[d] = {[item |-> <<r.kind, r.pattern>>, version |-> r.version] :
                                 r \in {s \in Of(home[d]) : Effective(s) /\ Numeric(s)}}
BY RuleAssumption DEF Basic, TypeOK, Offered, Numeric

LEMMA HaveIs ==
    ASSUME NEW d \in Devices, NEW r, Numeric(r)
    PROVE  <<r.kind, r.pattern>> \in Have[d] <=> Holds(d, r)
BY DEF Have, Holds, Numeric

\* Every state of the invariant keeps the promise.
LEMMA IInvDelivers == IInv => NumbersDelivered
<1> SUFFICES ASSUME IInv, NEW d \in Devices, NEW o \in Offered[d], o.version <= ver[d]
             PROVE  o.item \in Have[d]
  BY DEF NumbersDelivered, Delivery!Delivered
<1>1. home[d] \in Families
  BY OfferedIs DEF IInv
<1>2. PICK r \in Of(home[d]) : /\ Effective(r) /\ Numeric(r)
                               /\ o = [item |-> <<r.kind, r.pattern>>, version |-> r.version]
  BY <1>1, OfferedIs DEF IInv
<1>3. Holds(d, r)
  BY <1>1, <1>2 DEF IInv, Passed
<1>. QED BY <1>2, <1>3, HaveIs

\* As long as no device goes from one family directly to another, a device that
\* has passed the version of a number rule in force has the number on its list
\* (get_incremental_rules, RuleSyncWorker.doWork).
THEOREM NoNumberIsMissed ==
    ASSUME ~ DirectSwitch
    PROVE  Spec => []NumbersDelivered
<1>1. IInv /\ [Next]_vars => IInv'
  BY StepIInv
<1>. QED BY <1>1, InitIInv, IInvDelivers, PTL DEF Spec

LEMMA InitDelivery == Init => Delivery!Init
<1> SUFFICES ASSUME Init PROVE Delivery!Init
  OBVIOUS
<1>1. \A d \in Devices : Offered[d] = {} /\ Have[d] = {}
  BY DEF Init, Offered, Have, Of
<1>2. Offered = [d \in Devices |-> {}]
  BY <1>1 DEF Offered
<1>3. Have = [d \in Devices |-> {}]
  BY <1>1 DEF Have
<1>. QED BY <1>2, <1>3 DEF Init, Delivery!Init

\* A step of the server publishes to every device.
LEMMA ServerPublishes ==
    ASSUME IInv, NEW f \in Families, Grown(f), NEW d \in Devices
    PROVE  Delivery!Publish(d)
<1>1. UNCHANGED <<home, ver, black, white>> /\ Basic'
  BY GrownKeepsBasic DEF Grown, IInv
<1>2. Have'[d] = Have[d] /\ ver'[d] = ver[d]
  BY <1>1 DEF Have
<1>3. ASSUME NEW o \in Offered'[d] \ Offered[d]
      PROVE  o.version > ver[d]
  <2>1. home[d] \in Families
    BY <1>1, <1>3, OfferedIs, RuleAssumption DEF Offered, IInv, Basic, TypeOK
  <2>2. PICK r \in Of(home[d])' :
            /\ Effective(r) /\ Numeric(r)
            /\ o = [item |-> <<r.kind, r.pattern>>, version |-> r.version]
    BY <1>1, <1>3, <2>1, RuleAssumption DEF Offered, Numeric, Of, Effective
  <2>3. r \notin Of(home[d])
    BY <1>3, <2>1, <2>2, OfferedIs DEF IInv
  <2>4. home[d] = f /\ r.version = Latest(f) + 1
    BY <2>2, <2>3, <1>1 DEF Grown, Of, Effective, NextVersion
  <2>5. ver[d] \in Nat /\ Latest(f) \in Nat /\ ver[d] <= Latest(f)
    BY <2>4, LatestNat, RuleAssumption DEF IInv, NotAhead, Basic, TypeOK
  <2>. QED BY <2>2, <2>4, <2>5
<1>. QED BY <1>2, <1>3 DEF Delivery!Publish

\* Rules and families stay: nothing changes on offer.
LEMMA OfferedStays ==
    ASSUME UNCHANGED <<rules, home>>
    PROVE  Offered' = Offered
BY DEF Offered, Of, Effective

LEMMA HaveStays ==
    ASSUME UNCHANGED <<black, white>>
    PROVE  Have' = Have
BY DEF Have

LEMMA MovePublishes ==
    ASSUME IInv, IInv', NEW d \in Devices, NEW h \in Families \cup {NoFamily},
           home' = [home EXCEPT ![d] = h], UNCHANGED <<rules, ver, black, white>>,
           h \in Families => ver[d] = 0
    PROVE  \A e \in Devices : Delivery!Publish(e)
<1>1. Have' = Have
  BY HaveStays
<1>2. \A e \in Devices \ {d} : Offered'[e] = Offered[e]
  BY DEF Offered, Of, Effective, IInv, Basic, TypeOK
<1>3. home'[d] = h
  BY DEF IInv, Basic, TypeOK
<1>4. ASSUME NEW o \in Offered'[d] PROVE o.version > ver[d]
  <2>1. h \in Families
    BY <1>3, <1>4, RuleAssumption DEF Offered
  <2>2. PICK r \in rules : o = [item |-> <<r.kind, r.pattern>>, version |-> r.version]
    BY <1>3, <1>4, <2>1, RuleAssumption DEF Offered, Of
  <2>3. r.version > 0
    BY <2>2, RuleAssumption DEF IInv, Basic, TypeOK, Rule
  <2>. QED BY <2>1, <2>2, <2>3
<1>. QED BY <1>1, <1>2, <1>4 DEF Delivery!Publish

LEMMA AddReceives ==
    ASSUME IInv, NEW d \in Devices, AddNumber(d)
    PROVE  \A e \in Devices : Delivery!Receive(e)
<1>1. UNCHANGED <<rules, home, ver>>
  BY DEF AddNumber
<1>2. \A e \in Devices : black[e] \subseteq black'[e] /\ white[e] \subseteq white'[e]
  BY AddNumberSteps DEF WorkerStep, IInv
<1>3. \A e \in Devices : Have[e] \subseteq Have'[e]
  BY <1>2 DEF Have
<1>. QED BY <1>1, <1>3, OfferedStays DEF Delivery!Receive

LEMMA DeliversNext == IInv' => NumbersDelivered'
BY IInvDelivers, PTL

\* The worker of a device saves a version: what makes it right is that the
\* promise holds of the new version, with the lists the device has already.
LEMMA SaveAdvances ==
    ASSUME IInv', NEW d \in Devices, SaveVersion(d)
    PROVE  \A e \in Devices : Delivery!Advance(e)
<1>1. Offered' = Offered /\ Have' = Have
  BY OfferedStays, HaveStays DEF SaveVersion
<1>2. NumbersDelivered'
  BY DeliversNext
<1>. QED BY <1>1, <1>2 DEF NumbersDelivered, Delivery!Delivered, Delivery!Advance

LEMMA StepDelivery ==
    ~ DirectSwitch /\ IInv /\ [Next]_vars => [Delivery!Next]_(Delivery!deliveryVars)
<1> SUFFICES ASSUME ~ DirectSwitch, IInv, [Next]_vars
             PROVE  Delivery!Next \/ UNCHANGED Delivery!deliveryVars
  OBVIOUS
<1>1. IInv'
  BY StepIInv
<1>2. ASSUME NEW f \in Families, Serves(f) PROVE Delivery!Next
  BY <1>2, ServerGrows, ServerPublishes DEF Delivery!Next, IInv
<1>3. ASSUME NEW d \in Devices, NEW f \in Families, Join(d, f) PROVE Delivery!Next
  BY <1>1, <1>3, JoinKeeps, MovePublishes DEF Delivery!Next
<1>4. ASSUME NEW d \in Devices, Leave(d) PROVE Delivery!Next
  BY <1>1, <1>4, MovePublishes, RuleAssumption DEF Leave, Delivery!Next
<1>5. ASSUME NEW d \in Devices, Ask(d) \/ Answer(d) \/ ReplaceGray(d) \/ Abort(d)
      PROVE  UNCHANGED Delivery!deliveryVars
  <2>1. UNCHANGED <<rules, home, ver, black, white>>
    BY <1>5 DEF Ask, Answer, ReplaceGray, Abort
  <2>. QED BY <2>1, OfferedStays, HaveStays DEF Delivery!deliveryVars
<1>6. ASSUME NEW d \in Devices, AddNumber(d) PROVE Delivery!Next
  BY <1>6, AddReceives DEF Delivery!Next
<1>7. ASSUME NEW d \in Devices, SaveVersion(d) PROVE Delivery!Next
  BY <1>1, <1>7, SaveAdvances DEF Delivery!Next
<1>8. CASE UNCHANGED vars
  BY <1>8, OfferedStays, HaveStays DEF vars, Delivery!deliveryVars
<1>. QED BY <1>2, <1>3, <1>4, <1>5, <1>6, <1>7, <1>8 DEF Next, Serves

\* As long as no device goes from one family directly to another, rule
\* synchronisation implements incremental delivery.
THEOREM SyncImplementsDelivery ==
    ASSUME ~ DirectSwitch
    PROVE  Spec => ImplementsDelivery
<1>1. IInv /\ [Next]_vars => IInv'
  BY StepIInv
<1>2. IInv /\ [Next]_vars => [Delivery!Next]_(Delivery!deliveryVars)
  BY StepDelivery
<1>. QED BY <1>1, <1>2, InitIInv, InitDelivery, PTL DEF Spec, ImplementsDelivery, Delivery!Spec
=============================================================================

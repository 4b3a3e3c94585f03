---------------------------- MODULE MarksProofs -----------------------------
(***************************************************************************)
(* Proofs about Marks: whose voices count, and where marks come to.        *)
(***************************************************************************)
EXTENDS Marks, FiniteSetTheorems, TLAPS

\* User and call tell rows apart.
Keys == \A r, q \in rows : r.user = q.user /\ r.call = q.call => r = q

\* The row of a call has its hour.
Hours == \A r \in rows : r.call # 0 => r.hour = called[r.user][r.call]

\* Marks are of calls there have been.
Known == \A s \in sent : s.call \in Calls(s.user)

With == {r \in rows : r.mark # "none"}
Voices == {r.user : r \in {q \in rows : q.mark # "none"}}

IInv == /\ TypeOK /\ Keys /\ Hours /\ Known /\ IsFiniteSet(With) /\ IsFiniteSet(Voices)
        /\ VoicesCounted /\ RulesAreEarned

-----------------------------------------------------------------------------
(* Marks that are delivered.                                               *)

LEMMA Delivered ==
    ASSUME TypeOK, NEW s \in sent, Deliver(s)
    PROVE  /\ s.user \in Users /\ s.mark \in Mark
           /\ \/ Of(s.user) = {} /\ rows' = rows \cup {StandIn(s.user, s.mark)}
              \/ \E r \in Latest(s.user) : rows' = (rows \ {r}) \cup {[r EXCEPT !.mark = s.mark]}
<1>1. s.user \in Users /\ s.mark \in Mark
  BY DEF TypeOK, Sent
<1>2. CASE Of(s.user) = {}
  BY <1>1, <1>2 DEF Deliver, Marked, Add
<1>3. CASE Of(s.user) # {}
  <2>1. PICK r \in Latest(s.user) : rows' = Put(s, {r})
    BY <1>3 DEF Deliver, Marked
  <2>2. {[q EXCEPT !.mark = s.mark] : q \in {r}} = {[r EXCEPT !.mark = s.mark]}
    OBVIOUS
  <2>. QED BY <1>1, <2>1, <2>2 DEF Put
<1>. QED BY <1>2, <1>3

\* The two rows that a marked one is, before and after.
LEMMA Remarked ==
    ASSUME TypeOK, NEW r \in rows, NEW m \in Mark
    PROVE  /\ [r EXCEPT !.mark = m] \in Row
           /\ [r EXCEPT !.mark = m].user = r.user /\ [r EXCEPT !.mark = m].call = r.call
           /\ [r EXCEPT !.mark = m].hour = r.hour /\ [r EXCEPT !.mark = m].mark = m
BY DEF TypeOK, Row

LEMMA StandInTyped ==
    ASSUME TypeOK, NEW u \in Users, NEW m \in Mark
    PROVE  /\ StandIn(u, m) \in Row
           /\ StandIn(u, m).user = u /\ StandIn(u, m).call = 0
           /\ StandIn(u, m).hour = hour /\ StandIn(u, m).mark = m
BY MarksAssumption DEF TypeOK, Row, StandIn

\* A row new takes the place of those in old.
Replaces(s, new, old) ==
    /\ rows' = (rows \ old) \cup {new}
    /\ new \in Row /\ new.user = s.user /\ new.mark \in Mark
    /\ \/ Of(s.user) = {} /\ old = {} /\ new.call = 0
       \/ \E r \in Latest(s.user) : /\ old = {r} /\ r \in rows /\ r.user = s.user
                                    /\ new.call = r.call /\ new.hour = r.hour

LEMMA DeliveredRows ==
    ASSUME IInv, NEW s \in sent, Deliver(s)
    PROVE  \E new, old : Replaces(s, new, old)
<1>1. TypeOK /\ s.user \in Users /\ s.mark \in Mark
  BY Delivered DEF IInv
<1>2. CASE Of(s.user) = {} /\ rows' = rows \cup {StandIn(s.user, s.mark)}
  <2>1. Replaces(s, StandIn(s.user, s.mark), {})
    BY <1>1, <1>2, StandInTyped DEF Replaces
  <2>. QED BY <2>1
<1>3. ASSUME NEW r \in Latest(s.user), rows' = (rows \ {r}) \cup {[r EXCEPT !.mark = s.mark]}
      PROVE  \E new, old : Replaces(s, new, old)
  <2>1. r \in rows /\ r.user = s.user
    BY DEF Latest, Of
  <2>2. Replaces(s, [r EXCEPT !.mark = s.mark], {r})
    BY <1>1, <1>3, <2>1, Remarked DEF Replaces
  <2>. QED BY <2>2
<1>. QED BY <1>1, <1>2, <1>3, Delivered

-----------------------------------------------------------------------------
(* What follows from the invariant.                                        *)

LEMMA InvStandsIn == IInv => StandsInOnce
<1>. SUFFICES ASSUME IInv, NEW u \in Users PROVE Cardinality({r \in Of(u) : r.call = 0}) <= 1
  BY DEF StandsInOnce
<1> DEFINE S == {r \in Of(u) : r.call = 0}
<1>1. \A r, q \in S : r = q
  BY DEF Of, IInv, Keys
<1>2. CASE S = {}
  BY <1>2, FS_EmptySet
<1>3. CASE S # {}
  <2>1. PICK r : S = {r}
    BY <1>1, <1>3
  <2>. QED BY <2>1, FS_Singleton
<1>. QED BY <1>2, <1>3

-----------------------------------------------------------------------------
(* The actions.                                                            *)

LEMMA InitInv == Init => IInv
<1>. SUFFICES ASSUME Init PROVE IInv
  OBVIOUS
<1>1. TypeOK
  BY MarksAssumption DEF Init, TypeOK, Calls, Stored, Of
<1>2. Keys /\ Hours /\ Known
  BY DEF Init, Keys, Hours, Known
<1>3. With = {} /\ Voices = {} /\ \A u \in Users : {r \in Of(u) : r.mark # "none"} = {}
  BY DEF Init, With, Voices, Of
<1>4. VoicesCounted /\ RulesAreEarned
  <2>1. \A u \in Users : Cardinality({r \in Of(u) : r.mark # "none"}) = 0 /\ voices[u] = 0
    BY <1>3, FS_EmptySet DEF Init
  <2>. QED BY <2>1 DEF Init, VoicesCounted, RulesAreEarned
<1>. QED BY <1>1, <1>2, <1>3, <1>4, FS_EmptySet DEF IInv

\* Steps that leave the rows and the rule alone.
LEMMA RowsStay ==
    ASSUME IInv, UNCHANGED <<rows, voices, rule>>
    PROVE  /\ Keys' /\ IsFiniteSet(With)' /\ IsFiniteSet(Voices)'
           /\ VoicesCounted' /\ RulesAreEarned'
           /\ \A u \in Users : Stored(u)' = Stored(u)
BY DEF IInv, Keys, With, Voices, VoicesCounted, RulesAreEarned, Stored, Of

LEMMA CallStep ==
    ASSUME IInv, NEW u \in Users, Call(u)
    PROVE  IInv'
<1>0. /\ TypeOK /\ called \in [Users -> Seq(0..hour)] /\ queue \in [Users -> SUBSET Nat]
      /\ hour \in Nat /\ hour \in 0..hour /\ MaxCalls \in [Users -> Nat]
  BY MarksAssumption DEF IInv, TypeOK
<1>1. /\ Len(called[u]) \in Nat /\ Len(called'[u]) = Len(called[u]) + 1
      /\ called' \in [Users -> Seq(0..hour)]
      /\ Calls(u)' = Calls(u) \cup {Len(called[u]) + 1}
      /\ \A c \in Calls(u) : called'[u][c] = called[u][c]
      /\ \A v \in Users : v # u => called'[v] = called[v] /\ Calls(v)' = Calls(v)
      /\ Calls(u) = 1..Len(called[u])
  BY <1>0 DEF Call, Calls
<1>2. \A v \in Users : Calls(v) \subseteq Calls(v)' /\ \A c \in Calls(v) : called'[v][c] = called[v][c]
  BY <1>1
<1>3. \A r \in rows : r.user \in Users /\ r.call \in Nat /\ (r.call # 0 => r.call \in Calls(r.user))
  BY <1>0 DEF TypeOK, Row, Stored, Of
<1>4. TypeOK'
  <2>1. \A v \in Users : /\ queue'[v] \cap Stored(v)' = {}
                          /\ queue'[v] \cup (Stored(v)' \ {0}) = Calls(v)'
    <3>. TAKE v \in Users
    <3>1. Stored(v)' = Stored(v)
      BY RowsStay DEF Call
    <3>2. queue[v] \cap Stored(v) = {} /\ queue[v] \cup (Stored(v) \ {0}) = Calls(v)
      BY <1>0 DEF TypeOK
    <3>3. CASE v # u
      BY <1>0, <1>1, <3>1, <3>2, <3>3 DEF Call
    <3>4. CASE v = u
      <4>1. Len(called[u]) + 1 \notin Calls(u) /\ Len(called[u]) + 1 # 0
        BY <1>1
      <4>2. queue'[v] = queue[v] \cup {Len(called[u]) + 1}
        BY <1>0, <3>4 DEF Call
      <4>. QED BY <1>1, <3>1, <3>2, <3>4, <4>1, <4>2
    <3>. QED BY <3>3, <3>4
  <2>2. \A v \in Users : Len(called'[v]) <= MaxCalls[v]
    BY <1>0, <1>1 DEF TypeOK, Call
  <2>3. queue' \in [Users -> SUBSET Nat]
    BY <1>0, <1>1 DEF Call
  <2>. QED BY <1>0, <1>1, <2>1, <2>2, <2>3 DEF TypeOK, Call
<1>5. Hours'
  BY <1>2, <1>3 DEF IInv, Hours, Call
<1>6. Known'
  <2>1. \A s \in sent : s.user \in Users
    BY <1>0 DEF TypeOK, Sent
  <2>. QED BY <1>2, <2>1 DEF IInv, Known, Call
<1>. QED BY <1>4, <1>5, <1>6, RowsStay DEF IInv, Call

LEMMA MarkCallStep ==
    ASSUME IInv, NEW u \in Users, NEW c, NEW m \in Mark, MarkCall(u, c, m)
    PROVE  IInv'
<1>1. c \in Nat /\ c \in Calls(u)
  BY DEF IInv, TypeOK, MarkCall, Calls
<1>2. TypeOK'
  BY <1>1, RowsStay DEF IInv, TypeOK, MarkCall, Sent, Calls
<1>3. Hours' /\ Known'
  BY <1>1 DEF IInv, Hours, Known, MarkCall, Calls
<1>. QED BY <1>2, <1>3, RowsStay DEF IInv, MarkCall

LEMMA LoseStep ==
    ASSUME IInv, NEW s \in sent, Lose(s)
    PROVE  IInv'
<1>1. TypeOK'
  BY RowsStay DEF IInv, TypeOK, Lose, Calls
<1>2. Hours' /\ Known'
  BY DEF IInv, Hours, Known, Lose, Calls
<1>. QED BY <1>1, <1>2, RowsStay DEF IInv, Lose

LEMMA LeaveStep ==
    ASSUME IInv, NEW u \in Users, Leave(u)
    PROVE  IInv'
<1>1. TypeOK'
  BY RowsStay DEF IInv, TypeOK, Leave, Calls
<1>2. Hours' /\ Known'
  BY DEF IInv, Hours, Known, Leave, Calls
<1>. QED BY <1>1, <1>2, RowsStay DEF IInv, Leave

LEMMA TickStep ==
    ASSUME IInv, Tick
    PROVE  IInv'
<1>1. hour' \in 0..MaxHour /\ 0..hour \subseteq 0..hour'
  BY MarksAssumption DEF IInv, TypeOK, Tick
<1>2. called' \in [Users -> Seq(0..hour')]
  BY <1>1 DEF IInv, TypeOK, Tick
<1>3. TypeOK'
  BY <1>1, <1>2, RowsStay DEF IInv, TypeOK, Tick, Calls
<1>4. Hours' /\ Known'
  BY DEF IInv, Hours, Known, Tick, Calls
<1>. QED BY <1>3, <1>4, RowsStay DEF IInv, Tick

LEMMA UploadStep ==
    ASSUME IInv, NEW u \in Users, Upload(u)
    PROVE  IInv'
<1> DEFINE fresh == {[user |-> u, call |-> c, hour |-> called[u][c],
                      mark |-> "none", ours |-> member[u]] : c \in queue[u]}
<1>0. /\ TypeOK /\ called \in [Users -> Seq(0..hour)] /\ queue \in [Users -> SUBSET Nat]
      /\ rows \subseteq Row /\ hour \in 0..MaxHour /\ MaxHour \in Nat /\ member[u] \in BOOLEAN
  BY MarksAssumption DEF IInv, TypeOK
<1>1. rows' = rows \cup fresh /\ queue' = [queue EXCEPT ![u] = {}]
      /\ UNCHANGED <<hour, member, called, sent, voices, rule>>
  BY DEF Upload, Taken
<1>2. /\ queue[u] \subseteq Calls(u) /\ queue[u] \cap Stored(u) = {}
      /\ \A c \in queue[u] : called[u][c] \in 0..hour /\ c \in Nat \ {0}
  BY <1>0 DEF TypeOK, Calls
<1>3. \A r \in fresh : /\ r \in Row /\ r.user = u /\ r.mark = "none"
                        /\ r.call \in queue[u] /\ r.hour = called[u][r.call]
  BY <1>0, <1>2 DEF Row
<1>4. \A r, q \in fresh : r.call = q.call => r = q
  OBVIOUS
<1>5. ASSUME NEW c \in queue[u] PROVE \E r \in fresh : r.call = c
  <2>. WITNESS [user |-> u, call |-> c, hour |-> called[u][c],
                mark |-> "none", ours |-> member[u]] \in fresh
  <2>. QED OBVIOUS
<1>. HIDE DEF fresh
<1>6. With' = With /\ Voices' = Voices
      /\ \A v \in Users : {r \in Of(v) : r.mark # "none"}' = {r \in Of(v) : r.mark # "none"}
  BY <1>1, <1>3 DEF With, Voices, Of
<1>7. TypeOK'
  <2>1. /\ Stored(u)' = Stored(u) \cup queue[u]
        /\ \A v \in Users : v # u => Stored(v)' = Stored(v)
    BY <1>1, <1>3, <1>5 DEF Stored, Of
  <2>2. \A v \in Users : /\ queue'[v] \cap Stored(v)' = {}
                          /\ queue'[v] \cup (Stored(v)' \ {0}) = Calls(v)
    BY <1>0, <1>1, <1>2, <2>1 DEF TypeOK
  <2>. QED BY <1>0, <1>1, <1>3, <2>2 DEF TypeOK, Calls
<1>8. Keys'
  <2>1. \A r \in rows, q \in fresh : r.user = u => r.call # q.call
    BY <1>2, <1>3 DEF Stored, Of
  <2>. QED BY <1>1, <1>3, <1>4, <2>1 DEF IInv, Keys
<1>9. Hours' /\ Known'
  BY <1>1, <1>3 DEF IInv, Hours, Known, Calls
<1>10. VoicesCounted' /\ RulesAreEarned'
  BY <1>1, <1>6 DEF IInv, VoicesCounted, RulesAreEarned, Voices
<1>. QED BY <1>6, <1>7, <1>8, <1>9, <1>10 DEF IInv

\* A rule is made by the marks of enough users; whoever is counted has a mark.
LEMMA CountedAreMarked ==
    ASSUME IInv, Enough
    PROVE  Cardinality(Voices) >= MinUsers
<1>1. {r.user : r \in Counted} \subseteq Voices
  BY DEF Counted, Voices
<1>2. Cardinality({r.user : r \in Counted}) <= Cardinality(Voices)
      /\ Cardinality({r.user : r \in Counted}) \in Nat /\ Cardinality(Voices) \in Nat
  BY <1>1, FS_Subset, FS_CardinalityType DEF IInv
<1>. QED BY <1>2, MarksAssumption DEF Enough

LEMMA AggregateStep ==
    ASSUME IInv, Aggregate
    PROVE  IInv'
<1>2. /\ UNCHANGED <<hour, member, called, queue, rows, sent, voices>>
      /\ rule' \in {"none", "black", "white"}
  BY DEF Aggregate, Outcome, IInv, TypeOK
<1>3. TypeOK'
  BY <1>2 DEF IInv, TypeOK, Calls, Stored, Of
<1>4. Keys' /\ Hours' /\ Known' /\ IsFiniteSet(With)' /\ IsFiniteSet(Voices)' /\ VoicesCounted'
  BY <1>2 DEF IInv, Keys, Hours, Known, Calls, With, Voices, VoicesCounted, Of
<1>5. rule' # "none" => Cardinality(Voices) >= MinUsers
  BY CountedAreMarked DEF Aggregate, IInv, RulesAreEarned, Voices
<1>6. RulesAreEarned'
  BY <1>2, <1>5 DEF RulesAreEarned, Voices
<1>. QED BY <1>3, <1>4, <1>6 DEF IInv

LEMMA DiscardStep ==
    ASSUME IInv, Discard
    PROVE  IInv'
<1>1. UNCHANGED <<hour, member, called, queue, rows, sent, voices>> /\ rule' = "none"
  BY DEF Discard
<1>2. TypeOK'
  BY <1>1 DEF IInv, TypeOK, Calls, Stored, Of
<1>3. Keys' /\ Hours' /\ Known' /\ IsFiniteSet(With)' /\ IsFiniteSet(Voices)' /\ VoicesCounted'
  BY <1>1 DEF IInv, Keys, Hours, Known, Calls, With, Voices, VoicesCounted, Of
<1>. QED BY <1>1, <1>2, <1>3 DEF IInv, RulesAreEarned

LEMMA DeliverStep ==
    ASSUME IInv, NEW s \in sent, Deliver(s)
    PROVE  IInv'
<1>0. /\ TypeOK /\ rows \subseteq Row /\ s.user \in Users /\ voices \in [Users -> Nat]
  BY Delivered DEF IInv, TypeOK
<1>1. PICK new, old : Replaces(s, new, old)
  BY DeliveredRows
<1>2. /\ UNCHANGED <<hour, member, called, queue, rule>> /\ sent' \subseteq sent
      /\ voices' = [voices EXCEPT ![s.user] = @ + 1]
  BY DEF Deliver
<1>3. /\ rows' = (rows \ old) \cup {new} /\ new \in Row /\ new.user = s.user
      /\ new.mark # "none" /\ new.mark \in Mark
      /\ \A r \in old : /\ r \in rows /\ r.user = s.user /\ r.call = new.call /\ r.hour = new.hour
                         /\ old = {r}
      /\ old = {} => Of(s.user) = {} /\ new.call = 0
  BY <1>1 DEF Replaces, Mark
<1>4. TypeOK'
  <2>1. \A v \in Users : v # s.user => Stored(v)' = Stored(v)
    BY <1>3 DEF Stored, Of
  <2>2. Stored(s.user)' \ {0} = Stored(s.user) \ {0}
    BY <1>3 DEF Stored, Of
  <2>3. \A v \in Users : 0 \notin queue[v]
    BY <1>0 DEF TypeOK, Calls
  <2>4. \A v \in Users : /\ queue'[v] \cap Stored(v)' = {}
                          /\ queue'[v] \cup (Stored(v)' \ {0}) = Calls(v)'
    BY <1>0, <1>2, <2>1, <2>2, <2>3 DEF TypeOK, Calls
  <2>. QED BY <1>0, <1>2, <1>3, <2>4 DEF TypeOK
<1>5. Keys'
  <2>1. \A r \in rows : r.user = new.user /\ r.call = new.call => r \in old
    BY <1>3 DEF IInv, Keys, Of
  <2>. QED BY <1>3, <2>1 DEF IInv, Keys
<1>6. Hours'
  BY <1>2, <1>3 DEF IInv, Hours
<1>7. Known'
  BY <1>2 DEF IInv, Known, Calls
<1>8. IsFiniteSet(With)'
  <2>1. IsFiniteSet(With \cup {new})
    BY FS_AddElement DEF IInv
  <2>2. With' \subseteq With \cup {new}
    BY <1>3 DEF With
  <2>. QED BY <2>1, <2>2, FS_Subset
<1>9. Voices' = Voices \cup {s.user}
  <2>1. \A r \in old : r.user = s.user
    BY <1>3
  <2>2. Voices' \subseteq Voices \cup {s.user}
    BY <1>3 DEF Voices
  <2>3. s.user \in Voices'
    BY <1>3 DEF Voices
  <2>4. Voices \subseteq Voices'
    BY <1>3, <2>1, <2>3 DEF Voices
  <2>. QED BY <2>2, <2>3, <2>4
<1>10. IsFiniteSet(Voices)'
  BY <1>9, FS_AddElement DEF IInv
<1>11. VoicesCounted'
  <2>. SUFFICES ASSUME NEW v \in Users
                PROVE  Cardinality({r \in Of(v) : r.mark # "none"}') <= voices'[v]
    BY DEF VoicesCounted
  <2> DEFINE W == {r \in Of(v) : r.mark # "none"}
  <2>1. IsFiniteSet(W) /\ Cardinality(W) \in Nat /\ Cardinality(W) <= voices[v]
    <3>1. W \subseteq With
      BY DEF Of, With
    <3>. QED BY <3>1, FS_Subset, FS_CardinalityType DEF IInv, VoicesCounted
  <2>2. CASE v # s.user
    <3>1. W' = W
      BY <1>3, <2>2 DEF Of
    <3>. QED BY <1>0, <1>2, <2>1, <2>2, <3>1
  <2>3. CASE v = s.user
    <3>1. W' \subseteq W \cup {new}
      BY <1>3 DEF Of
    <3>2. /\ IsFiniteSet(W \cup {new}) /\ Cardinality(W \cup {new}) <= Cardinality(W) + 1
          /\ Cardinality(W \cup {new}) \in Nat
      <4>. HIDE DEF W
      <4>1. /\ IsFiniteSet(W \cup {new})
            /\ Cardinality(W \cup {new}) = IF new \in W THEN Cardinality(W) ELSE Cardinality(W) + 1
        BY <2>1, FS_AddElement
      <4>. QED BY <2>1, <4>1
    <3>3. Cardinality(W') <= Cardinality(W \cup {new}) /\ Cardinality(W') \in Nat
      BY <3>1, <3>2, FS_Subset, FS_CardinalityType
    <3>. QED BY <1>0, <1>2, <2>1, <2>3, <3>2, <3>3
  <2>. QED BY <2>2, <2>3
<1>12. RulesAreEarned'
  <2>1. Cardinality(Voices) <= Cardinality(Voices') /\ Cardinality(Voices) \in Nat
        /\ Cardinality(Voices') \in Nat
    BY <1>9, <1>10, FS_Subset, FS_CardinalityType DEF IInv
  <2>. QED BY <1>2, <2>1, MarksAssumption DEF IInv, RulesAreEarned, Voices
<1>. QED BY <1>4, <1>5, <1>6, <1>7, <1>8, <1>10, <1>11, <1>12 DEF IInv

LEMMA NextStep == IInv /\ [Next]_vars => IInv'
<1>. SUFFICES ASSUME IInv, [Next]_vars PROVE IInv'
  OBVIOUS
<1>1. CASE UNCHANGED vars
  <2>1. TypeOK' /\ Hours' /\ Known'
    BY <1>1, RowsStay DEF IInv, TypeOK, Hours, Known, Calls, vars
  <2>. QED BY <1>1, <2>1, RowsStay DEF IInv, vars
<1>2. ASSUME NEW u \in Users, Call(u) \/ Upload(u) \/ Leave(u)
      PROVE  IInv'
  BY <1>2, CallStep, UploadStep, LeaveStep
<1>3. ASSUME NEW u \in Users, NEW c \in 1..MaxCalls[u], NEW m \in Mark, MarkCall(u, c, m)
      PROVE  IInv'
  BY <1>3, MarkCallStep
<1>4. ASSUME NEW s \in sent, Deliver(s) \/ Lose(s)
      PROVE  IInv'
  BY <1>4, DeliverStep, LoseStep
<1>. QED BY <1>1, <1>2, <1>3, <1>4, AggregateStep, DiscardStep, TickStep DEF Next

-----------------------------------------------------------------------------
(* The theorems.                                                           *)

\* The invariant holds in every reachable state, of any number of users.
THEOREM Inductive == Spec => []IInv
BY InitInv, NextStep, PTL DEF Spec

\* Every reachable state is typed, and a call waits or is stored, and not both
\* (LogUploadWorker.kt:30-62, logs.py:31-65).
THEOREM TypeCorrect == Spec => []TypeOK
<1>1. IInv => TypeOK
  BY DEF IInv
<1>. QED BY <1>1, Inductive, PTL

\* A number has one row of a user's at most that stands for no call
\* (logs.py:80-102).
THEOREM StandsInSafe == Spec => []StandsInOnce
BY InvStandsIn, Inductive, PTL

\* No user has more marks counted than the marks he has made (logs.py:68-103).
THEOREM VoicesSafe == Spec => []VoicesCounted
<1>1. IInv => VoicesCounted
  BY DEF IInv
<1>. QED BY <1>1, Inductive, PTL

\* A rule that exists has the marks of enough users behind it, later too
\* (rule_service.py:118-160).
THEOREM RulesSafe == Spec => []RulesAreEarned
<1>1. IInv => RulesAreEarned
  BY DEF IInv
<1>. QED BY <1>1, Inductive, PTL

\* A mark never changes the row of a call earlier than its own, if that is stored
\* (logs.py:80-102).
THEOREM EarlierSafe == Spec => NeverEarlier
<1>1. ASSUME IInv, NEW s \in sent, NEW r \in rows, Deliver(s), r \notin rows',
             s.call \in Stored(s.user)
      PROVE  r.user = s.user /\ r.hour >= called[s.user][s.call]
  <2>1. PICK new, old : Replaces(s, new, old)
    BY <1>1, DeliveredRows
  <2>2. r \in old /\ r \in Latest(s.user) /\ r.user = s.user
    BY <1>1, <2>1 DEF Replaces
  <2>3. PICK q \in Of(s.user) : q.call = s.call
    BY <1>1 DEF Stored
  <2>4. q.hour = called[s.user][s.call]
    <3>1. s.call # 0
      BY <1>1 DEF IInv, Known, Calls, TypeOK, Sent
    <3>. QED BY <1>1, <2>3, <3>1 DEF IInv, Hours, Of
  <2>5. q.hour <= r.hour /\ q.hour \in Int /\ r.hour \in Int
    BY <1>1, <2>2, <2>3, MarksAssumption DEF Latest, Of, IInv, TypeOK, Row
  <2>. QED BY <2>2, <2>4, <2>5
<1>2. IInv => \A s \in sent, r \in rows :
          /\ Deliver(s)
          /\ r \notin rows'
          /\ s.call \in Stored(s.user)
          => r.user = s.user /\ r.hour >= called[s.user][s.call]
  BY <1>1
<1>. QED BY <1>2, Inductive, PTL DEF NeverEarlier

\* Less than five marks blacklist a number only if all agree; less than four let it
\* through only if none calls it a nuisance (rule_service.py:122-160).
THEOREM FewSafe == Spec => FewMustAgree
<1>1. ASSUME IInv, Aggregate, rule = "none", rule' # "none"
      PROVE  rule' = Outcome /\ Enough
  BY <1>1 DEF Aggregate
<1>2. ASSUME IInv, [Next]_vars, rule = "none", rule' # "none"
      PROVE  Aggregate
  BY <1>2 DEF Next, vars, Call, Upload, Leave, MarkCall, Deliver, Lose, Discard, Tick
<1>3. ASSUME IInv, NEW m
      PROVE  /\ Total \in Nat /\ Number(m) \in Nat /\ Number(m) <= Total
             /\ Number(m) = Total => \A r \in Counted : r.mark = m
             /\ Number(m) = 0 => \A r \in Counted : r.mark # m
  <2> DEFINE N == {r \in Counted : r.mark = m}
  <2>1. IsFiniteSet(Counted)
    <3>1. Counted \subseteq With
      BY DEF Counted, With
    <3>. QED BY <1>3, <3>1, FS_Subset DEF IInv
  <2>2. /\ N \subseteq Counted /\ IsFiniteSet(N) /\ Cardinality(N) <= Cardinality(Counted)
        /\ Cardinality(N) = Cardinality(Counted) => Counted = N
    BY <2>1, FS_Subset
  <2>3. Cardinality(N) = 0 => N = {}
    BY <2>2, FS_EmptySet
  <2>. QED BY <2>1, <2>2, <2>3, FS_CardinalityType DEF Number, Total
<1>4. ASSUME IInv, [Next]_vars, rule = "none", rule' = "black", Total < 5
      PROVE  \A r \in Counted : r.mark = "spam"
  <2>1. Outcome = "black"
    BY <1>1, <1>2, <1>4
  <2>2. 5 * Number("spam") >= 4 * Total
    BY <2>1 DEF Outcome
  <2>3. Number("spam") = Total
    BY <1>3, <1>4, <2>2
  <2>. QED BY <1>3, <1>4, <2>3
<1>5. ASSUME IInv, [Next]_vars, rule = "none", rule' = "white", Total < 4
      PROVE  \A r \in Counted : r.mark # "spam"
  <2>1. Outcome = "white"
    BY <1>1, <1>2, <1>5
  <2>2. 10 * Number("spam") < 3 * Total /\ ~(5 * Number("spam") >= 4 * Total)
    BY <2>1 DEF Outcome
  <2>3. Number("spam") = 0
    BY <1>3, <1>5, <2>2
  <2>. QED BY <1>3, <1>5, <2>3
<1>6. IInv /\ [Next]_vars =>
          /\ rule = "none" /\ rule' = "black" /\ Total < 5 => \A r \in Counted : r.mark = "spam"
          /\ rule = "none" /\ rule' = "white" /\ Total < 4 => \A r \in Counted : r.mark # "spam"
  BY <1>4, <1>5
<1>. QED BY <1>6, Inductive, PTL DEF FewMustAgree, Spec
=============================================================================

--------------------------- MODULE SmsCodeProofs ----------------------------
(***************************************************************************)
(* Proofs about SmsCode: what a window and a code are good for, for any    *)
(* number of codes, requests and failing calls of Redis.                   *)
(***************************************************************************)
EXTENDS SmsCode, FiniteSetTheorems, TLAPS

\* Requests are for codes that were generated, verifications for any.
Slots ==
    /\ \A s \in Sends : send[s] = Idle \/ (send[s].phase # "idle" /\ send[s].code \in 1..fresh)
    /\ \A k \in Checks : check[k] = Idle \/ (check[k].phase # "idle" /\ check[k].code \in Codes)

\* Requests that the provider has not accepted: each took a window.
Open == {s \in Sends : send[s].phase \in {"calling", "refused"}}

One(P) == IF P THEN 1 ELSE 0

\* Messages and open requests are paid for by the window that is taken, by those that
\* have ended, and by calls of Redis that failed.
Paid ==
    /\ IsFiniteSet(Open)
    /\ messages + Cardinality(Open) <= fresh
    /\ \/ messages + Cardinality(Open) <= lapses + misses + One(Blocked)
       \/ lapses = MaxCodes

IInv == TypeOK /\ Slots /\ Paid

-----------------------------------------------------------------------------
(* Types.                                                                  *)

LEMMA MissOrReach ==
    ASSUME TypeOK, Miss \/ Reach
    PROVE  misses' \in 0..MaxMisses /\ misses <= misses'
BY SmsAssumption DEF TypeOK, Miss, Reach

LEMMA LapsedTyped ==
    ASSUME TypeOK, Lapsed
    PROVE  /\ lapses' \in 0..MaxCodes
           /\ lapses' = lapses + 1 \/ lapses' = MaxCodes
BY SmsAssumption DEF TypeOK, Lapsed

LEMMA IncrTyped ==
    ASSUME TypeOK, NEW first \in BOOLEAN, Incr(first)
    PROVE  /\ rate' \in [Store -> Key] /\ rate'["memory"] # "stuck"
           /\ ~ setup.redis => rate'["redis"] = "free"
           /\ lapses' \in 0..MaxCodes /\ misses' \in 0..MaxMisses
<1>1. CASE UNCHANGED lapses /\ Reach
  BY <1>1 DEF TypeOK, Incr, Reach, Miss, Kept, Store, Key, Lapsed
<1>2. CASE Lapsed /\ Reach
  BY <1>2, LapsedTyped DEF TypeOK, Incr, Reach, Miss, Kept, Store, Key
<1>3. CASE Miss /\ UNCHANGED lapses
  BY <1>3, MissOrReach DEF TypeOK, Incr, Reach, Miss, Kept, Store, Key
<1>. QED BY <1>1, <1>2, <1>3 DEF Incr

LEMMA FreeRateTyped ==
    ASSUME TypeOK, FreeRate
    PROVE  /\ rate' \in [Store -> Key] /\ rate'["memory"] # "stuck"
           /\ ~ setup.redis => rate'["redis"] = "free"
           /\ misses' \in 0..MaxMisses
BY MissOrReach DEF TypeOK, FreeRate, Store, Key

LEMMA PutCodeTyped ==
    ASSUME TypeOK, NEW c \in 0..fresh, PutCode(c)
    PROVE  cached' \in 0..fresh /\ misses' \in 0..MaxMisses /\ misses <= misses'
BY MissOrReach DEF TypeOK, PutCode, Reach

LEMMA VerifyTyped ==
    ASSUME TypeOK, NEW c \in Codes, VerifyLocal(c)
    PROVE  /\ cached' \in 0..fresh /\ misses' \in 0..MaxMisses /\ misses <= misses'
           /\ table' \in [Codes -> {"absent", "valid", "used", "expired"}]
           /\ \A b \in Codes : table'[b] # "absent" => table[b] # "absent"
           /\ serves' \in [Codes -> Nat]
<1>1. CASE AcceptCached(c)
  BY <1>1, MissOrReach DEF TypeOK, AcceptCached, Serve
<1>2. CASE AcceptRow(c)
  BY <1>2, MissOrReach DEF TypeOK, AcceptRow, Serve, Read
<1>3. CASE UNCHANGED <<cached, table, serves>> /\ \E v \in 0..MaxCodes : Read(v)
  BY <1>3, MissOrReach DEF TypeOK, Read
<1>. QED BY <1>1, <1>2, <1>3 DEF VerifyLocal

LEMMA InitTyped == Init => TypeOK /\ Slots
BY SmsAssumption DEF Init, TypeOK, Slots, Store, Key, Setup, Codes, Request, Idle

LEMMA SendTyped ==
    ASSUME TypeOK, Slots, NEW s \in Sends, Send(s)
    PROVE  TypeOK' /\ Slots'
<1>1. /\ rate' \in [Store -> Key] /\ rate'["memory"] # "stuck"
      /\ ~ setup.redis => rate'["redis"] = "free"
      /\ lapses' \in 0..MaxCodes /\ misses' \in 0..MaxMisses
  BY IncrTyped DEF Send
<1>2. fresh' \in 1..MaxCodes /\ fresh' = fresh + 1 /\ fresh \in Nat
  BY SmsAssumption DEF Send, TypeOK
<1>3. send' = [send EXCEPT ![s] = Calling(fresh')] /\ Calling(fresh') \in Request
  BY <1>2 DEF Send, Calling, Request
<1>4. Slots'
  BY <1>2, <1>3 DEF Slots, Send, TypeOK, Calling, Idle, Codes
<1>5. TypeOK'
  BY <1>1, <1>2, <1>3, SmsAssumption DEF TypeOK, Send, Codes
<1>. QED BY <1>4, <1>5

LEMMA TooSoonTyped ==
    ASSUME TypeOK, Slots, SendTooSoon
    PROVE  TypeOK' /\ Slots'
BY IncrTyped DEF TypeOK, Slots, SendTooSoon, Idle, Codes

\* A call of the provider that is under way is counted.
LEMMA CallingCounts ==
    ASSUME IInv, NEW s \in Sends, send[s].phase \in {"calling", "refused"}
    PROVE  /\ s \in Open /\ IsFiniteSet(Open \ {s})
           /\ Cardinality(Open) \in Nat /\ Cardinality(Open \ {s}) \in Nat
           /\ Cardinality(Open \ {s}) = Cardinality(Open) - 1
<1>1. s \in Open /\ IsFiniteSet(Open)
  BY DEF IInv, Paid, Open
<1>. QED BY <1>1, FS_RemoveElement, FS_CardinalityType

LEMMA ProvideTyped ==
    ASSUME IInv, NEW s \in Sends, Provide(s)
    PROVE  TypeOK' /\ Slots'
<1>1. TypeOK /\ Slots /\ send[s] \in Request /\ send[s].code \in 1..fresh /\ fresh \in Nat
  BY SmsAssumption DEF IInv, TypeOK, Slots, Provide, Idle, Codes
<1>2. messages + 1 <= fresh /\ messages \in Nat
  <2>1. Cardinality(Open) \in Nat /\ Cardinality(Open) - 1 \in Nat
    BY CallingCounts DEF Provide
  <2>. QED BY <1>1, <2>1 DEF IInv, Paid, TypeOK
<1>3. /\ send' \in [Sends -> Request]
      /\ \A t \in Sends : t # s => send'[t] = send[t]
      /\ send'[s].phase # "idle" /\ send'[s].code = send[s].code
  BY <1>1 DEF TypeOK, Provide, Request
<1>4. Slots'
  BY <1>1, <1>3 DEF Slots, Provide, Idle, Codes
<1>5. messages' \in 0..fresh /\ cloud' \in 0..fresh /\ (~ setup.pns => cloud' = 0)
  BY <1>1, <1>2 DEF TypeOK, Provide
<1>. QED BY <1>1, <1>3, <1>4, <1>5 DEF TypeOK, Provide, Codes

LEMMA PersistTyped ==
    ASSUME IInv, NEW s \in Sends, Persist(s)
    PROVE  TypeOK' /\ Slots'
<1>1. TypeOK /\ Slots /\ send[s].code \in 1..fresh /\ fresh \in 0..MaxCodes
  BY DEF IInv, TypeOK, Slots, Persist, Idle
<1>2. cached' \in 0..fresh /\ misses' \in 0..MaxMisses
  BY <1>1, PutCodeTyped DEF Persist
<1>3. send' = [send EXCEPT ![s] = Idle] /\ Idle \in Request
  BY SmsAssumption DEF Persist, Idle, Request
<1>4. Slots'
  BY <1>1, <1>3 DEF Slots, Persist, TypeOK, Codes
<1>5. /\ table' \in [Codes -> {"absent", "valid", "used", "expired"}]
      /\ \A c \in Codes : table'[c] # "absent" => c <= fresh
  BY <1>1, SmsAssumption DEF TypeOK, Persist, Codes
<1>. QED BY <1>1, <1>2, <1>3, <1>4, <1>5 DEF TypeOK, Persist, Codes

LEMMA SendRefusedTyped ==
    ASSUME IInv, NEW s \in Sends, SendRefused(s)
    PROVE  TypeOK' /\ Slots'
<1>1. send' = [send EXCEPT ![s] = Idle] /\ Idle \in Request
  BY SmsAssumption DEF SendRefused, Idle, Request
<1>2. Slots'
  BY <1>1 DEF Slots, SendRefused, IInv, TypeOK, Codes
<1>. QED BY <1>1, <1>2, FreeRateTyped DEF IInv, TypeOK, SendRefused, Codes

LEMMA SendRaisesTyped ==
    ASSUME IInv, NEW s \in Sends, SendRaises(s)
    PROVE  TypeOK' /\ Slots'
<1>1. send' = [send EXCEPT ![s] = Idle] /\ Idle \in Request
  BY SmsAssumption DEF SendRaises, Idle, Request
<1>2. Slots'
  BY <1>1 DEF Slots, SendRaises, IInv, TypeOK, Codes
<1>3. lapses' \in 0..MaxCodes
  BY LapsedTyped DEF IInv, TypeOK, SendRaises
<1>4. /\ rate' \in [Store -> Key] /\ rate'["memory"] # "stuck"
      /\ ~ setup.redis => rate'["redis"] = "free"
      /\ misses' \in 0..MaxMisses
  BY FreeRateTyped DEF IInv, TypeOK, SendRaises
<1>. QED BY <1>1, <1>2, <1>3, <1>4 DEF IInv, TypeOK, SendRaises, Codes

LEMMA VerifyStepTyped ==
    ASSUME IInv, NEW c \in Codes, Verify(c)
    PROVE  TypeOK' /\ Slots'
BY VerifyTyped DEF IInv, TypeOK, Slots, Verify, Codes, Idle

LEMMA CheckTyped ==
    ASSUME IInv, NEW k \in Checks,
           \/ \E c \in Codes : BeginCheck(k, c)
           \/ CloudChecks(k) \/ CloudUnreachable(k) \/ InvalidateLocal(k) \/ CheckLocal(k)
    PROVE  TypeOK' /\ Slots'
<1>0. TypeOK /\ Slots /\ check \in [Checks -> Request] /\ Idle \in Request
  BY SmsAssumption DEF IInv, TypeOK, Idle, Request
<1>1. ASSUME NEW c \in Codes, BeginCheck(k, c)
      PROVE  TypeOK' /\ Slots'
  <2>1. Calling(c) \in Request /\ Calling(c).phase # "idle" /\ Calling(c).code = c
    BY DEF Calling, Request, Codes
  <2>. QED BY <1>0, <1>1, <2>1 DEF BeginCheck, TypeOK, Slots, Codes
<1>2. CASE CloudChecks(k) \/ CloudUnreachable(k)
  <2>1. /\ check' \in [Checks -> Request] /\ check'[k].phase # "idle"
        /\ check'[k].code = check[k].code /\ check[k].code \in Codes
        /\ \A j \in Checks : j # k => check'[j] = check[j]
    BY <1>0, <1>2 DEF CloudChecks, CloudUnreachable, Slots, Idle, Request
  <2>2. cloud' \in 0..fresh /\ (~ setup.pns => cloud' = 0)
    BY <1>0, <1>2 DEF CloudChecks, CloudUnreachable, TypeOK
  <2>. QED BY <1>0, <1>2, <2>1, <2>2 DEF CloudChecks, CloudUnreachable, TypeOK, Slots, Codes
<1>3. CASE InvalidateLocal(k)
  <2>1. check[k].code \in Codes /\ check' = [check EXCEPT ![k] = Idle]
    BY <1>0, <1>3 DEF InvalidateLocal, Slots, Idle
  <2>2. cached' \in 0..fresh /\ misses' \in 0..MaxMisses
    BY <1>0, <1>3, MissOrReach DEF InvalidateLocal, TypeOK
  <2>3. /\ table' \in [Codes -> {"absent", "valid", "used", "expired"}]
        /\ \A c \in Codes : table'[c] # "absent" => c <= fresh
    BY <1>0, <1>3 DEF InvalidateLocal, TypeOK
  <2>4. serves' \in [Codes -> Nat]
    BY <1>0, <1>3, <2>1 DEF InvalidateLocal, TypeOK, Serve
  <2>. QED BY <1>0, <1>3, <2>1, <2>2, <2>3, <2>4 DEF InvalidateLocal, TypeOK, Slots, Codes
<1>4. CASE CheckLocal(k)
  <2>1. check[k].code \in Codes /\ check' = [check EXCEPT ![k] = Idle]
    BY <1>0, <1>4 DEF CheckLocal, Slots, Idle
  <2>. QED BY <1>0, <1>4, <2>1, VerifyTyped DEF CheckLocal, TypeOK, Slots, Codes
<1>. QED BY <1>1, <1>2, <1>3, <1>4

LEMMA TimeTyped ==
    ASSUME IInv, RateExpires \/ CodeExpires \/ Restart
    PROVE  TypeOK' /\ Slots'
<1>0. TypeOK /\ Slots /\ Idle \in Request
  BY SmsAssumption DEF IInv, Idle, Request
<1>1. CASE RateExpires
  <2>1. lapses' \in 0..MaxCodes
    BY <1>0, <1>1, LapsedTyped DEF RateExpires, TypeOK
  <2>. QED BY <1>0, <1>1, <2>1 DEF RateExpires, TypeOK, Slots, Store, Key, Codes
<1>2. CASE CodeExpires
  <2>1. cached' \in 0..fresh /\ cloud' \in 0..fresh /\ (~ setup.pns => cloud' = 0)
    BY <1>0, <1>2, SmsAssumption DEF CodeExpires, TypeOK
  <2>2. /\ table' \in [Codes -> {"absent", "valid", "used", "expired"}]
        /\ \A c \in Codes : table'[c] # "absent" => c <= fresh
    BY <1>0, <1>2 DEF CodeExpires, TypeOK
  <2>. QED BY <1>0, <1>2, <2>1, <2>2 DEF CodeExpires, TypeOK, Slots, Codes
<1>3. CASE Restart
  BY <1>0, <1>3, LapsedTyped DEF Restart, TypeOK, Slots, Store, Key, Codes
<1>. QED BY <1>1, <1>2, <1>3

-----------------------------------------------------------------------------
(* Windows.                                                                *)

\* What is spent grows by n at most, and so does what there is for it.
Pays(n) ==
    /\ lapses = MaxCodes => lapses' = MaxCodes
    /\ \/ lapses' = MaxCodes
       \/ lapses + misses + One(Blocked) + n <= lapses' + misses' + One(Blocked')

LEMMA PaidThen ==
    ASSUME IInv, NEW n \in {-1, 0, 1}, IsFiniteSet(Open'), fresh' \in Nat,
           messages' + Cardinality(Open') <= messages + Cardinality(Open) + n,
           fresh <= fresh', fresh + n <= fresh', messages' \in Nat, Pays(n),
           lapses' \in Nat, misses' \in Nat
    PROVE  Paid'
<1>1. /\ Cardinality(Open) \in Nat /\ Cardinality(Open') \in Nat
      /\ messages \in Nat /\ fresh \in Nat /\ lapses \in Nat /\ misses \in Nat
      /\ One(Blocked) \in Nat /\ One(Blocked') \in Nat
  BY FS_CardinalityType, SmsAssumption DEF IInv, Paid, TypeOK, One
<1>2. messages' + Cardinality(Open') <= fresh'
  BY <1>1 DEF IInv, Paid
<1>3. \/ messages' + Cardinality(Open') <= lapses' + misses' + One(Blocked')
      \/ lapses' = MaxCodes
  BY <1>1 DEF IInv, Paid, Pays
<1>. QED BY <1>2, <1>3 DEF Paid

\* A key that is made is a window that begins, or costs a call that failed or a
\* window that has ended.
LEMMA IncrPays ==
    ASSUME TypeOK, NEW first \in BOOLEAN, Incr(first), UNCHANGED setup
    PROVE  (first => Pays(1)) /\ (~ first => Pays(0))
<1>0. /\ lapses \in Nat /\ misses \in Nat /\ rate \in [Store -> Key] /\ MaxCodes \in Nat
      /\ Store = {"redis", "memory"} /\ lapses <= MaxCodes
  BY SmsAssumption DEF TypeOK, Store
<1>1. CASE /\ ~ setup.redis
           /\ first = (rate["memory"] = "free")
           /\ rate' = [rate EXCEPT !["memory"] = Kept(@)]
           /\ UNCHANGED lapses /\ Reach
  <2>0. lapses' = lapses /\ misses' = misses
    BY <1>1 DEF Reach
  <2>1. Blocked = ~ (rate["memory"] = "free") /\ Blocked'
    BY <1>0, <1>1 DEF Blocked, Kept
  <2>2. One(Blocked') = 1 /\ One(Blocked) \in {0, 1}
    BY <2>1 DEF One
  <2>3. first => ~ Blocked
    BY <1>1, <2>1
  <2>4. first => One(Blocked) = 0
    BY <2>3 DEF One
  <2>5. Pays(0)
    BY <1>0, <2>0, <2>2 DEF Pays
  <2>6. ASSUME One(Blocked) = 0 PROVE Pays(1)
    BY <1>0, <2>0, <2>2, <2>6 DEF Pays
  <2>. QED BY <2>4, <2>5, <2>6
<1>2. CASE /\ setup.redis
           /\ first = (rate["redis"] = "free")
           /\ rate' = [rate EXCEPT !["redis"] = Kept(@)]
           /\ UNCHANGED lapses /\ Reach
  <2>0. lapses' = lapses /\ misses' = misses
    BY <1>2 DEF Reach
  <2>1. Blocked = ~ (rate["redis"] = "free") /\ Blocked'
    BY <1>0, <1>2 DEF Blocked, Kept
  <2>2. One(Blocked') = 1 /\ One(Blocked) \in {0, 1}
    BY <2>1 DEF One
  <2>3. first => ~ Blocked
    BY <1>2, <2>1
  <2>4. first => One(Blocked) = 0
    BY <2>3 DEF One
  <2>5. Pays(0)
    BY <1>0, <2>0, <2>2 DEF Pays
  <2>6. ASSUME One(Blocked) = 0 PROVE Pays(1)
    BY <1>0, <2>0, <2>2, <2>6 DEF Pays
  <2>. QED BY <2>4, <2>5, <2>6
<1>3. CASE /\ setup.redis
           /\ first
           /\ rate["redis"] = "closing"
           /\ rate' = [rate EXCEPT !["redis"] = "stuck"]
           /\ Lapsed /\ Reach
  BY <1>0, <1>3 DEF Pays, One, Blocked, Reach, Lapsed
<1>4. CASE /\ Miss
           /\ \E k \in {rate["redis"], Kept(rate["redis"])} :
                 rate' = [rate EXCEPT !["redis"] = k, !["memory"] = Kept(@)]
           /\ UNCHANGED lapses
  <2>1. setup.redis /\ misses' = misses + 1 /\ lapses' = lapses
    BY <1>4 DEF Miss
  <2>2. rate'["redis"] = "free" => rate["redis"] = "free"
    BY <1>0, <1>4 DEF Kept
  <2>3. One(Blocked) <= One(Blocked') /\ One(Blocked) \in Nat /\ One(Blocked') \in Nat
    BY <2>1, <2>2 DEF One, Blocked
  <2>. QED BY <1>0, <2>1, <2>3 DEF Pays
<1>. QED BY <1>1, <1>2, <1>3, <1>4 DEF Incr

\* To give a window back costs the message that it was for.
LEMMA FreeRatePays ==
    ASSUME TypeOK, FreeRate, UNCHANGED <<setup, lapses>>
    PROVE  Pays(-1)
<1>0. lapses \in Nat /\ misses \in Nat /\ rate \in [Store -> Key]
  BY SmsAssumption DEF TypeOK
<1>1. misses' \in Nat /\ misses <= misses'
  <2>1. Miss \/ Reach
    BY DEF FreeRate
  <2>. QED BY <2>1, MissOrReach, SmsAssumption
<1>2. One(Blocked) \in {0, 1} /\ One(Blocked') \in {0, 1}
  BY DEF One
<1>. QED BY <1>0, <1>1, <1>2 DEF Pays

LEMMA SamePays ==
    ASSUME lapses \in Nat, misses \in Nat, misses' \in Nat, misses <= misses',
           UNCHANGED <<setup, rate, lapses>>
    PROVE  Pays(0)
<1>1. Blocked' = Blocked
  BY DEF Blocked
<1>2. One(Blocked') = One(Blocked) /\ One(Blocked) \in Nat
  BY <1>1 DEF One
<1>. QED BY <1>2 DEF Pays

LEMMA PaidStays ==
    ASSUME IInv, UNCHANGED <<setup, rate, send, fresh, messages, lapses>>,
           misses' \in Nat, misses <= misses'
    PROVE  Paid'
<1>1. Open' = Open /\ Blocked' = Blocked
  BY DEF Open, Blocked
<1>2. /\ Cardinality(Open) \in Nat /\ messages \in Nat /\ fresh \in Nat
      /\ lapses \in Nat /\ misses \in Nat /\ One(Blocked) \in Nat
  BY FS_CardinalityType, SmsAssumption DEF IInv, Paid, TypeOK, One
<1>. QED BY <1>1, <1>2 DEF IInv, Paid, One

LEMMA SendPaid ==
    ASSUME IInv, NEW s \in Sends, Send(s)
    PROVE  Paid'
<1>0. TypeOK /\ send \in [Sends -> Request] /\ fresh \in Nat /\ IsFiniteSet(Open)
  BY SmsAssumption DEF IInv, Paid, TypeOK
<1>1. Open' = Open \cup {s} /\ s \notin Open
  BY <1>0 DEF Send, Open, Calling, Idle
<1>2. /\ IsFiniteSet(Open') /\ Cardinality(Open') = Cardinality(Open) + 1
      /\ Cardinality(Open) \in Nat
  BY <1>0, <1>1, FS_AddElement, FS_CardinalityType
<1>3. Pays(1)
  BY <1>0, IncrPays DEF Send
<1>4. messages' \in Nat /\ lapses' \in Nat /\ misses' \in Nat
  <2>1. lapses' \in 0..MaxCodes /\ misses' \in 0..MaxMisses
    BY <1>0, IncrTyped DEF Send
  <2>2. messages \in Nat /\ messages' = messages
    BY <1>0 DEF Send, TypeOK
  <2>. QED BY <2>1, <2>2, SmsAssumption
<1>5. messages' + Cardinality(Open') <= messages + Cardinality(Open) + 1
      /\ fresh' \in Nat /\ fresh <= fresh' /\ fresh + 1 <= fresh'
  BY <1>0, <1>2, <1>4 DEF Send
<1>. QED BY <1>2, <1>3, <1>4, <1>5, PaidThen

LEMMA TooSoonPaid ==
    ASSUME IInv, SendTooSoon
    PROVE  Paid'
<1>0. TypeOK /\ fresh \in Nat /\ messages \in Nat /\ IsFiniteSet(Open) /\ Cardinality(Open) \in Nat
  BY FS_CardinalityType, SmsAssumption DEF IInv, Paid, TypeOK
<1>1. Open' = Open
  BY DEF SendTooSoon, Open
<1>2. Pays(0)
  BY <1>0, IncrPays DEF SendTooSoon
<1>3. lapses' \in Nat /\ misses' \in Nat
  <2>1. lapses' \in 0..MaxCodes /\ misses' \in 0..MaxMisses
    BY <1>0, IncrTyped DEF SendTooSoon
  <2>. QED BY <2>1, SmsAssumption
<1>4. UNCHANGED <<fresh, messages>>
  BY DEF SendTooSoon
<1>. QED BY <1>0, <1>1, <1>2, <1>3, <1>4, PaidThen

\* The provider accepts a message, or an open request goes away.
LEMMA ProvidePaid ==
    ASSUME IInv, NEW s \in Sends, Provide(s)
    PROVE  Paid'
<1>0. /\ TypeOK /\ fresh \in Nat /\ messages \in Nat /\ IsFiniteSet(Open) /\ lapses \in Nat
      /\ misses \in Nat /\ send \in [Sends -> Request] /\ Cardinality(Open) \in Nat
  BY FS_CardinalityType, SmsAssumption DEF IInv, Paid, TypeOK
<1>1. \/ Open' = Open \ {s} /\ messages' = messages + 1
      \/ Open' = Open /\ messages' = messages
  <2>1. CASE send' = [send EXCEPT ![s].phase = "done"] /\ messages' = messages + 1
    <3>1. send'[s].phase = "done" /\ \A t \in Sends : t # s => send'[t] = send[t]
      BY <1>0, <2>1 DEF Request
    <3>. QED BY <2>1, <3>1 DEF Open
  <2>2. CASE send' = [send EXCEPT ![s].phase = "refused"] /\ messages' = messages
    <3>1. send'[s].phase = "refused" /\ \A t \in Sends : t # s => send'[t] = send[t]
      BY <1>0, <2>2 DEF Request
    <3>2. send[s].phase = "calling"
      BY DEF Provide
    <3>. QED BY <2>2, <3>1, <3>2 DEF Open
  <2>. QED BY <2>1, <2>2 DEF Provide
<1>2. /\ IsFiniteSet(Open \ {s}) /\ Cardinality(Open \ {s}) = Cardinality(Open) - 1
  BY CallingCounts DEF Provide
<1>3. /\ IsFiniteSet(Open') /\ messages' + Cardinality(Open') <= messages + Cardinality(Open) + 0
      /\ messages' \in Nat
  BY <1>0, <1>1, <1>2
<1>4. UNCHANGED <<setup, rate, fresh, lapses, misses>>
  BY DEF Provide
<1>5. Pays(0)
  BY <1>0, <1>4, SamePays
<1>. QED BY <1>0, <1>3, <1>4, <1>5, PaidThen

LEMMA PersistPaid ==
    ASSUME IInv, NEW s \in Sends, Persist(s)
    PROVE  Paid'
<1>0. /\ TypeOK /\ fresh \in Nat /\ messages \in Nat /\ IsFiniteSet(Open) /\ lapses \in Nat
      /\ misses \in Nat /\ send \in [Sends -> Request] /\ Cardinality(Open) \in Nat
      /\ send[s].code \in 0..fresh
  BY FS_CardinalityType, SmsAssumption DEF IInv, Paid, TypeOK, Slots, Idle
<1>1. Open' = Open
  BY <1>0 DEF Persist, Open, Idle
<1>2. misses' \in Nat /\ misses <= misses'
  BY <1>0, PutCodeTyped, SmsAssumption DEF Persist
<1>3. UNCHANGED <<setup, rate, fresh, lapses, messages>>
  BY DEF Persist
<1>4. Pays(0)
  BY <1>0, <1>2, <1>3, SamePays
<1>. QED BY <1>0, <1>1, <1>2, <1>3, <1>4, PaidThen

LEMMA SendRefusedPaid ==
    ASSUME IInv, NEW s \in Sends, SendRefused(s)
    PROVE  Paid'
<1>0. /\ TypeOK /\ fresh \in Nat /\ messages \in Nat /\ lapses \in Nat
      /\ send \in [Sends -> Request] /\ Cardinality(Open) \in Nat
  BY FS_CardinalityType, SmsAssumption DEF IInv, Paid, TypeOK
<1>1. Open' = Open \ {s}
  BY <1>0 DEF SendRefused, Open, Idle
<1>2. IsFiniteSet(Open \ {s}) /\ Cardinality(Open \ {s}) = Cardinality(Open) - 1
  BY CallingCounts DEF SendRefused
<1>3. UNCHANGED <<setup, fresh, lapses, messages>>
  BY DEF SendRefused
<1>4. Pays(-1) /\ misses' \in Nat
  BY <1>0, <1>3, FreeRatePays, FreeRateTyped, SmsAssumption DEF SendRefused
<1>5. messages' + Cardinality(Open') <= messages + Cardinality(Open) + -1
      /\ fresh + -1 <= fresh'
  BY <1>0, <1>1, <1>2, <1>3
<1>. QED BY <1>0, <1>1, <1>2, <1>3, <1>4, <1>5, PaidThen

LEMMA LapsedPays ==
    ASSUME TypeOK, Lapsed, UNCHANGED misses
    PROVE  Pays(0)
<1>1. lapses \in Nat /\ misses \in Nat /\ MaxCodes \in Nat /\ lapses <= MaxCodes
  BY SmsAssumption DEF TypeOK
<1>2. One(Blocked) \in {0, 1} /\ One(Blocked') \in {0, 1}
  BY DEF One
<1>. QED BY <1>1, <1>2 DEF Pays, Lapsed

LEMMA SendRaisesPaid ==
    ASSUME IInv, NEW s \in Sends, SendRaises(s)
    PROVE  Paid'
<1>0. /\ TypeOK /\ fresh \in Nat /\ messages \in Nat /\ lapses \in Nat /\ misses \in Nat
      /\ send \in [Sends -> Request] /\ Cardinality(Open) \in Nat /\ IsFiniteSet(Open)
      /\ Open \subseteq Sends /\ send[s] # Idle
  BY FS_CardinalityType, SmsAssumption DEF IInv, Paid, TypeOK, Open, SendRaises
<1>1. Open' = Open \ {s} /\ UNCHANGED <<setup, fresh, messages>>
  BY <1>0 DEF SendRaises, Open, Idle
<1>2. send[s].phase \in {"calling", "refused", "done"}
  BY <1>0 DEF IInv, Slots, TypeOK, Request
<1>3. lapses' \in Nat
  BY <1>0, LapsedTyped, SmsAssumption DEF SendRaises
<1>4. CASE send[s].phase = "done"
  <2>1. Open' = Open
    BY <1>1, <1>4 DEF Open
  <2>2. Pays(0) /\ misses' \in Nat
    <3>1. CASE setup.pns
      <4>1. Lapsed /\ FreeRate
        BY <1>4, <3>1 DEF SendRaises
      <4>2. misses' \in Nat /\ misses <= misses'
        BY <1>0, <4>1, MissOrReach, SmsAssumption DEF FreeRate
      <4>3. MaxCodes \in Nat /\ lapses <= MaxCodes
        BY <1>0, SmsAssumption DEF TypeOK
      <4>4. One(Blocked) \in {0, 1} /\ One(Blocked') \in {0, 1}
        BY DEF One
      <4>5. Pays(0)
        BY <1>0, <4>1, <4>2, <4>3, <4>4 DEF Pays, Lapsed
      <4>. QED BY <4>2, <4>5
    <3>2. CASE ~ setup.pns
      <4>1. UNCHANGED <<rate, misses, lapses, setup>>
        BY <3>2 DEF SendRaises
      <4>. QED BY <1>0, <4>1, SamePays
    <3>. QED BY <3>1, <3>2
  <2>3. messages' + Cardinality(Open') <= messages + Cardinality(Open) + 0
        /\ fresh + 0 <= fresh'
    BY <1>0, <1>1, <2>1
  <2>. QED BY <1>0, <1>1, <1>3, <2>1, <2>2, <2>3, PaidThen
<1>5. CASE send[s].phase # "done"
  <2>1. IsFiniteSet(Open \ {s}) /\ Cardinality(Open \ {s}) = Cardinality(Open) - 1
    BY <1>2, <1>5, CallingCounts
  <2>2. Pays(-1) /\ misses' \in Nat
    <3>1. UNCHANGED <<setup, lapses>>
      BY <1>5 DEF SendRaises
    <3>2. CASE setup.pns
      <4>1. FreeRate
        BY <3>2 DEF SendRaises
      <4>. QED BY <1>0, <3>1, <4>1, FreeRatePays, FreeRateTyped, SmsAssumption
    <3>3. CASE ~ setup.pns
      <4>1. UNCHANGED <<rate, misses>>
        BY <3>3 DEF SendRaises
      <4>2. One(Blocked) \in {0, 1} /\ One(Blocked') \in {0, 1}
        BY DEF One
      <4>. QED BY <1>0, <3>1, <4>1, <4>2 DEF Pays
    <3>. QED BY <3>2, <3>3
  <2>3. messages' + Cardinality(Open') <= messages + Cardinality(Open) + -1
        /\ fresh + -1 <= fresh'
    BY <1>0, <1>1, <2>1
  <2>. QED BY <1>0, <1>1, <1>3, <2>1, <2>2, <2>3, PaidThen
<1>. QED BY <1>4, <1>5

LEMMA RestartPaid ==
    ASSUME IInv, Restart
    PROVE  Paid'
<1>0. /\ TypeOK /\ fresh \in Nat /\ messages \in Nat /\ lapses \in Nat /\ misses \in Nat
      /\ Cardinality(Open) \in Nat
  BY FS_CardinalityType, SmsAssumption DEF IInv, Paid, TypeOK
<1>1. Open' = {} /\ UNCHANGED <<setup, fresh, messages, misses>>
  BY DEF Restart, Open, Idle
<1>2. IsFiniteSet(Open') /\ Cardinality(Open') = 0
  BY <1>1, FS_EmptySet
<1>3. lapses' \in Nat /\ Pays(0)
  BY <1>0, <1>1, LapsedTyped, LapsedPays, SmsAssumption DEF Restart
<1>4. messages' + Cardinality(Open') <= messages + Cardinality(Open) + 0
  BY <1>0, <1>1, <1>2
<1>. QED BY <1>0, <1>1, <1>2, <1>3, <1>4, PaidThen

LEMMA RateExpiresPaid ==
    ASSUME IInv, RateExpires
    PROVE  Paid'
<1>0. /\ TypeOK /\ fresh \in Nat /\ messages \in Nat /\ lapses \in Nat /\ misses \in Nat
      /\ Cardinality(Open) \in Nat /\ IsFiniteSet(Open)
  BY FS_CardinalityType, SmsAssumption DEF IInv, Paid, TypeOK
<1>1. Open' = Open /\ UNCHANGED <<setup, fresh, messages, misses>>
  BY DEF RateExpires, Open
<1>2. lapses' \in Nat /\ Pays(0)
  <2>1. CASE Lapsed
    BY <1>0, <1>1, <2>1, LapsedTyped, LapsedPays, SmsAssumption
  <2>2. ASSUME NEW s \in Store, rate[s] = "window", rate' = [rate EXCEPT ![s] = "closing"],
               UNCHANGED lapses
        PROVE  lapses' \in Nat /\ Pays(0)
    <3>1. Blocked' = Blocked
      BY <1>0, <1>1, <2>2 DEF Blocked, TypeOK
    <3>2. One(Blocked') = One(Blocked) /\ One(Blocked) \in Nat
      BY <3>1 DEF One
    <3>. QED BY <1>0, <1>1, <2>2, <3>2 DEF Pays
  <2>. QED BY <2>1, <2>2 DEF RateExpires
<1>. QED BY <1>0, <1>1, <1>2, PaidThen

LEMMA OthersPaid ==
    ASSUME IInv,
           \/ \E c \in Codes : Verify(c)
           \/ \E k \in Checks :
                \/ \E c \in Codes : BeginCheck(k, c)
                \/ CloudChecks(k) \/ CloudUnreachable(k) \/ InvalidateLocal(k) \/ CheckLocal(k)
           \/ CodeExpires
    PROVE  Paid'
<1>1. UNCHANGED <<setup, rate, send, fresh, messages, lapses>>
  BY DEF Verify, BeginCheck, CloudChecks, CloudUnreachable, InvalidateLocal, CheckLocal, CodeExpires
<1>2. misses' = misses \/ Miss \/ Reach \/ \E c \in Codes : VerifyLocal(c)
  <2>1. \A k \in Checks : check[k] # Idle => check[k].code \in Codes
    BY DEF IInv, Slots
  <2>. QED BY <2>1 DEF Verify, BeginCheck, CloudChecks, CloudUnreachable, InvalidateLocal,
                    CheckLocal, CodeExpires, Idle
<1>3. misses' \in Nat /\ misses <= misses'
  <2>1. TypeOK /\ misses \in Nat
    BY SmsAssumption DEF IInv, TypeOK
  <2>. QED BY <1>2, <2>1, MissOrReach, VerifyTyped, SmsAssumption
<1>. QED BY <1>1, <1>3, PaidStays

LEMMA InitInv == Init => IInv
<1>. SUFFICES ASSUME Init PROVE IInv
  OBVIOUS
<1>1. Open = {}
  BY DEF Init, Open, Idle
<1>2. Paid
  <2>1. IsFiniteSet(Open) /\ Cardinality(Open) = 0
    BY <1>1, FS_EmptySet
  <2>2. One(Blocked) \in Nat /\ messages = 0 /\ fresh = 0 /\ lapses = 0 /\ misses = 0
    BY DEF One, Init
  <2>. QED BY <2>1, <2>2 DEF Paid
<1>. QED BY <1>2, InitTyped DEF IInv

LEMMA NextStep == IInv /\ [Next]_vars => IInv'
<1>. SUFFICES ASSUME IInv, [Next]_vars PROVE IInv'
  OBVIOUS
<1>1. CASE UNCHANGED vars
  BY <1>1 DEF vars, IInv, TypeOK, Slots, Paid, Open, Blocked, Codes
<1>2. ASSUME NEW s \in Sends,
             Send(s) \/ Provide(s) \/ Persist(s) \/ SendRefused(s) \/ SendRaises(s)
      PROVE  IInv'
  BY <1>2, SendTyped, ProvideTyped, PersistTyped, SendRefusedTyped, SendRaisesTyped,
     SendPaid, ProvidePaid, PersistPaid, SendRefusedPaid, SendRaisesPaid DEF IInv
<1>3. CASE SendTooSoon
  BY <1>3, TooSoonTyped, TooSoonPaid DEF IInv
<1>4. ASSUME NEW c \in Codes, Verify(c)
      PROVE  IInv'
  BY <1>4, VerifyStepTyped, OthersPaid DEF IInv
<1>5. ASSUME NEW k \in Checks,
             \/ \E c \in Codes : BeginCheck(k, c)
             \/ CloudChecks(k) \/ CloudUnreachable(k) \/ InvalidateLocal(k) \/ CheckLocal(k)
      PROVE  IInv'
  BY <1>5, CheckTyped, OthersPaid DEF IInv
<1>6. CASE RateExpires \/ CodeExpires \/ Restart
  BY <1>6, TimeTyped, RateExpiresPaid, OthersPaid, RestartPaid DEF IInv
<1>. QED BY <1>1, <1>2, <1>3, <1>4, <1>5, <1>6 DEF Next

\* The invariant holds in every reachable state.
THEOREM Inductive == Spec => []IInv
BY InitInv, NextStep, PTL DEF Spec

\* Every reachable state is typed; a key without a time to live is in Redis only,
\* and no code is stored before it is generated (sms_service.py:412-529).
THEOREM TypeCorrect == Spec => []TypeOK
<1>1. IInv => TypeOK
  BY DEF IInv
<1>. QED BY <1>1, Inductive, PTL

\* Each message but the first is paid for by a window that has ended or a call of
\* Redis that failed (sms_service.py:423-452).
THEOREM WindowSafe == Spec => []OneMessagePerWindow
<1>1. IInv => OneMessagePerWindow
  <2>. SUFFICES ASSUME IInv PROVE messages <= 1 + lapses + misses
    BY DEF OneMessagePerWindow
  <2>1. /\ messages \in Nat /\ lapses \in Nat /\ misses \in Nat /\ fresh <= MaxCodes
        /\ Cardinality(Open) \in Nat /\ MaxCodes \in Nat /\ fresh \in Nat
    BY FS_CardinalityType, SmsAssumption DEF IInv, Paid, TypeOK
  <2>2. One(Blocked) \in {0, 1}
    BY DEF One
  <2>. QED BY <2>1, <2>2 DEF IInv, Paid
<1>. QED BY <1>1, Inductive, PTL

-----------------------------------------------------------------------------
(* Codes.                                                                  *)

CacheUsed == setup.redis \/ ~ setup.sqlite

\* A code is on its way to the places that will keep it, or to the provider.
Pending(c) == \E s \in Sends : send[s].code = c /\ send[s].phase \in {"calling", "done"}
Asked(c) == \E s \in Sends : send[s].code = c /\ send[s].phase = "calling"

\* A code is for one request, and nowhere before the answer to that.
Once ==
    \A s, t \in Sends :
        send[s].phase # "idle" /\ send[t].phase # "idle" /\ send[s].code = send[t].code => s = t
Unstored ==
    \A s \in Sends : send[s].phase # "idle" =>
        /\ table[send[s].code] = "absent" /\ cached # send[s].code
        /\ send[s].phase = "calling" => cloud # send[s].code

\* What may be in the cache.
CacheRight ==
    /\ ~ CacheUsed => cached = 0
    /\ misses = 0 /\ cached # 0 => cached = newest

\* The places from which a code may still be accepted, or will be.
InCache(c) == CacheUsed /\ (cached = c \/ Pending(c) \/ c > fresh)
InTable(c) == table[c] = "valid" \/ Pending(c) \/ c > fresh
AtProvider(c) == setup.pns /\ (cloud = c \/ Asked(c) \/ c > fresh)
Passed(c) == {k \in Checks : check[k].phase = "done" /\ check[k].code = c}

Left(c) == One(InCache(c)) + One(InTable(c)) + One(AtProvider(c)) + Cardinality(Passed(c))

Spent ==
    \A c \in Codes : IsFiniteSet(Passed(c)) /\ serves[c] + Left(c) <= Places + misses

CInv == IInv /\ Once /\ Unstored /\ CacheRight /\ Spent

\* No place is added for c.
Shrinks(c) ==
    /\ Passed(c)' \subseteq Passed(c)
    /\ InCache(c)' => InCache(c)
    /\ InTable(c)' => InTable(c)
    /\ AtProvider(c)' => AtProvider(c)

LEMMA LeftShrinks ==
    ASSUME NEW c \in Codes, IsFiniteSet(Passed(c)), Shrinks(c)
    PROVE  /\ IsFiniteSet(Passed(c)') /\ Left(c)' <= Left(c)
           /\ Left(c) \in Nat /\ Left(c)' \in Nat
<1>1. /\ IsFiniteSet(Passed(c)') /\ Cardinality(Passed(c)') <= Cardinality(Passed(c))
      /\ Cardinality(Passed(c)) \in Nat /\ Cardinality(Passed(c)') \in Nat
  BY FS_Subset, FS_CardinalityType DEF Shrinks
<1>2. /\ One(InCache(c)') <= One(InCache(c))
      /\ One(InTable(c)') <= One(InTable(c))
      /\ One(AtProvider(c)') <= One(AtProvider(c))
  BY DEF Shrinks, One
<1>3. /\ One(InCache(c)) \in Nat /\ One(InCache(c)') \in Nat
      /\ One(InTable(c)) \in Nat /\ One(InTable(c)') \in Nat
      /\ One(AtProvider(c)) \in Nat /\ One(AtProvider(c)') \in Nat
  BY DEF One
<1>4. Left(c)' = One(InCache(c)') + One(InTable(c)') + One(AtProvider(c)') + Cardinality(Passed(c)')
  BY DEF Left, One
<1>. QED BY <1>1, <1>2, <1>3, <1>4 DEF Left

\* One is taken away.
LEMMA LeftLoses ==
    ASSUME NEW c \in Codes, IsFiniteSet(Passed(c)), Shrinks(c),
           \/ InCache(c) /\ ~ InCache(c)'
           \/ InTable(c) /\ ~ InTable(c)'
           \/ Passed(c)' # Passed(c)
    PROVE  IsFiniteSet(Passed(c)') /\ Left(c)' + 1 <= Left(c)
<1>1. /\ IsFiniteSet(Passed(c)') /\ Cardinality(Passed(c)') <= Cardinality(Passed(c))
      /\ Cardinality(Passed(c)) \in Nat /\ Cardinality(Passed(c)') \in Nat
      /\ Passed(c)' # Passed(c) => Cardinality(Passed(c)') # Cardinality(Passed(c))
  BY FS_Subset, FS_CardinalityType DEF Shrinks
<1>2. /\ One(InCache(c)') <= One(InCache(c))
      /\ One(InTable(c)') <= One(InTable(c))
      /\ One(AtProvider(c)') <= One(AtProvider(c))
  BY DEF Shrinks, One
<1>3. /\ One(InCache(c)) \in Nat /\ One(InCache(c)') \in Nat
      /\ One(InTable(c)) \in Nat /\ One(InTable(c)') \in Nat
      /\ One(AtProvider(c)) \in Nat /\ One(AtProvider(c)') \in Nat
  BY DEF One
<1>4. Left(c)' = One(InCache(c)') + One(InTable(c)') + One(AtProvider(c)') + Cardinality(Passed(c)')
  BY DEF Left, One
<1>5. \/ One(InCache(c)') + 1 <= One(InCache(c))
      \/ One(InTable(c)') + 1 <= One(InTable(c))
      \/ Cardinality(Passed(c)') # Cardinality(Passed(c))
  BY <1>1 DEF One
<1>. QED BY <1>1, <1>2, <1>3, <1>4, <1>5 DEF Left

\* A code that is not accepted.
LEMMA SpentStays ==
    ASSUME CInv, NEW c \in Codes, Shrinks(c), setup' = setup, serves'[c] = serves[c],
           misses' \in Nat, misses <= misses'
    PROVE  IsFiniteSet(Passed(c)') /\ serves'[c] + Left(c)' <= Places' + misses'
<1>1. Places' = Places /\ Places \in Nat
  BY DEF Places
<1>2. serves[c] \in Nat /\ misses \in Nat
  BY SmsAssumption DEF CInv, IInv, TypeOK
<1>3. IsFiniteSet(Passed(c)) /\ serves[c] + Left(c) <= Places + misses
  BY DEF CInv, Spent
<1>. QED BY <1>1, <1>2, <1>3, LeftShrinks

\* A code that is, from a place that keeps it no longer, or for a call that failed.
LEMMA SpentOnce ==
    ASSUME CInv, NEW c \in Codes, Shrinks(c), setup' = setup, serves'[c] = serves[c] + 1,
           misses' \in Nat, misses <= misses',
           \/ InCache(c) /\ ~ InCache(c)'
           \/ InTable(c) /\ ~ InTable(c)'
           \/ Passed(c)' # Passed(c)
           \/ misses' = misses + 1
    PROVE  IsFiniteSet(Passed(c)') /\ serves'[c] + Left(c)' <= Places' + misses'
<1>1. Places' = Places /\ Places \in Nat
  BY DEF Places
<1>2. serves[c] \in Nat /\ misses \in Nat
  BY SmsAssumption DEF CInv, IInv, TypeOK
<1>3. IsFiniteSet(Passed(c)) /\ serves[c] + Left(c) <= Places + misses
  BY DEF CInv, Spent
<1>4. /\ IsFiniteSet(Passed(c)') /\ Left(c) \in Nat /\ Left(c)' \in Nat
      /\ Left(c)' <= Left(c) /\ (misses' = misses + 1 \/ Left(c)' + 1 <= Left(c))
  BY <1>3, LeftShrinks, LeftLoses
<1>. QED BY <1>1, <1>2, <1>3, <1>4

\* What is used of the types.
LEMMA Facts ==
    ASSUME CInv
    PROVE  /\ TypeOK /\ Slots /\ Once /\ Unstored /\ CacheRight
           /\ fresh \in Nat /\ MaxCodes \in Nat /\ fresh <= MaxCodes /\ misses \in Nat
           /\ cached \in 0..fresh /\ cloud \in 0..fresh
           /\ send \in [Sends -> Request] /\ check \in [Checks -> Request]
           /\ \A c \in Codes : table[c] # "absent" => c <= fresh
           /\ Codes = 1..MaxCodes
BY SmsAssumption DEF CInv, IInv, TypeOK, Codes

\* Steps that take no new code and accept none.
LEMMA QuietSpent ==
    ASSUME CInv, UNCHANGED <<setup, serves>>, misses' \in Nat, misses <= misses',
           \A c \in Codes : Shrinks(c)
    PROVE  Spent'
<1>. SUFFICES ASSUME NEW c \in Codes
              PROVE  IsFiniteSet(Passed(c)') /\ serves'[c] + Left(c)' <= Places' + misses'
  BY DEF Spent, Codes
<1>. QED BY SpentStays

LEMMA SendCodes ==
    ASSUME CInv, IInv', NEW s \in Sends, Send(s)
    PROVE  CInv'
<1>0. /\ TypeOK /\ Slots /\ Once /\ Unstored /\ CacheRight
      /\ fresh \in Nat /\ MaxCodes \in Nat /\ fresh < MaxCodes /\ misses \in Nat
      /\ cached \in 0..fresh /\ cloud \in 0..fresh /\ send \in [Sends -> Request]
  BY Facts DEF Send
<1>1. /\ fresh' = fresh + 1 /\ fresh' \in Codes /\ table[fresh'] = "absent"
      /\ UNCHANGED <<setup, cached, table, cloud, check, newest, serves>>
  BY <1>0, Facts DEF Send, Codes
<1>2. /\ send'[s].code = fresh + 1 /\ send'[s].phase = "calling"
      /\ \A t \in Sends : t # s => send'[t] = send[t]
      /\ \A t \in Sends : send[t].phase # "idle" => send[t].code <= fresh
      /\ send[s].phase = "idle"
  BY <1>0, <1>1 DEF Send, Calling, Slots, Idle
<1>3. misses' \in Nat /\ misses <= misses'
  <2>1. misses' = misses \/ misses' = misses + 1
    BY DEF Send, Incr, Miss, Reach
  <2>. QED BY <1>0, <2>1
<1>4. Once'
  BY <1>0, <1>2 DEF Once
<1>5. Unstored'
  BY <1>0, <1>1, <1>2 DEF Unstored
<1>6. CacheRight'
  BY <1>0, <1>1, <1>3 DEF CacheRight, CacheUsed
<1>7. ASSUME NEW c \in Codes PROVE Shrinks(c)
  <2>1. c \in Nat /\ (c > fresh' => c > fresh) /\ (c = fresh + 1 => c > fresh)
    BY <1>0, <1>1 DEF Codes
  <2>2. /\ Pending(c)' => Pending(c) \/ c = fresh + 1
        /\ Asked(c)' => Asked(c) \/ c = fresh + 1
    BY <1>2 DEF Pending, Asked
  <2>. QED BY <1>1, <2>1, <2>2 DEF Shrinks, InCache, InTable, AtProvider, Passed, CacheUsed
<1>8. Spent'
  BY <1>1, <1>3, <1>7, QuietSpent
<1>. QED BY <1>4, <1>5, <1>6, <1>8 DEF CInv

LEMMA ProvideCodes ==
    ASSUME CInv, IInv', NEW s \in Sends, Provide(s)
    PROVE  CInv'
<1>0. /\ TypeOK /\ Slots /\ Once /\ Unstored /\ CacheRight /\ misses \in Nat
      /\ send \in [Sends -> Request] /\ send[s].phase = "calling"
  BY Facts DEF Provide
<1>1. UNCHANGED <<setup, cached, table, check, fresh, newest, serves, misses>>
  BY DEF Provide
<1>2. /\ send'[s].code = send[s].code /\ send'[s].phase \in {"done", "refused"}
      /\ \A t \in Sends : t # s => send'[t] = send[t]
  BY <1>0 DEF Provide, Request
<1>3. cloud' = cloud \/ (setup.pns /\ cloud' = send[s].code)
  BY DEF Provide
<1>4. Once'
  BY <1>0, <1>2 DEF Once
<1>5. Unstored'
  BY <1>0, <1>1, <1>2, <1>3 DEF Unstored, Once
<1>6. CacheRight'
  BY <1>0, <1>1 DEF CacheRight, CacheUsed
<1>7. ASSUME NEW c \in Codes PROVE Shrinks(c)
  <2>1. (Pending(c)' => Pending(c)) /\ (Asked(c)' => Asked(c))
        /\ (cloud' = c => cloud = c \/ (setup.pns /\ Asked(c)))
    BY <1>0, <1>2, <1>3 DEF Pending, Asked
  <2>. QED BY <1>1, <2>1 DEF Shrinks, InCache, InTable, AtProvider, Passed, CacheUsed
<1>8. Spent'
  BY <1>0, <1>1, <1>7, QuietSpent
<1>. QED BY <1>4, <1>5, <1>6, <1>8 DEF CInv

LEMMA PersistCodes ==
    ASSUME CInv, IInv', NEW s \in Sends, Persist(s)
    PROVE  CInv'
<1> DEFINE b == send[s].code
<1>0. /\ TypeOK /\ Slots /\ Once /\ Unstored /\ CacheRight /\ misses \in Nat
      /\ send \in [Sends -> Request] /\ send[s].phase = "done" /\ b \in 1..fresh
      /\ fresh \in Nat /\ MaxCodes \in Nat /\ b \in Codes
      /\ table \in [Codes -> {"absent", "valid", "used", "expired"}]
  BY Facts DEF Persist, Slots, Idle, Codes, TypeOK
<1>1. UNCHANGED <<setup, cloud, check, fresh, serves>> /\ newest' = b
  BY DEF Persist
<1>2. /\ send'[s].phase = "idle" /\ \A t \in Sends : t # s => send'[t] = send[t]
      /\ table' = [table EXCEPT ![b] = "valid"]
  BY <1>0 DEF Persist, Idle
<1>3. /\ cached' = cached \/ (CacheUsed /\ cached' = b)
      /\ misses' = misses \/ misses' = misses + 1
      /\ CacheUsed => cached' = b \/ misses' = misses + 1
  BY DEF Persist, PutCode, Reach, Miss, CacheUsed
<1>4. misses' \in Nat /\ misses <= misses'
  BY <1>0, <1>3
<1>5. \A t \in Sends : t # s /\ send[t].phase # "idle" => send[t].code # b
  BY <1>0 DEF Once
<1>6. Once'
  BY <1>0, <1>2 DEF Once
<1>7. Unstored'
  <2>. SUFFICES ASSUME NEW t \in Sends, send'[t].phase # "idle"
                PROVE  /\ table'[send'[t].code] = "absent" /\ cached' # send'[t].code
                       /\ send'[t].phase = "calling" => cloud' # send'[t].code
    BY DEF Unstored
  <2>1. t # s /\ send'[t] = send[t] /\ send[t].code # b
    BY <1>2, <1>5
  <2>2. table'[send[t].code] = table[send[t].code]
    BY <1>0, <1>2, <2>1
  <2>. QED BY <1>0, <1>1, <1>3, <2>1, <2>2 DEF Unstored
<1>8. CacheRight'
  <2>1. misses' = 0 => misses = 0 /\ misses' # misses + 1
    BY <1>0, <1>3
  <2>. QED BY <1>0, <1>1, <1>3, <2>1 DEF CacheRight, CacheUsed
<1>9. ASSUME NEW c \in Codes PROVE Shrinks(c)
  <2>1. (Pending(c)' => Pending(c)) /\ (Asked(c)' => Asked(c)) /\ Pending(b)
    BY <1>0, <1>2 DEF Pending, Asked
  <2>2. table'[c] = "valid" => table[c] = "valid" \/ c = b
    BY <1>0, <1>2
  <2>. HIDE DEF b
  <2>. QED BY <1>1, <1>3, <2>1, <2>2 DEF Shrinks, InCache, InTable, AtProvider, Passed, CacheUsed
<1>10. Spent'
  BY <1>1, <1>4, <1>9, QuietSpent
<1>. QED BY <1>6, <1>7, <1>8, <1>10 DEF CInv

\* Requests end, time passes; nothing is stored, accepted or passed.
LEMMA QuietCodes ==
    ASSUME CInv, IInv', UNCHANGED <<setup, fresh, newest, serves>>,
           \A s \in Sends : send'[s] = send[s] \/ send'[s] = Idle,
           cached' = cached \/ cached' = 0, cloud' = cloud \/ cloud' = 0,
           \A c \in Codes : table'[c] = table[c] \/ (table[c] # "absent" /\ table'[c] # "valid"),
           \A c \in Codes : Passed(c)' \subseteq Passed(c),
           misses' \in Nat, misses <= misses'
    PROVE  CInv'
<1>0. /\ TypeOK /\ Slots /\ Once /\ Unstored /\ CacheRight /\ misses \in Nat
      /\ \A s \in Sends : send[s].phase # "idle" => send[s].code \in 1..fresh /\ send[s].code \in Codes
      /\ fresh \in Nat /\ MaxCodes \in Nat
  BY Facts DEF Slots, Idle
<1>1. \A s \in Sends : send'[s].phase # "idle" => send'[s] = send[s]
  BY DEF Idle
<1>2. Once'
  BY <1>0, <1>1 DEF Once
<1>3. Unstored'
  <2>. SUFFICES ASSUME NEW t \in Sends, send'[t].phase # "idle"
                PROVE  /\ table'[send'[t].code] = "absent" /\ cached' # send'[t].code
                       /\ send'[t].phase = "calling" => cloud' # send'[t].code
    BY DEF Unstored
  <2>1. send'[t] = send[t] /\ send[t].code \in Codes /\ send[t].code # 0
    BY <1>0, <1>1
  <2>. QED BY <1>0, <2>1 DEF Unstored
<1>4. CacheRight'
  BY <1>0 DEF CacheRight, CacheUsed
<1>5. ASSUME NEW c \in Codes PROVE Shrinks(c)
  <2>1. (Pending(c)' => Pending(c)) /\ (Asked(c)' => Asked(c))
    BY <1>1 DEF Pending, Asked
  <2>2. c # 0
    BY <1>0 DEF Codes
  <2>. QED BY <2>1, <2>2 DEF Shrinks, InCache, InTable, AtProvider, CacheUsed
<1>6. Spent'
  BY <1>5, QuietSpent
<1>. QED BY <1>2, <1>3, <1>4, <1>6 DEF CInv

LEMMA MissesGrow ==
    ASSUME CInv, misses' = misses \/ Miss \/ Reach
    PROVE  misses' \in Nat /\ misses <= misses'
BY Facts DEF Miss, Reach

LEMMA QuietSteps ==
    ASSUME CInv, IInv',
           \/ \E s \in Sends : SendRefused(s) \/ SendRaises(s)
           \/ SendTooSoon
           \/ \E k \in Checks : CloudUnreachable(k) \/ \E c \in Codes : BeginCheck(k, c)
           \/ RateExpires \/ CodeExpires \/ Restart
    PROVE  CInv'
<1>1. misses' = misses \/ Miss \/ Reach
  BY DEF SendRefused, SendRaises, SendTooSoon, FreeRate, Incr, CloudUnreachable, BeginCheck,
         RateExpires, CodeExpires, Restart
<1>2. UNCHANGED <<setup, fresh, newest, serves>>
  BY DEF SendRefused, SendRaises, SendTooSoon, CloudUnreachable, BeginCheck,
         RateExpires, CodeExpires, Restart
<1>3. \A s \in Sends : send'[s] = send[s] \/ send'[s] = Idle
  BY Facts DEF SendRefused, SendRaises, SendTooSoon, CloudUnreachable, BeginCheck,
               RateExpires, CodeExpires, Restart
<1>4. (cached' = cached \/ cached' = 0) /\ (cloud' = cloud \/ cloud' = 0)
  BY DEF SendRefused, SendRaises, SendTooSoon, CloudUnreachable, BeginCheck,
         RateExpires, CodeExpires, Restart
<1>5. \A c \in Codes : table'[c] = table[c] \/ (table[c] # "absent" /\ table'[c] # "valid")
  <2>1. CASE UNCHANGED table
    BY <2>1
  <2>2. CASE CodeExpires
    <3>1. table \in [Codes -> {"absent", "valid", "used", "expired"}]
      BY Facts DEF TypeOK
    <3>. QED BY <2>2, <3>1 DEF CodeExpires
  <2>. QED BY <2>1, <2>2 DEF SendRefused, SendRaises, SendTooSoon, CloudUnreachable, BeginCheck,
                             RateExpires, Restart
<1>6. \A c \in Codes : Passed(c)' \subseteq Passed(c)
  <2>1. \A k \in Checks : check'[k] = check[k] \/ check'[k].phase # "done"
    <3>1. CASE UNCHANGED check
      BY <3>1
    <3>2. ASSUME NEW k \in Checks, CloudUnreachable(k) \/ \E c \in Codes : BeginCheck(k, c)
          PROVE  \A j \in Checks : check'[j] = check[j] \/ check'[j].phase # "done"
      BY <3>2, Facts DEF CloudUnreachable, BeginCheck, Calling, Request
    <3>3. CASE Restart
      BY <3>3 DEF Restart, Idle
    <3>. QED BY <3>1, <3>2, <3>3 DEF SendRefused, SendRaises, SendTooSoon, RateExpires, CodeExpires
  <2>. QED BY <2>1 DEF Passed
<1>. QED BY <1>1, <1>2, <1>3, <1>4, <1>5, <1>6, QuietCodes, MissesGrow

LEMMA CloudChecksCodes ==
    ASSUME CInv, IInv', NEW k \in Checks, CloudChecks(k)
    PROVE  CInv'
<1>b. PICK b \in Codes : check[k].code = b
  BY Facts DEF CloudChecks, Slots, Idle
<1>0. /\ TypeOK /\ Slots /\ Once /\ Unstored /\ CacheRight /\ misses \in Nat
      /\ check \in [Checks -> Request] /\ check[k].code = b /\ check[k].phase = "calling"
      /\ \A s \in Sends : send[s].phase # "idle" => send[s].code \in 1..fresh
      /\ fresh \in Nat /\ cloud \in 0..fresh /\ \A c \in Codes : c \in Nat \ {0}
  BY <1>b, Facts DEF CloudChecks, Slots, Idle, Codes
<1>1. UNCHANGED <<setup, rate, cached, table, send, fresh, newest, messages, serves, lapses, misses>>
  BY DEF CloudChecks
<1>2. /\ \A j \in Checks : j # k => check'[j] = check[j]
      /\ check'[k].code = b /\ (check'[k].phase = "done" => cloud = b)
      /\ cloud' = (IF cloud = b THEN 0 ELSE cloud)
  BY <1>0 DEF CloudChecks, Request
<1>3. CASE ~ (check'[k].phase = "done")
  <2>1. \A c \in Codes : Passed(c)' \subseteq Passed(c)
    BY <1>2, <1>3 DEF Passed
  <2>2. cloud' = cloud \/ cloud' = 0
    BY <1>2
  <2>. QED BY <1>0, <1>1, <2>1, <2>2, QuietCodes
<1>4. CASE check'[k].phase = "done"
  <2>0. cloud = b /\ cloud' = 0
    BY <1>2, <1>4
  <2>1. Once' /\ CacheRight'
    BY <1>0, <1>1 DEF Once, CacheRight, CacheUsed
  <2>2. Unstored'
    BY <1>0, <1>1, <2>0 DEF Unstored
  <2>3. ASSUME NEW c \in Codes, c # b PROVE Shrinks(c)
    <3>1. Passed(c)' \subseteq Passed(c)
      BY <1>2, <2>3 DEF Passed
    <3>2. Pending(c)' = Pending(c) /\ Asked(c)' = Asked(c) /\ c # 0
      BY <1>0, <1>1 DEF Pending, Asked
    <3>. QED BY <1>1, <2>0, <3>1, <3>2 DEF Shrinks, InCache, InTable, AtProvider, CacheUsed
  <2>4. /\ IsFiniteSet(Passed(b)') /\ serves'[b] + Left(b)' <= Places' + misses'
    <3>1. Passed(b)' = Passed(b) \cup {k} /\ k \notin Passed(b)
      BY <1>0, <1>2, <1>4 DEF Passed
    <3>2. /\ IsFiniteSet(Passed(b)) /\ IsFiniteSet(Passed(b)')
          /\ Cardinality(Passed(b)') = Cardinality(Passed(b)) + 1 /\ Cardinality(Passed(b)) \in Nat
          /\ serves[b] + Left(b) <= Places + misses
      BY <1>0, <3>1, FS_AddElement, FS_CardinalityType DEF CInv, Spent
    <3>3. setup.pns
      BY <1>0, <2>0 DEF TypeOK
    <3>4. AtProvider(b) /\ ~ AtProvider(b)'
      <4>1. ~ Asked(b)
        BY <1>0, <2>0 DEF Asked, Unstored
      <4>2. Asked(b)' = Asked(b) /\ ~ (b > fresh)
        BY <1>0, <1>1, <2>0 DEF Asked
      <4>. QED BY <1>0, <1>1, <2>0, <3>3, <4>1, <4>2 DEF AtProvider
    <3>5. InCache(b)' = InCache(b) /\ InTable(b)' = InTable(b)
      BY <1>1 DEF InCache, InTable, Pending, CacheUsed
    <3>6. One(AtProvider(b)) = 1 /\ One(AtProvider(b)') = 0
      BY <3>4 DEF One
    <3>7. /\ One(InCache(b)') = One(InCache(b)) /\ One(InCache(b)) \in Nat
          /\ One(InTable(b)') = One(InTable(b)) /\ One(InTable(b)) \in Nat
      BY <3>5 DEF One
    <3>8. /\ Left(b)' = One(InCache(b)') + One(InTable(b)') + One(AtProvider(b)') + Cardinality(Passed(b)')
          /\ Left(b) = One(InCache(b)) + One(InTable(b)) + One(AtProvider(b)) + Cardinality(Passed(b))
      BY <1>2 DEF Left, One
    <3>9. Left(b)' = Left(b)
      BY <3>2, <3>6, <3>7, <3>8
    <3>10. Places' = Places
      BY <1>1 DEF Places
    <3>. QED BY <1>1, <3>2, <3>9, <3>10
  <2>5. Spent'
    <3>. SUFFICES ASSUME NEW c \in Codes
                  PROVE  IsFiniteSet(Passed(c)') /\ serves'[c] + Left(c)' <= Places' + misses'
      BY DEF Spent, Codes
    <3>1. CASE c = b
      BY <2>4, <3>1
    <3>2. CASE c # b
      BY <1>0, <1>1, <2>3, <3>2, SpentStays
    <3>. QED BY <3>1, <3>2
  <2>. QED BY <2>1, <2>2, <2>5 DEF CInv
<1>. QED BY <1>3, <1>4

\* A code is accepted, and the place that it was found in or the verification that
\* passed it are used up.
LEMMA AcceptedCodes ==
    ASSUME CInv, IInv', NEW c \in Codes, UNCHANGED <<setup, send, cloud, fresh, newest>>,
           serves' = [serves EXCEPT ![c] = @ + 1],
           misses' = misses \/ misses' = misses + 1,
           cached' = cached \/ cached' = 0,
           \A b \in Codes : table'[b] = table[b] \/ (table[b] # "absent" /\ table'[b] # "valid"),
           \A b \in Codes : Passed(b)' \subseteq Passed(b),
           \/ cached = c /\ cached' = 0
           \/ table[c] = "valid" /\ table'[c] # "valid"
           \/ Passed(c)' # Passed(c)
           \/ misses' = misses + 1
    PROVE  CInv'
<1>0. /\ TypeOK /\ Slots /\ Once /\ Unstored /\ CacheRight /\ misses \in Nat
      /\ \A s \in Sends : send[s].phase # "idle" => send[s].code \in Codes
      /\ fresh \in Nat /\ cached \in 0..fresh /\ \A b \in Codes : b \in Nat \ {0}
      /\ \A b \in Codes : table[b] # "absent" => b <= fresh
      /\ serves \in [Codes -> Nat] /\ misses' \in Nat /\ misses <= misses'
  BY Facts DEF Slots, Idle, Codes, TypeOK
<1>1. Once'
  BY <1>0 DEF Once
<1>2. Unstored'
  <2>. SUFFICES ASSUME NEW t \in Sends, send[t].phase # "idle"
                PROVE  /\ table'[send[t].code] = "absent" /\ cached' # send[t].code
                       /\ send[t].phase = "calling" => cloud # send[t].code
    BY DEF Unstored
  <2>. QED BY <1>0 DEF Unstored
<1>3. CacheRight'
  <2>1. misses' = 0 => misses = 0
    BY <1>0
  <2>. QED BY <1>0, <2>1 DEF CacheRight, CacheUsed
<1>4. ASSUME NEW b \in Codes
      PROVE  Shrinks(b) /\ (Pending(b)' = Pending(b)) /\ (Asked(b)' = Asked(b))
  <2>1. Pending(b)' = Pending(b) /\ Asked(b)' = Asked(b)
    BY DEF Pending, Asked
  <2>. QED BY <1>0, <2>1 DEF Shrinks, InCache, InTable, AtProvider, CacheUsed
<1>5. \/ InCache(c) /\ ~ InCache(c)'
      \/ InTable(c) /\ ~ InTable(c)'
      \/ Passed(c)' # Passed(c)
      \/ misses' = misses + 1
  <2>1. CASE cached = c /\ cached' = 0
    <3>1. ~ Pending(c) /\ c # 0 /\ ~ (c > fresh)
      BY <1>0, <2>1 DEF Pending, Unstored
    <3>2. CacheUsed
      BY <1>0, <2>1, <3>1 DEF CacheRight
    <3>. QED BY <1>4, <2>1, <3>1, <3>2 DEF InCache, CacheUsed
  <2>2. CASE table[c] = "valid" /\ table'[c] # "valid"
    <3>1. ~ Pending(c) /\ ~ (c > fresh)
      BY <1>0, <2>2 DEF Pending, Unstored
    <3>. QED BY <1>4, <2>2, <3>1 DEF InTable
  <2>. QED BY <2>1, <2>2
<1>6. Spent'
  <2>. SUFFICES ASSUME NEW b \in Codes
                PROVE  IsFiniteSet(Passed(b)') /\ serves'[b] + Left(b)' <= Places' + misses'
    BY DEF Spent, Codes
  <2>1. CASE b = c
    <3>1. serves'[c] = serves[c] + 1
      BY <1>0
    <3>2. IsFiniteSet(Passed(c)') /\ serves'[c] + Left(c)' <= Places' + misses'
      BY <1>0, <1>4, <1>5, <3>1, SpentOnce
    <3>. QED BY <2>1, <3>2
  <2>2. CASE b # c
    <3>1. serves'[b] = serves[b]
      BY <1>0, <2>2
    <3>. QED BY <1>0, <1>4, <3>1, SpentStays
  <2>. QED BY <2>1, <2>2
<1>. QED BY <1>1, <1>2, <1>3, <1>6 DEF CInv

LEMMA VerifyCodes ==
    ASSUME CInv, IInv', NEW c \in Codes, VerifyLocal(c),
           UNCHANGED <<setup, send, cloud, fresh, newest>>,
           \A b \in Codes : Passed(b)' \subseteq Passed(b)
    PROVE  CInv'
<1>0. TypeOK /\ misses \in Nat /\ table \in [Codes -> {"absent", "valid", "used", "expired"}]
  BY Facts DEF TypeOK
<1>1. CASE AcceptCached(c)
  <2>1. /\ cached = c /\ serves' = [serves EXCEPT ![c] = @ + 1] /\ table' = table
        /\ \/ cached' = 0 /\ misses' = misses
           \/ cached' \in {cached, 0} /\ misses' = misses + 1
    BY <1>1 DEF AcceptCached, Serve, Miss, Reach
  <2>. QED BY <2>1, AcceptedCodes
<1>2. CASE AcceptRow(c)
  <2>1. /\ table[c] = "valid" /\ serves' = [serves EXCEPT ![c] = @ + 1] /\ cached' = cached
        /\ table' = [table EXCEPT ![c] = "used"]
        /\ misses' = misses \/ misses' = misses + 1
    BY <1>2 DEF AcceptRow, Serve, Read, Miss, Reach
  <2>2. \A b \in Codes : table'[b] = table[b] \/ (table[b] # "absent" /\ table'[b] # "valid")
    BY <1>0, <2>1
  <2>3. table'[c] # "valid"
    BY <1>0, <2>1
  <2>. QED BY <2>1, <2>2, <2>3, AcceptedCodes
<1>3. CASE UNCHANGED <<cached, table, serves>> /\ \E v \in 0..MaxCodes : Read(v)
  <2>1. misses' \in Nat /\ misses <= misses'
    BY <1>0, <1>3 DEF Read, Miss, Reach
  <2>. QED BY <1>3, <2>1, QuietCodes
<1>. QED BY <1>1, <1>2, <1>3 DEF VerifyLocal

LEMMA InvalidateCodes ==
    ASSUME CInv, IInv', NEW k \in Checks, InvalidateLocal(k)
    PROVE  CInv'
<1>1. PICK c \in Codes : check[k].code = c
  BY Facts DEF InvalidateLocal, Slots, Idle
<1>2. /\ check[k].phase = "done" /\ check' = [check EXCEPT ![k] = Idle]
      /\ serves' = [serves EXCEPT ![c] = @ + 1]
      /\ UNCHANGED <<setup, send, cloud, fresh, newest>>
      /\ cached' = cached \/ cached' = 0
      /\ misses' = misses \/ misses' = misses + 1
  BY <1>1 DEF InvalidateLocal, Serve, Miss, Reach
<1>3. \A b \in Codes : table'[b] = table[b] \/ (table[b] # "absent" /\ table'[b] # "valid")
  <2>1. table \in [Codes -> {"absent", "valid", "used", "expired"}]
    BY Facts DEF TypeOK
  <2>. QED BY <2>1 DEF InvalidateLocal
<1>4. \A b \in Codes : Passed(b)' \subseteq Passed(b)
  BY <1>2, Facts DEF Passed, Idle
<1>5. Passed(c)' # Passed(c)
  <2>1. k \in Passed(c)
    BY <1>1, <1>2 DEF Passed
  <2>2. k \notin Passed(c)'
    BY <1>2, Facts DEF Passed, Idle
  <2>. QED BY <2>1, <2>2
<1>. QED BY <1>2, <1>3, <1>4, <1>5, AcceptedCodes

LEMMA CheckLocalCodes ==
    ASSUME CInv, IInv', NEW k \in Checks, CheckLocal(k)
    PROVE  CInv'
<1>1. PICK c \in Codes : check[k].code = c
  BY Facts DEF CheckLocal, Slots, Idle
<1>2. VerifyLocal(c) /\ check' = [check EXCEPT ![k] = Idle]
      /\ UNCHANGED <<setup, send, cloud, fresh, newest>>
  BY <1>1 DEF CheckLocal
<1>3. \A b \in Codes : Passed(b)' \subseteq Passed(b)
  BY <1>2, Facts DEF Passed, Idle
<1>. QED BY <1>2, <1>3, VerifyCodes

LEMMA VerifyAtOnceCodes ==
    ASSUME CInv, IInv', NEW c \in Codes, Verify(c)
    PROVE  CInv'
<1>1. VerifyLocal(c) /\ UNCHANGED <<setup, send, cloud, fresh, newest, check>>
  BY DEF Verify
<1>2. \A b \in Codes : Passed(b)' \subseteq Passed(b)
  BY <1>1 DEF Passed
<1>. QED BY <1>1, <1>2, VerifyCodes

LEMMA InitCodes == Init => CInv
<1>. SUFFICES ASSUME Init PROVE CInv
  OBVIOUS
<1>1. IInv
  BY InitInv
<1>2. Once /\ Unstored /\ CacheRight
  BY DEF Init, Once, Unstored, CacheRight, Idle
<1>3. ASSUME NEW c \in Codes
      PROVE  IsFiniteSet(Passed(c)) /\ serves[c] + Left(c) <= Places + misses
  <2>1. Passed(c) = {}
    BY DEF Init, Passed, Idle
  <2>2. IsFiniteSet(Passed(c)) /\ Cardinality(Passed(c)) = 0
    BY <2>1, FS_EmptySet
  <2>3. serves[c] = 0 /\ misses = 0
    BY DEF Init
  <2>4. (InCache(c) => setup.redis \/ ~ setup.sqlite) /\ (AtProvider(c) => setup.pns)
    BY DEF InCache, AtProvider, CacheUsed
  <2>5. /\ One(InCache(c)) <= (IF setup.redis \/ ~ setup.sqlite THEN 1 ELSE 0)
        /\ One(AtProvider(c)) <= (IF setup.pns THEN 1 ELSE 0)
        /\ One(InTable(c)) <= 1
        /\ One(InCache(c)) \in Nat /\ One(AtProvider(c)) \in Nat /\ One(InTable(c)) \in Nat
    BY <2>4 DEF One
  <2>. QED BY <2>2, <2>3, <2>5 DEF Left, Places
<1>. QED BY <1>1, <1>2, <1>3 DEF CInv, Spent

LEMMA NextCodes == CInv /\ [Next]_vars => CInv'
<1>. SUFFICES ASSUME CInv, [Next]_vars PROVE CInv'
  OBVIOUS
<1>0. IInv'
  BY NextStep DEF CInv
<1>1. CASE UNCHANGED vars
  <2>1. \A c \in Codes : Passed(c)' \subseteq Passed(c)
    BY <1>1 DEF vars, Passed
  <2>2. misses' \in Nat /\ misses <= misses'
    BY <1>1, Facts DEF vars
  <2>. QED BY <1>0, <1>1, <2>1, <2>2, QuietCodes DEF vars
<1>2. ASSUME NEW s \in Sends,
             Send(s) \/ Provide(s) \/ Persist(s) \/ SendRefused(s) \/ SendRaises(s)
      PROVE  CInv'
  BY <1>0, <1>2, SendCodes, ProvideCodes, PersistCodes, QuietSteps
<1>3. ASSUME NEW c \in Codes, Verify(c)
      PROVE  CInv'
  BY <1>0, <1>3, VerifyAtOnceCodes
<1>4. ASSUME NEW k \in Checks,
             \/ \E c \in Codes : BeginCheck(k, c)
             \/ CloudChecks(k) \/ CloudUnreachable(k) \/ InvalidateLocal(k) \/ CheckLocal(k)
      PROVE  CInv'
  BY <1>0, <1>4, QuietSteps, CloudChecksCodes, InvalidateCodes, CheckLocalCodes
<1>5. CASE SendTooSoon \/ RateExpires \/ CodeExpires \/ Restart
  BY <1>0, <1>5, QuietSteps
<1>. QED BY <1>1, <1>2, <1>3, <1>4, <1>5 DEF Next

LEMMA CodesInductive == Spec => []CInv
BY InitCodes, NextCodes, PTL DEF Spec

\* A code is accepted once from each place that keeps it, and once more for each
\* failed call, at most (sms_service.py:489-529).
THEOREM ServesSafe == Spec => []OnceFromEachPlace
<1>1. CInv => OnceFromEachPlace
  <2>. SUFFICES ASSUME CInv, NEW c \in Codes PROVE serves[c] <= Places + misses
    BY DEF OnceFromEachPlace
  <2>1. IsFiniteSet(Passed(c)) /\ serves[c] + Left(c) <= Places + misses
    BY DEF CInv, Spent
  <2>2. Cardinality(Passed(c)) \in Nat /\ serves[c] \in Nat /\ misses \in Nat /\ Places \in Nat
    BY <2>1, FS_CardinalityType, SmsAssumption DEF CInv, IInv, TypeOK, Places
  <2>3. One(InCache(c)) \in Nat /\ One(InTable(c)) \in Nat /\ One(AtProvider(c)) \in Nat
    BY DEF One
  <2>. QED BY <2>1, <2>2, <2>3 DEF Left
<1>. QED BY <1>1, CodesInductive, PTL

\* As long as Redis is reached, the code stored last is accepted until it is used or
\* expires (sms_service.py:457-469, 501-529).
THEOREM NewestSafe == Spec => []NewestServesWithoutMiss
<1>1. CInv => NewestServesWithoutMiss
  BY DEF CInv, CacheRight, NewestServesWithoutMiss, NewestServes, Accepts
<1>. QED BY <1>1, CodesInductive, PTL
=============================================================================

------------------------------ MODULE SmsCode -------------------------------
(***************************************************************************)
(* The SMS codes of one phone number: server/app/services/sms_service.py   *)
(* with the cache of server/app/core/cache.py and the table sms_codes.     *)
(* Nothing is shared between two numbers except the capacity of the        *)
(* in-process cache, whose evictions look like early expiry.               *)
(*                                                                         *)
(* Handlers run on one event loop and give it up only where they await an  *)
(* external service.  Every call of Redis may fail by itself (an exception *)
(* that core/cache.py swallows); the failed call may have taken effect or  *)
(* not.                                                                    *)
(***************************************************************************)
EXTENDS Naturals

CONSTANTS
    MaxCodes,       \* bound: codes generated
    MaxMisses,      \* bound: calls of Redis that fail
    Sends,          \* slots for send_code requests that wait for the provider
    Checks          \* slots for verifications that wait for the service

ASSUME SmsAssumption ==
    /\ MaxCodes \in Nat \ {0}
    /\ MaxMisses \in Nat

VARIABLES
    setup,      \* settings and start-up: provider, cache backend, database
    rate,       \* the key sms:rate:<phone> in each store
    cached,     \* the key sms:code:<phone> in the store that is read, 0 if none
    table,      \* the number's rows of sms_codes, by code
    cloud,      \* the code the provider's own verification passes, 0 if none
    send,       \* send_code requests
    check,      \* verify_code_async requests
    fresh,      \* codes generated so far
    newest,     \* the code that was stored last
    messages,   \* messages the provider has accepted
    serves,     \* how often each code has been accepted
    lapses,     \* windows that ended before their time or in time
    misses      \* calls of Redis that have failed

vars == <<setup, rate, cached, table, cloud, send, check, fresh, newest,
          messages, serves, lapses, misses>>

Codes == 1..MaxCodes
Store == {"redis", "memory"}

\* pns: codes are generated and verified by the provider (aliyun_pns).
Setup == [pns : BOOLEAN, redis : BOOLEAN, sqlite : BOOLEAN]

\* "window": set with its time to live, "closing": late in that time; "stuck":
\* set without.
Key == {"free", "window", "closing", "stuck"}

Idle == [code |-> 0, phase |-> "idle"]
Calling(c) == [code |-> c, phase |-> "calling"]
Request == [code : 0..MaxCodes, phase : {"idle", "calling", "done", "refused"}]

\* A call of Redis fails.
Miss == setup.redis /\ misses < MaxMisses /\ misses' = misses + 1
Reach == UNCHANGED misses

\* One more window has ended; more of them than codes tell nothing new.
Lapsed == lapses' = IF lapses < MaxCodes THEN lapses + 1 ELSE lapses

-----------------------------------------------------------------------------
(* core/cache.py.                                                          *)

\* Slip: every attempt sets the time to live anew.
Incr_Resets(first) ==
    /\ first = (rate["memory"] = "free")
    /\ rate' = [rate EXCEPT !["memory"] = "window"]
    /\ UNCHANGED lapses /\ Reach

\* The key is made when there is none, and otherwise left as it is.
Kept(k) == IF k = "free" THEN "window" ELSE k

\* incr, as far as send_code asks whether the result is greater than 1: first,
\* when there was no key.
Incr(first) ==
    \/ /\ ~ setup.redis
       /\ first = (rate["memory"] = "free")
       /\ rate' = [rate EXCEPT !["memory"] = Kept(@)]
       /\ UNCHANGED lapses /\ Reach
    \/ /\ setup.redis
       /\ first = (rate["redis"] = "free")
       /\ rate' = [rate EXCEPT !["redis"] = Kept(@)]
       /\ UNCHANGED lapses /\ Reach
    \/ \* the key expires between SET NX and INCR, which makes a new one
       /\ setup.redis
       /\ first
       /\ rate["redis"] = "closing"
       /\ rate' = [rate EXCEPT !["redis"] = "stuck"]
       /\ Lapsed /\ Reach
    \/ \* Redis fails, after or before it has set the key
       /\ Miss
       /\ first = (rate["memory"] = "free")
       /\ \E k \in {rate["redis"], Kept(rate["redis"])} :
             rate' = [rate EXCEPT !["redis"] = k, !["memory"] = Kept(@)]
       /\ UNCHANGED lapses

\* delete of the rate key: always in memory.
FreeRate ==
    \/ rate' = [s \in Store |-> "free"] /\ Reach
    \/ rate' = [rate EXCEPT !["memory"] = "free"] /\ Miss

\* Slip: the key is only set when there is none.
PutCode_IfAbsent(c) ==
    IF ~ setup.redis /\ setup.sqlite THEN UNCHANGED <<cached, misses>>
    ELSE \/ cached' = (IF cached = 0 THEN c ELSE cached) /\ Reach
         \/ UNCHANGED cached /\ Miss

\* setex_json of _persist_code.  What falls back to memory is not read while
\* Redis is in use.
PutCode(c) ==
    IF ~ setup.redis /\ setup.sqlite THEN UNCHANGED <<cached, misses>>
    ELSE \/ cached' = c /\ Reach
         \/ cached' \in {cached, c} /\ Miss

-----------------------------------------------------------------------------
(* send_code.                                                              *)

\* Slip: the rate key is not looked at.
Send_Unlimited(s) ==
    /\ send[s] = Idle
    /\ fresh < MaxCodes
    /\ \E first \in BOOLEAN : Incr(first)
    /\ fresh' = fresh + 1
    /\ send' = [send EXCEPT ![s] = Calling(fresh')]
    /\ UNCHANGED <<setup, cached, table, cloud, check, newest, messages, serves>>

\* A window begins; the code is generated, here or by the provider, and the
\* provider is called.
Send(s) ==
    /\ send[s] = Idle
    /\ fresh < MaxCodes
    /\ Incr(TRUE)
    /\ fresh' = fresh + 1
    /\ send' = [send EXCEPT ![s] = Calling(fresh')]
    /\ UNCHANGED <<setup, cached, table, cloud, check, newest, messages, serves>>

\* Refused within a window.
SendTooSoon ==
    /\ Incr(FALSE)
    /\ UNCHANGED <<setup, cached, table, cloud, send, check, fresh, newest,
                   messages, serves>>

\* The provider: it sends the message, and with pns passes no older code from
\* now on; or it refuses.
Provide(s) ==
    /\ send[s].phase = "calling"
    /\ \/ /\ send' = [send EXCEPT ![s].phase = "done"]
          /\ messages' = messages + 1
          /\ cloud' = IF setup.pns THEN send[s].code ELSE cloud
       \/ /\ send' = [send EXCEPT ![s].phase = "refused"]
          /\ UNCHANGED <<messages, cloud>>
    /\ UNCHANGED <<setup, rate, cached, table, check, fresh, newest, serves,
                   lapses, misses>>

\* The answer says that the message is sent: _persist_code.
Persist(s) ==
    /\ send[s].phase = "done"
    /\ PutCode(send[s].code)
    /\ table' = [table EXCEPT ![send[s].code] = "valid"]
    /\ newest' = send[s].code
    /\ send' = [send EXCEPT ![s] = Idle]
    /\ UNCHANGED <<setup, rate, cloud, check, fresh, messages, serves, lapses>>

\* A refusal frees the window.
SendRefused(s) ==
    /\ send[s].phase = "refused"
    /\ FreeRate
    /\ send' = [send EXCEPT ![s] = Idle]
    /\ UNCHANGED <<setup, cached, table, cloud, check, fresh, newest, messages,
                   serves, lapses>>

\* The call of the provider raises, whatever has become of the message.  With
\* pns the exception counts as a refusal; with the others it leaves send_code
\* and the window stays taken.
SendRaises(s) ==
    /\ send[s] # Idle
    /\ IF setup.pns THEN FreeRate ELSE UNCHANGED <<rate, misses>>
    /\ IF setup.pns /\ send[s].phase = "done" THEN Lapsed ELSE UNCHANGED lapses
    /\ send' = [send EXCEPT ![s] = Idle]
    /\ UNCHANGED <<setup, cached, table, cloud, check, fresh, newest, messages,
                   serves>>

-----------------------------------------------------------------------------
(* verify_code_async.                                                      *)

Serve(c) == serves' = [serves EXCEPT ![c] = @ + 1]

\* The value that get_json returns.
Read(v) == \/ v = cached /\ Reach
           \/ v = 0 /\ Miss

\* _verify_local finds the code in the cache and deletes the key; the delete
\* may fail.
\* Slip: the key stays.
AcceptCached_Keep(c) ==
    /\ cached = c
    /\ Serve(c)
    /\ UNCHANGED <<cached, table, misses>>

AcceptCached(c) ==
    /\ cached = c
    /\ \/ cached' = 0 /\ Reach
       \/ cached' \in {cached, 0} /\ Miss
    /\ Serve(c)
    /\ UNCHANGED table

\* The cache has no code: the table's row, which is used up.
AcceptRow(c) ==
    /\ table[c] = "valid"
    /\ Read(0)
    /\ table' = [table EXCEPT ![c] = "used"]
    /\ Serve(c)
    /\ UNCHANGED cached

\* _verify_local.
VerifyLocal(c) ==
    \/ AcceptCached(c)
    \/ AcceptRow(c)
    \/ \* not accepted
       /\ \E v \in 0..MaxCodes : /\ Read(v)
                                 /\ v # c
                                 /\ v # 0 \/ table[c] # "valid"
       /\ UNCHANGED <<cached, table, serves>>

\* Any code may be tried; without pns the request awaits nothing.
Verify(c) ==
    /\ ~ setup.pns
    /\ VerifyLocal(c)
    /\ UNCHANGED <<setup, rate, cloud, send, check, fresh, newest, messages, lapses>>

BeginCheck(k, c) ==
    /\ setup.pns
    /\ check[k] = Idle
    /\ check' = [check EXCEPT ![k] = Calling(c)]
    /\ UNCHANGED <<setup, rate, cached, table, cloud, send, fresh, newest,
                   messages, serves, lapses, misses>>

\* The provider passes a code once; its answer may be lost, which counts as a
\* refusal.
CloudChecks(k) ==
    /\ check[k].phase = "calling"
    /\ cloud' = IF cloud = check[k].code THEN 0 ELSE cloud
    /\ \/ check' = [check EXCEPT ![k].phase =
                        IF cloud = check[k].code THEN "done" ELSE "refused"]
       \/ check' = [check EXCEPT ![k].phase = "refused"]
    /\ UNCHANGED <<setup, rate, cached, table, send, fresh, newest, messages,
                   serves, lapses, misses>>

\* The request never reaches the provider.
CloudUnreachable(k) ==
    /\ check[k].phase = "calling"
    /\ check' = [check EXCEPT ![k].phase = "refused"]
    /\ UNCHANGED <<setup, rate, cached, table, cloud, send, fresh, newest,
                   messages, serves, lapses, misses>>

\* _invalidate_local: the provider has passed the code.
InvalidateLocal(k) ==
    /\ check[k].phase = "done"
    /\ \/ cached' = 0 /\ Reach
       \/ cached' \in {cached, 0} /\ Miss
    /\ table' = [c \in Codes |-> IF table[c] \in {"valid", "expired"}
                                 THEN "used" ELSE table[c]]
    /\ Serve(check[k].code)
    /\ check' = [check EXCEPT ![k] = Idle]
    /\ UNCHANGED <<setup, rate, cloud, send, fresh, newest, messages, lapses>>

\* The provider has not: the local copies decide.
CheckLocal(k) ==
    /\ check[k].phase = "refused"
    /\ VerifyLocal(check[k].code)
    /\ check' = [check EXCEPT ![k] = Idle]
    /\ UNCHANGED <<setup, rate, cloud, send, fresh, newest, messages, lapses>>

-----------------------------------------------------------------------------
(* Time, and the end of the process.                                       *)

\* A key gets older, and its time is over.
RateExpires ==
    /\ \E s \in Store :
          \/ /\ rate[s] = "window"
             /\ rate' = [rate EXCEPT ![s] = "closing"]
             /\ UNCHANGED lapses
          \/ /\ rate[s] = "closing"
             /\ rate' = [rate EXCEPT ![s] = "free"]
             /\ Lapsed
    /\ UNCHANGED <<setup, cached, table, cloud, send, check, fresh, newest,
                   messages, serves, misses>>

CodeExpires ==
    /\ \/ /\ cached # 0
          /\ cached' = 0
          /\ UNCHANGED <<table, cloud>>
       \/ \E c \in Codes : /\ table[c] = "valid"
                           /\ table' = [table EXCEPT ![c] = "expired"]
                           /\ UNCHANGED <<cached, cloud>>
       \/ /\ cloud # 0
          /\ cloud' = 0
          /\ UNCHANGED <<cached, table>>
    /\ UNCHANGED <<setup, rate, send, check, fresh, newest, messages, serves,
                   lapses, misses>>

\* The memory of the process is lost, with the requests in flight.
Restart ==
    /\ rate' = [rate EXCEPT !["memory"] = "free"]
    /\ cached' = IF setup.redis THEN cached ELSE 0
    /\ send' = [s \in Sends |-> Idle]
    /\ check' = [k \in Checks |-> Idle]
    /\ Lapsed
    /\ UNCHANGED <<setup, table, cloud, fresh, newest, messages, serves, misses>>

-----------------------------------------------------------------------------
Init ==
    /\ setup \in Setup
    /\ rate = [s \in Store |-> "free"]
    /\ cached = 0
    /\ table = [c \in Codes |-> "absent"]
    /\ cloud = 0
    /\ send = [s \in Sends |-> Idle]
    /\ check = [k \in Checks |-> Idle]
    /\ fresh = 0
    /\ newest = 0
    /\ messages = 0
    /\ serves = [c \in Codes |-> 0]
    /\ lapses = 0
    /\ misses = 0

Next ==
    \/ \E s \in Sends : Send(s) \/ Provide(s) \/ Persist(s) \/ SendRefused(s) \/ SendRaises(s)
    \/ SendTooSoon
    \/ \E c \in Codes : Verify(c)
    \/ \E k \in Checks :
          \/ \E c \in Codes : BeginCheck(k, c)
          \/ CloudChecks(k) \/ CloudUnreachable(k)
          \/ InvalidateLocal(k) \/ CheckLocal(k)
    \/ RateExpires \/ CodeExpires \/ Restart

Spec == Init /\ [][Next]_vars

\* Keys with a time to live expire.
FairSpec == Spec /\ WF_vars(RateExpires)

-----------------------------------------------------------------------------
(* Correctness.                                                            *)

\* Types; a key without a time to live exists only in Redis, the provider keeps
\* codes only when it is asked to verify them, and no code is anywhere before it
\* has been generated.
TypeOK ==
    /\ setup \in Setup
    /\ rate \in [Store -> Key]
    /\ rate["memory"] # "stuck"
    /\ ~ setup.redis => rate["redis"] = "free"
    /\ cached \in 0..fresh
    /\ table \in [Codes -> {"absent", "valid", "used", "expired"}]
    /\ \A c \in Codes : table[c] # "absent" => c <= fresh
    /\ cloud \in 0..fresh
    /\ ~ setup.pns => cloud = 0
    /\ send \in [Sends -> Request]
    /\ check \in [Checks -> Request]
    /\ fresh \in 0..MaxCodes
    /\ newest \in 0..fresh
    /\ messages \in 0..fresh
    /\ serves \in [Codes -> Nat]
    /\ lapses \in 0..MaxCodes
    /\ misses \in 0..MaxMisses

\* The places in which a code is kept: the table, the cache when it is used,
\* and the provider with pns.
Places == 1 + (IF setup.redis \/ ~ setup.sqlite THEN 1 ELSE 0)
            + (IF setup.pns THEN 1 ELSE 0)

\* sms_service.py:502: a code that has been accepted is invalid at once, so that
\* it is not accepted again.  The code does not keep this promise: _verify_local
\* takes the code out of the place where it has found it and leaves the others.
ServedOnce == \A c \in Codes : serves[c] <= 1

\* What it does keep: however sends, awaited verifications and expiry interleave,
\* no place passes a code twice, and one that was taken out does not come back,
\* unless a call of Redis has failed.  With the table alone this is ServedOnce.
OnceFromEachPlace == \A c \in Codes : serves[c] <= Places + misses

\* One message for each window of 60 seconds, whatever fails: a further one
\* needs a window that has ended, or a call of Redis that failed.
OneMessagePerWindow == messages <= 1 + lapses + misses

\* What _verify_local would say to a code while Redis can be reached.
Accepts(c) == IF cached # 0 THEN cached = c ELSE table[c] = "valid"

\* sms_service.py:458: the code is stored in the cache first, and in the table,
\* so that the function is available when the cache is not.  So the code stored
\* last is accepted until it is used or has expired.
NewestServes ==
    newest # 0 /\ table[newest] = "valid" => Accepts(newest)

\* It is when every call of Redis has reached it, since each store of a code
\* then replaces the one before.
NewestServesWithoutMiss == misses = 0 => NewestServes

\* cache.py:61: a user who tries again and again must not push the end of his
\* window away.  In memory, where the key is made in one piece, every window
\* ends.
Blocked == IF setup.redis THEN rate["redis"] # "free" ELSE rate["memory"] # "free"
WindowsEndInMemory == ~ setup.redis /\ Blocked ~> ~ Blocked
=============================================================================

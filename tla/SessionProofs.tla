--------------------------- MODULE SessionProofs ----------------------------
(***************************************************************************)
(* Proofs about Session: one device at a time, nobody in the account of    *)
(* somebody else, and no session ended by a late answer.                   *)
(***************************************************************************)
EXTENDS Session, TLAPS

\* Ids that are never given again are counted.
Counted ==
    ~ setup.reuse =>
        /\ \A p \in Live : users[p].id <= lastId
        /\ \A t \in Around : t.id <= lastId
        /\ \A s \in Logins : login[s].phase = "verifying" => login[s].read.id <= lastId

Answer(s) == login[s].phase = "answered"

\* A session is on one device, or on its way there.
Single ==
    /\ \A d, e \in Devices : token[d].sid # 0 /\ token[d].sid = token[e].sid => d = e
    /\ \A s \in Logins :
          Answer(s) /\ login[s].token.sid # 0 =>
              /\ \A d \in Devices : token[d].sid # login[s].token.sid
              /\ \A r \in Logins : Answer(r) /\ login[r].token.sid = login[s].token.sid => r = s

\* A session tells whose it is, if accounts are not read before a wait.
Sessions ==
    ~ setup.awaits =>
        \A t \in Around, p \in Live : t.sid # 0 /\ users[p].sid = t.sid => t.phone = p

\* An account without a session has never had one.
Older == \A t \in Around, p \in Live : users[p].sid = 0 /\ t.sid # 0 => users[p].id # t.id

\* Only awaited verifications leave a login waiting; who is read stays the same if no
\* id is given again.
Waits ==
    \A s \in Logins :
        login[s].phase = "verifying" =>
            /\ setup.awaits
            /\ ~ setup.reuse =>
                  \A p \in Live :
                      login[s].read # NoRow /\ users[p].id = login[s].read.id
                      => p = login[s].phone

\* So do tokens.
Owners == ~ setup.reuse => \A t \in Around, p \in Phones : Names(t, p) => t.phone = p

\* Who was told to go has lost his session for good.
Kicked ==
    \A d \in Devices :
        call[d].phase = "kicked" =>
            /\ call[d].token.sid # 0
            /\ \A p \in Phones : Names(call[d].token, p) => users[p].sid # call[d].token.sid

IInv == /\ TypeOK /\ Counted /\ Single /\ Sessions /\ Older /\ Waits /\ Owners /\ Kicked

-----------------------------------------------------------------------------
(* Types.                                                                  *)

\* The settings are two Boolean values.
LEMMA SetupBoolean ==
    ASSUME TypeOK
    PROVE  setup.reuse \in BOOLEAN /\ setup.awaits \in BOOLEAN
BY SessionAssumption DEF TypeOK

LEMMA AroundIs ==
    ASSUME NEW t
    PROVE  t \in Around <=>
              /\ t # NoToken
              /\ \/ \E d \in Devices : t = token[d]
                 \/ \E s \in Logins : Answer(s) /\ t = login[s].token
                 \/ \E d \in Devices : call[d].phase # "idle" /\ t = call[d].token
BY DEF Around, Answer

LEMMA AroundIsNext ==
    ASSUME NEW t
    PROVE  t \in Around' <=>
              /\ t # NoToken
              /\ \/ \E d \in Devices : t = token'[d]
                 \/ \E s \in Logins : Answer(s)' /\ t = login'[s].token
                 \/ \E d \in Devices : call'[d].phase # "idle" /\ t = call'[d].token
BY DEF Around, Answer

LEMMA TokensTyped ==
    ASSUME TypeOK
    PROVE  /\ Around \subseteq Token
           /\ NoToken \notin Token
           /\ \A d \in Devices : token[d] \in Token \cup {NoToken}
           /\ \A s \in Logins : Answer(s) =>
                 login[s].token \in Token /\ login[s].device \in Devices /\ login[s].token \in Around
           /\ \A d \in Devices : call[d].phase # "idle" =>
                 call[d].token \in Token /\ call[d].token \in Around
           /\ \A d \in Devices : token[d] # NoToken => token[d] \in Around
<1>1. NoToken \notin Token
  BY SessionAssumption DEF NoToken, Token
<1>2. \A d \in Devices : token[d] \in Token \cup {NoToken}
  BY DEF TypeOK
<1>3. \A s \in Logins : Answer(s) => login[s].token \in Token /\ login[s].device \in Devices
  BY DEF TypeOK, Login, IdleLogin, Answer
<1>4. \A d \in Devices : call[d].phase # "idle" => call[d].token \in Token
  BY DEF TypeOK, Call, IdleCall
<1>5. Around \subseteq Token
  BY <1>2, <1>3, <1>4, AroundIs
<1>. QED BY <1>1, <1>2, <1>3, <1>4, <1>5, AroundIs

-----------------------------------------------------------------------------
(* What follows.                                                           *)

LEMMA InvOneDevice == IInv => OneDeviceEach
<1>. SUFFICES ASSUME IInv, NEW d \in Devices, NEW e \in Devices,
                     Served(token[d]), token[d].sid # 0, Served(token[e]), token[e].sid # 0,
                     token[d].id = token[e].id
              PROVE  d = e
  BY DEF OneDeviceEach
<1>1. token[d] \in Around /\ token[e] \in Around
  BY TokensTyped DEF IInv, Served
<1>2. PICK p \in Phones : Names(token[d], p)
  BY DEF Served, Verdict, Known
<1>3. Names(token[e], p) /\ p \in Live
  BY <1>2 DEF Names
<1>4. users[p].sid # 0
  BY <1>1, <1>2, <1>3 DEF IInv, Older, Names
<1>5. token[d].sid = users[p].sid /\ token[e].sid = users[p].sid
  BY <1>2, <1>3, <1>4 DEF Served, Verdict, Superseded
<1>. QED BY <1>5 DEF IInv, Single

LEMMA InvNoImpersonation == IInv => NoImpersonation
<1>. SUFFICES ASSUME IInv, NEW t \in Around, NEW p \in Phones, Served(t), Names(t, p),
                     setup.reuse => t.sid # 0 /\ ~ setup.awaits
              PROVE  t.phone = p
  BY DEF NoImpersonation
<1>1. CASE ~ setup.reuse
  BY <1>1 DEF IInv, Owners
<1>2. CASE setup.reuse
  <2>1. t.sid # 0 /\ p \in Live /\ users[p].id = t.id
    BY <1>2 DEF Names
  <2>2. users[p].sid = t.sid
    BY <2>1 DEF IInv, Older, Served, Verdict, Superseded, Names
  <2>. QED BY <1>2, <2>1, <2>2 DEF IInv, Sessions
<1>. QED BY <1>1, <1>2

-----------------------------------------------------------------------------
(* Steps that issue nothing: accounts stay or go, tokens move or are lost. *)

Quiet ==
    /\ UNCHANGED <<setup, lastId, issued>>
    /\ users' \in [Phones -> Row]
    /\ \A p \in Phones : users'[p] = users[p] \/ users'[p] = NoRow
    /\ Around' \subseteq Around
    /\ token' \in [Devices -> Token \cup {NoToken}]
    /\ login' \in [Logins -> Login] /\ call' \in [Devices -> Call]
    /\ expired' \in 0..MaxSessions + 1

\* No login begins to wait, and nobody is told to go.
LoginsKept ==
    \A s \in Logins :
        login'[s].phase = "verifying" =>
            /\ login[s].phase = "verifying" /\ login'[s].read = login[s].read
            /\ login'[s].phone = login[s].phone

CallsKept ==
    \A d \in Devices :
        call'[d].phase = "kicked" => call[d].phase = "kicked" /\ call'[d].token = call[d].token

LEMMA QuietRows ==
    ASSUME IInv, Quiet
    PROVE  /\ Live' \subseteq Live
           /\ \A p \in Live' : users'[p] = users[p]
           /\ \A t, p : Names(t, p)' => Names(t, p)
<1>1. Live' \subseteq Live /\ \A p \in Live' : users'[p] = users[p]
  BY DEF Quiet, Live
<1>. QED BY <1>1 DEF Names, Live

LEMMA QuietKeeps ==
    ASSUME IInv, Quiet
    PROVE  TypeOK' /\ Sessions' /\ Older' /\ Owners'
<1>1. /\ \A p \in Live' : users'[p].id # 0 /\ users'[p].sid <= issued'
      /\ \A p, q \in Live' : p # q => /\ users'[p].id # users'[q].id
                                      /\ users'[p].sid = users'[q].sid => users'[p].sid = 0
  BY QuietRows DEF IInv, TypeOK, Quiet
<1>2. TypeOK'
  BY <1>1 DEF IInv, TypeOK, Quiet
<1>3. Sessions'
  BY QuietRows DEF IInv, Sessions, Quiet
<1>4. Older'
  BY QuietRows DEF IInv, Older, Quiet
<1>5. Owners'
  BY QuietRows DEF IInv, Owners, Quiet
<1>. QED BY <1>2, <1>3, <1>4, <1>5

LEMMA LoginsKeptKeeps ==
    ASSUME IInv, Quiet, LoginsKept
    PROVE  Counted' /\ Waits'
<1>1. Counted'
  BY QuietRows DEF IInv, Counted, Quiet, LoginsKept
<1>2. Waits'
  BY QuietRows DEF IInv, Waits, Quiet, LoginsKept
<1>. QED BY <1>1, <1>2

LEMMA CallsKeptKeeps ==
    ASSUME IInv, Quiet, CallsKept
    PROVE  Kicked'
<1>. SUFFICES ASSUME NEW d \in Devices, call'[d].phase = "kicked"
              PROVE  /\ call'[d].token.sid # 0
                     /\ \A p \in Phones : Names(call[d].token, p)' =>
                                            users'[p].sid # call'[d].token.sid
  BY DEF Kicked
<1>1. call[d].phase = "kicked" /\ call'[d].token = call[d].token
  BY DEF CallsKept
<1>2. \A p \in Phones : Names(call[d].token, p)' => Names(call[d].token, p) /\ users'[p] = users[p]
  BY <1>1, QuietRows DEF Names, Live
<1>. QED BY <1>1, <1>2 DEF IInv, Kicked

-----------------------------------------------------------------------------
(* Steps that issue a session.                                             *)

\* The session is of the account p and for the owner o of the token.
Issued(s, d, o, p, id) ==
    /\ Issue(s, d, o, p, id)
    /\ UNCHANGED <<setup, expired, token, call>>
    /\ lastId' \in Nat /\ lastId <= lastId'
    /\ id \in Nat /\ id # 0
    /\ ~ setup.reuse => id <= lastId'
    /\ \A q \in Live : q # p => users[q].id # id
    /\ (~ setup.reuse \/ ~ setup.awaits) => o = p
    /\ ~ setup.reuse => \A t \in Around : t.id = id => t.phone = p
    /\ ~ setup.reuse =>
          \A r \in Logins : r # s /\ login[r].phase = "verifying" /\ login[r].read # NoRow
                             /\ login[r].read.id = id => login[r].phone = p

LEMMA IssuedKeeps ==
    ASSUME IInv, NEW s \in Logins, NEW d \in Devices \cup {NoDevice}, NEW o \in Phones,
           NEW p \in Phones, NEW id, Issued(s, d, o, p, id)
    PROVE  IInv'
<1> DEFINE new == [id |-> id, sid |-> issued', phone |-> o]
<1>0. /\ TypeOK /\ issued \in Nat /\ issued' = issued + 1 /\ issued' \in 0..MaxSessions
      /\ MaxSessions \in Nat /\ new \in Token /\ lastId \in Nat
      /\ new.sid = issued' /\ new.id = id /\ new.phone = o
  BY SessionAssumption DEF IInv, TypeOK, Issued, Issue, Token
<1>1. /\ users' = [users EXCEPT ![p] = [id |-> id, sid |-> issued']]
      /\ login' = [login EXCEPT ![s] = Answered(d, new)]
      /\ UNCHANGED <<setup, expired, token, call>>
  BY DEF Issued, Issue
<1>. HIDE DEF new
<1>2. /\ users' \in [Phones -> Row]
      /\ users'[p].id = id /\ users'[p].sid = issued' /\ users'[p] # NoRow
      /\ \A q \in Phones : q # p => users'[q] = users[q]
      /\ p \in Live' /\ Live' \subseteq Live \cup {p}
  BY <1>0, <1>1 DEF TypeOK, Row, NoRow, Live, Issued
<1>3. /\ login' \in [Logins -> Login]
      /\ \A r \in Logins : r # s => login'[r] = login[r]
      /\ login'[s].phase # "verifying"
      /\ Answer(s)' => login'[s].token = new
  <2>1. Answered(d, new) \in Login
    BY <1>0 DEF Answered, Login, IdleLogin
  <2>2. Answered(d, new).phase # "verifying"
        /\ (Answered(d, new).phase = "answered" => Answered(d, new).token = new)
    BY DEF Answered, IdleLogin
  <2>. QED BY <1>0, <1>1, <2>1, <2>2 DEF TypeOK, Answer
<1>4. Around' \subseteq Around \cup {new}
  <2>. SUFFICES ASSUME NEW t \in Around' PROVE t \in Around \cup {new}
    OBVIOUS
  <2>1. CASE \E e \in Devices : t = token'[e]
    BY <2>1, <1>1, AroundIs, AroundIsNext
  <2>2. CASE \E r \in Logins : Answer(r)' /\ t = login'[r].token
    BY <2>2, <1>3, AroundIs, AroundIsNext DEF Answer
  <2>3. CASE \E e \in Devices : call'[e].phase # "idle" /\ t = call'[e].token
    BY <2>3, <1>1, AroundIs, AroundIsNext
  <2>. QED BY <2>1, <2>2, <2>3, AroundIsNext
<1>5. \A t \in Around : t.sid \in Nat /\ t.sid <= issued /\ t.id \in Nat
  BY TokensTyped, <1>0 DEF TypeOK, Token
<1>6. \A q \in Live : users[q].sid \in Nat /\ users[q].sid <= issued /\ q \in Phones
  BY <1>0 DEF TypeOK, Row, Live
<1>7. TypeOK'
  <2>1. \A q \in Live' : users'[q].id # 0 /\ users'[q].sid <= issued'
    BY <1>0, <1>2, <1>6 DEF TypeOK, Issued, Live
  <2>2. \A q, r \in Live' : q # r => /\ users'[q].id # users'[r].id
                                     /\ users'[q].sid = users'[r].sid => users'[q].sid = 0
    BY <1>0, <1>2, <1>6 DEF TypeOK, Issued
  <2>3. \A t \in Around' : t.sid <= issued'
    BY <1>0, <1>4, <1>5
  <2>4. expired' \in 0..MaxSessions + 1 /\ lastId' \in Nat
    BY <1>0, <1>1 DEF TypeOK, Issued
  <2>. QED BY <1>0, <1>1, <1>2, <1>3, <2>1, <2>2, <2>3, <2>4 DEF TypeOK
<1>8. Counted'
  <2>. SUFFICES ASSUME ~ setup.reuse
                PROVE  /\ \A q \in Live' : users'[q].id <= lastId'
                       /\ \A t \in Around' : t.id <= lastId'
                       /\ \A r \in Logins :
                              login'[r].phase = "verifying" => login'[r].read.id <= lastId'
    BY <1>1 DEF Counted
  <2>1. id <= lastId' /\ lastId <= lastId' /\ lastId' \in Nat
    BY DEF Issued
  <2>2. \A q \in Live' : users'[q].id <= lastId'
    BY <1>0, <1>2, <2>1 DEF IInv, Counted, TypeOK, Row, Live
  <2>3. \A t \in Around' : t.id <= lastId'
    BY <1>0, <1>4, <1>5, <2>1 DEF IInv, Counted
  <2>4. \A r \in Logins : login[r].phase = "verifying" => login[r].read.id \in Nat
    BY <1>0 DEF TypeOK, Login, IdleLogin, Row
  <2>5. \A r \in Logins : login'[r].phase = "verifying" => login'[r].read.id <= lastId'
    BY <1>0, <1>3, <2>1, <2>4 DEF IInv, Counted
  <2>. QED BY <2>2, <2>3, <2>5
<1>9. Single'
  <2>1. \A e \in Devices : token[e].sid # issued'
    <3>. TAKE e \in Devices
    <3>1. CASE token[e] = NoToken
      BY <3>1, <1>0 DEF NoToken
    <3>2. CASE token[e] # NoToken
      BY <3>2, <1>0, <1>5, TokensTyped
    <3>. QED BY <3>1, <3>2
  <2>2. \A r \in Logins : Answer(r) => login[r].token.sid # issued'
    BY <1>0, <1>5, TokensTyped
  <2>3. \A r \in Logins : Answer(r)' => (r # s /\ Answer(r) /\ login'[r] = login[r])
                                        \/ (r = s /\ login'[r].token.sid = issued')
    BY <1>0, <1>3 DEF Answer
  <2>. QED BY <1>1, <2>1, <2>2, <2>3 DEF IInv, Single
<1>10. Sessions'
  BY <1>0, <1>1, <1>2, <1>4, <1>5, <1>6 DEF IInv, Sessions, Issued
<1>11. Older'
  BY <1>0, <1>2, <1>4, <1>5, <1>6 DEF IInv, Older, Issued
<1>12. Waits'
  BY <1>0, <1>1, <1>2, <1>3 DEF IInv, Waits, Issued
<1>13. Owners'
  BY <1>0, <1>1, <1>2, <1>4 DEF IInv, Owners, Issued, Names
<1>14. Kicked'
  <2>1. \A e \in Devices : call[e].phase = "kicked" => call[e].token \in Around
    BY <1>0, TokensTyped
  <2>. QED BY <1>0, <1>1, <1>2, <1>5, <2>1 DEF IInv, Kicked, Names
<1>. QED BY <1>7, <1>8, <1>9, <1>10, <1>11, <1>12, <1>13, <1>14 DEF IInv

LEMMA CreateIssues ==
    ASSUME IInv, NEW s \in Logins, NEW d, NEW o \in Phones, Create(s, d, o),
           UNCHANGED <<setup, expired, token, call>>
    PROVE  \E id : Issued(s, d, o, o, id)
<1>0. TypeOK /\ lastId \in Nat /\ users \in [Phones -> Row]
  BY DEF IInv, TypeOK
<1>1. PICK id \in NewIds : Issue(s, d, o, o, id) /\ lastId' = IF setup.reuse THEN lastId ELSE id
  BY DEF Create
<1>2. \A q \in Live : q \in Phones /\ users[q].id \in Nat
  BY <1>0 DEF Live, Row
<1>3. CASE setup.reuse
  <2>1. id \in Nat /\ id # 0 /\ \A q \in Live : users[q].id < id
    BY <1>1, <1>2, <1>3 DEF NewIds
  <2>. QED BY <1>0, <1>1, <1>2, <1>3, <2>1 DEF Issued
<1>4. CASE ~ setup.reuse
  <2>1. id = lastId + 1 /\ lastId' = id
    BY <1>1, <1>4 DEF NewIds
  <2>2. \A t \in Around : t.id \in Nat
    BY <1>0, TokensTyped DEF Token
  <2>3. \A r \in Logins : login[r].phase = "verifying" => login[r].read.id \in Nat
    BY <1>0 DEF TypeOK, Login, IdleLogin, Row
  <2>. QED BY <1>0, <1>1, <1>2, <1>4, <2>1, <2>2, <2>3 DEF Issued, IInv, Counted
<1>. QED BY <1>3, <1>4

LEMMA RenewIssues ==
    ASSUME IInv, NEW s \in Logins, NEW d, NEW o \in Phones, NEW read, Renew(s, d, o, read),
           UNCHANGED <<setup, expired, token, call>>,
           ~ setup.reuse \/ ~ setup.awaits => \A p \in Live : users[p].id = read.id => p = o
    PROVE  \E p \in Phones : \E id : Issued(s, d, o, p, id)
<1>0. TypeOK /\ lastId \in Nat /\ users \in [Phones -> Row]
  BY DEF IInv, TypeOK
<1>1. PICK p \in Live : users[p].id = read.id /\ Issue(s, d, o, p, read.id) /\ lastId' = lastId
  BY DEF Renew
<1>2. /\ p \in Phones /\ read.id \in Nat /\ read.id # 0
      /\ \A q \in Live : q # p => users[q].id # read.id
  BY <1>0, <1>1 DEF TypeOK, Live, Row
<1>3. ~ setup.reuse => read.id <= lastId'
  BY <1>1 DEF IInv, Counted
<1>4. ~ setup.reuse => \A t \in Around : t.id = read.id => t.phone = p
  BY <1>1, <1>2 DEF IInv, Owners, Names
<1>5. ~ setup.reuse =>
          \A r \in Logins : login[r].phase = "verifying" /\ login[r].read # NoRow
                             /\ login[r].read.id = read.id => login[r].phone = p
  BY <1>1 DEF IInv, Waits
<1>6. Issued(s, d, o, p, read.id)
  BY <1>0, <1>1, <1>2, <1>3, <1>4, <1>5 DEF Issued
<1>. QED BY <1>2, <1>6

-----------------------------------------------------------------------------
(* The actions.                                                            *)

LEMMA RegisterStep ==
    ASSUME IInv, NEW s \in Logins, NEW d \in Devices, NEW o \in Phones, Register(s, d, o)
    PROVE  IInv'
BY CreateIssues, IssuedKeeps DEF Register

LEMMA LoginAtOnceStep ==
    ASSUME IInv, NEW s \in Logins, NEW d \in Devices, NEW o \in Phones, LoginAtOnce(s, d, o)
    PROVE  IInv'
<1>1. CASE o \in Live /\ Renew(s, d, o, users[o])
  <2>1. \A p \in Live : users[p].id = users[o].id => p = o
    BY <1>1 DEF IInv, TypeOK
  <2>. QED BY <1>1, <2>1, RenewIssues, IssuedKeeps DEF LoginAtOnce
<1>2. CASE Create(s, d, o)
  BY <1>2, CreateIssues, IssuedKeeps DEF LoginAtOnce
<1>. QED BY <1>1, <1>2 DEF LoginAtOnce

LEMMA FinishLoginStep ==
    ASSUME IInv, NEW s \in Logins, FinishLogin(s)
    PROVE  IInv'
<1>1. /\ login[s].device \in Devices \cup {NoDevice} /\ login[s].phone \in Phones
      /\ setup.awaits /\ UNCHANGED <<setup, expired, token, call>>
  BY DEF IInv, TypeOK, Waits, FinishLogin, Login, IdleLogin
<1>2. CASE login[s].read = NoRow
  BY <1>1, <1>2, CreateIssues, IssuedKeeps DEF FinishLogin
<1>3. CASE login[s].read # NoRow
  <2>1. Renew(s, login[s].device, login[s].phone, login[s].read)
    BY <1>3 DEF FinishLogin
  <2>2. ~ setup.reuse => \A p \in Live : users[p].id = login[s].read.id => p = login[s].phone
    BY <1>3 DEF IInv, Waits, FinishLogin
  <2>. QED BY <1>1, <2>1, <2>2, RenewIssues, IssuedKeeps
<1>. QED BY <1>2, <1>3

\* What of it a step leaves to be shown.
LEMMA QuietStep ==
    ASSUME IInv, Quiet, LoginsKept, CallsKept, Single'
    PROVE  IInv'
BY QuietKeeps, LoginsKeptKeeps, CallsKeptKeeps DEF IInv

LEMMA LoginFailsStep ==
    ASSUME IInv, NEW s \in Logins, LoginFails(s)
    PROVE  IInv'
<1>0. /\ TypeOK /\ users \in [Phones -> Row] /\ token \in [Devices -> Token \cup {NoToken}]
      /\ login \in [Logins -> Login] /\ call \in [Devices -> Call]
      /\ expired \in 0..MaxSessions + 1 /\ issued \in 0..MaxSessions /\ MaxSessions \in Nat
  BY SessionAssumption DEF IInv, TypeOK
<1>1. /\ token' \in [Devices -> Token \cup {NoToken}]
      /\ login' \in [Logins -> Login] /\ call' \in [Devices -> Call]
  BY <1>0 DEF LoginFails, IdleLogin, IdleCall, Login, Call
<1>2. Around' \subseteq Around
  BY <1>0, AroundIs, AroundIsNext, TokensTyped DEF LoginFails, Answer, IdleLogin, IdleCall, Login, Call
<1>3. Quiet
  BY <1>0, <1>1, <1>2 DEF Quiet, LoginFails
<1>4. LoginsKept
  BY <1>0 DEF LoginsKept, LoginFails, IdleLogin, Login
<1>5. CallsKept
  BY <1>0 DEF CallsKept, LoginFails, IdleCall, Call
<1>6. Single'
  BY <1>0, TokensTyped DEF IInv, Single, Answer, LoginFails, IdleLogin, Login, NoToken
<1>. QED BY <1>3, <1>4, <1>5, <1>6, QuietStep

LEMMA TakeTokenStep ==
    ASSUME IInv, NEW s \in Logins, TakeToken(s)
    PROVE  IInv'
<1>0. /\ TypeOK /\ users \in [Phones -> Row] /\ token \in [Devices -> Token \cup {NoToken}]
      /\ login \in [Logins -> Login] /\ call \in [Devices -> Call]
      /\ expired \in 0..MaxSessions + 1 /\ issued \in 0..MaxSessions /\ MaxSessions \in Nat
  BY SessionAssumption DEF IInv, TypeOK
<1>1. /\ token' \in [Devices -> Token \cup {NoToken}]
      /\ login' \in [Logins -> Login] /\ call' \in [Devices -> Call]
  BY <1>0, TokensTyped DEF TakeToken, Answer, IdleLogin, Login
<1>2. Around' \subseteq Around
  BY <1>0, AroundIs, AroundIsNext, TokensTyped DEF TakeToken, Answer, IdleLogin, IdleCall, Login, Call
<1>3. Quiet
  BY <1>0, <1>1, <1>2 DEF Quiet, TakeToken
<1>4. LoginsKept
  BY <1>0 DEF LoginsKept, TakeToken, IdleLogin, Login
<1>5. CallsKept
  BY <1>0 DEF CallsKept, TakeToken, IdleCall, Call
<1>6. Single'
  BY <1>0, TokensTyped DEF IInv, Single, Answer, TakeToken, IdleLogin, Login, NoToken
<1>. QED BY <1>3, <1>4, <1>5, <1>6, QuietStep

LEMMA GiveUpLoginStep ==
    ASSUME IInv, NEW s \in Logins, GiveUpLogin(s)
    PROVE  IInv'
<1>0. /\ TypeOK /\ users \in [Phones -> Row] /\ token \in [Devices -> Token \cup {NoToken}]
      /\ login \in [Logins -> Login] /\ call \in [Devices -> Call]
      /\ expired \in 0..MaxSessions + 1 /\ issued \in 0..MaxSessions /\ MaxSessions \in Nat
  BY SessionAssumption DEF IInv, TypeOK
<1>1. /\ token' \in [Devices -> Token \cup {NoToken}]
      /\ login' \in [Logins -> Login] /\ call' \in [Devices -> Call]
  BY <1>0 DEF GiveUpLogin, IdleLogin, IdleCall, Login, Call
<1>2. Around' \subseteq Around
  BY <1>0, AroundIs, AroundIsNext, TokensTyped DEF GiveUpLogin, Answer, IdleLogin, IdleCall, Login, Call
<1>3. Quiet
  BY <1>0, <1>1, <1>2 DEF Quiet, GiveUpLogin
<1>4. LoginsKept
  BY <1>0 DEF LoginsKept, GiveUpLogin, IdleLogin, Login
<1>5. CallsKept
  BY <1>0 DEF CallsKept, GiveUpLogin, IdleCall, Call
<1>6. Single'
  BY <1>0, TokensTyped DEF IInv, Single, Answer, GiveUpLogin, IdleLogin, Login, NoToken
<1>. QED BY <1>3, <1>4, <1>5, <1>6, QuietStep

LEMMA SendStep ==
    ASSUME IInv, NEW d \in Devices, Send(d)
    PROVE  IInv'
<1>0. /\ TypeOK /\ users \in [Phones -> Row] /\ token \in [Devices -> Token \cup {NoToken}]
      /\ login \in [Logins -> Login] /\ call \in [Devices -> Call]
      /\ expired \in 0..MaxSessions + 1 /\ issued \in 0..MaxSessions /\ MaxSessions \in Nat
  BY SessionAssumption DEF IInv, TypeOK
<1>1. /\ token' \in [Devices -> Token \cup {NoToken}]
      /\ login' \in [Logins -> Login] /\ call' \in [Devices -> Call]
  BY <1>0 DEF Send, IdleLogin, IdleCall, Login, Call
<1>2. Around' \subseteq Around
  BY <1>0, AroundIs, AroundIsNext, TokensTyped DEF Send, Answer, IdleLogin, IdleCall, Login, Call
<1>3. Quiet
  BY <1>0, <1>1, <1>2 DEF Quiet, Send
<1>4. LoginsKept
  BY <1>0 DEF LoginsKept, Send, IdleLogin, Login
<1>5. CallsKept
  BY <1>0 DEF CallsKept, Send, IdleCall, Call
<1>6. Single'
  BY <1>0, TokensTyped DEF IInv, Single, Answer, Send, IdleLogin, Login, NoToken
<1>. QED BY <1>3, <1>4, <1>5, <1>6, QuietStep

LEMMA DeleteAccountStep ==
    ASSUME IInv, NEW d \in Devices, DeleteAccount(d)
    PROVE  IInv'
<1>0. /\ TypeOK /\ users \in [Phones -> Row] /\ token \in [Devices -> Token \cup {NoToken}]
      /\ login \in [Logins -> Login] /\ call \in [Devices -> Call]
      /\ expired \in 0..MaxSessions + 1 /\ issued \in 0..MaxSessions /\ MaxSessions \in Nat
  BY SessionAssumption DEF IInv, TypeOK
<1>1. /\ token' \in [Devices -> Token \cup {NoToken}]
      /\ login' \in [Logins -> Login] /\ call' \in [Devices -> Call]
  BY <1>0 DEF DeleteAccount, IdleLogin, IdleCall, Login, Call
<1>2. Around' \subseteq Around
  BY <1>0, AroundIs, AroundIsNext, TokensTyped DEF DeleteAccount, Answer, IdleLogin, IdleCall, Login, Call
<1>3. Quiet
  <2>1. NoRow \in Row
    BY <1>0 DEF NoRow, Row
  <2>. QED BY <1>0, <1>1, <1>2, <2>1 DEF Quiet, DeleteAccount
<1>4. LoginsKept
  BY <1>0 DEF LoginsKept, DeleteAccount, IdleLogin, Login
<1>5. CallsKept
  BY <1>0 DEF CallsKept, DeleteAccount, IdleCall, Call
<1>6. Single'
  BY <1>0, TokensTyped DEF IInv, Single, Answer, DeleteAccount, IdleLogin, Login, NoToken
<1>. QED BY <1>3, <1>4, <1>5, <1>6, QuietStep

LEMMA TakeAnswerStep ==
    ASSUME IInv, NEW d \in Devices, TakeAnswer(d)
    PROVE  IInv'
<1>0. /\ TypeOK /\ users \in [Phones -> Row] /\ token \in [Devices -> Token \cup {NoToken}]
      /\ login \in [Logins -> Login] /\ call \in [Devices -> Call]
      /\ expired \in 0..MaxSessions + 1 /\ issued \in 0..MaxSessions /\ MaxSessions \in Nat
  BY SessionAssumption DEF IInv, TypeOK
<1>1. /\ token' \in [Devices -> Token \cup {NoToken}]
      /\ login' \in [Logins -> Login] /\ call' \in [Devices -> Call]
  BY <1>0 DEF TakeAnswer, IdleLogin, IdleCall, Login, Call
<1>2. Around' \subseteq Around
  BY <1>0, AroundIs, AroundIsNext, TokensTyped DEF TakeAnswer, Answer, IdleLogin, IdleCall, Login, Call
<1>3. Quiet
  BY <1>0, <1>1, <1>2 DEF Quiet, TakeAnswer
<1>4. LoginsKept
  BY <1>0 DEF LoginsKept, TakeAnswer, IdleLogin, Login
<1>5. CallsKept
  BY <1>0 DEF CallsKept, TakeAnswer, IdleCall, Call
<1>6. Single'
  BY <1>0, TokensTyped DEF IInv, Single, Answer, TakeAnswer, IdleLogin, Login, NoToken
<1>. QED BY <1>3, <1>4, <1>5, <1>6, QuietStep

LEMMA LoseCallStep ==
    ASSUME IInv, NEW d \in Devices, LoseCall(d)
    PROVE  IInv'
<1>0. /\ TypeOK /\ users \in [Phones -> Row] /\ token \in [Devices -> Token \cup {NoToken}]
      /\ login \in [Logins -> Login] /\ call \in [Devices -> Call]
      /\ expired \in 0..MaxSessions + 1 /\ issued \in 0..MaxSessions /\ MaxSessions \in Nat
  BY SessionAssumption DEF IInv, TypeOK
<1>1. /\ token' \in [Devices -> Token \cup {NoToken}]
      /\ login' \in [Logins -> Login] /\ call' \in [Devices -> Call]
  BY <1>0 DEF LoseCall, IdleLogin, IdleCall, Login, Call
<1>2. Around' \subseteq Around
  BY <1>0, AroundIs, AroundIsNext, TokensTyped DEF LoseCall, Answer, IdleLogin, IdleCall, Login, Call
<1>3. Quiet
  BY <1>0, <1>1, <1>2 DEF Quiet, LoseCall
<1>4. LoginsKept
  BY <1>0 DEF LoginsKept, LoseCall, IdleLogin, Login
<1>5. CallsKept
  BY <1>0 DEF CallsKept, LoseCall, IdleCall, Call
<1>6. Single'
  BY <1>0, TokensTyped DEF IInv, Single, Answer, LoseCall, IdleLogin, Login, NoToken
<1>. QED BY <1>3, <1>4, <1>5, <1>6, QuietStep

LEMMA LogoutStep ==
    ASSUME IInv, NEW d \in Devices, Logout(d)
    PROVE  IInv'
<1>0. /\ TypeOK /\ users \in [Phones -> Row] /\ token \in [Devices -> Token \cup {NoToken}]
      /\ login \in [Logins -> Login] /\ call \in [Devices -> Call]
      /\ expired \in 0..MaxSessions + 1 /\ issued \in 0..MaxSessions /\ MaxSessions \in Nat
  BY SessionAssumption DEF IInv, TypeOK
<1>1. /\ token' \in [Devices -> Token \cup {NoToken}]
      /\ login' \in [Logins -> Login] /\ call' \in [Devices -> Call]
  BY <1>0 DEF Logout, IdleLogin, IdleCall, Login, Call
<1>2. Around' \subseteq Around
  BY <1>0, AroundIs, AroundIsNext, TokensTyped DEF Logout, Answer, IdleLogin, IdleCall, Login, Call
<1>3. Quiet
  BY <1>0, <1>1, <1>2 DEF Quiet, Logout
<1>4. LoginsKept
  BY <1>0 DEF LoginsKept, Logout, IdleLogin, Login
<1>5. CallsKept
  BY <1>0 DEF CallsKept, Logout, IdleCall, Call
<1>6. Single'
  BY <1>0, TokensTyped DEF IInv, Single, Answer, Logout, IdleLogin, Login, NoToken
<1>. QED BY <1>3, <1>4, <1>5, <1>6, QuietStep

LEMMA ExpireStep ==
    ASSUME IInv, Expire
    PROVE  IInv'
<1>0. /\ TypeOK /\ users \in [Phones -> Row] /\ token \in [Devices -> Token \cup {NoToken}]
      /\ login \in [Logins -> Login] /\ call \in [Devices -> Call]
      /\ expired \in 0..MaxSessions + 1 /\ issued \in 0..MaxSessions /\ MaxSessions \in Nat
  BY SessionAssumption DEF IInv, TypeOK
<1>1. /\ token' \in [Devices -> Token \cup {NoToken}]
      /\ login' \in [Logins -> Login] /\ call' \in [Devices -> Call]
  BY <1>0 DEF Expire, IdleLogin, IdleCall, Login, Call
<1>2. Around' \subseteq Around
  BY <1>0, AroundIs, AroundIsNext, TokensTyped DEF Expire, Answer, IdleLogin, IdleCall, Login, Call
<1>3. Quiet
  BY <1>0, <1>1, <1>2 DEF Quiet, Expire
<1>4. LoginsKept
  BY <1>0 DEF LoginsKept, Expire, IdleLogin, Login
<1>5. CallsKept
  BY <1>0 DEF CallsKept, Expire, IdleCall, Call
<1>6. Single'
  BY <1>0, TokensTyped DEF IInv, Single, Answer, Expire, IdleLogin, Login, NoToken
<1>. QED BY <1>3, <1>4, <1>5, <1>6, QuietStep

LEMMA RestartStep ==
    ASSUME IInv, Restart
    PROVE  IInv'
<1>0. /\ TypeOK /\ users \in [Phones -> Row] /\ token \in [Devices -> Token \cup {NoToken}]
      /\ login \in [Logins -> Login] /\ call \in [Devices -> Call]
      /\ expired \in 0..MaxSessions + 1 /\ issued \in 0..MaxSessions /\ MaxSessions \in Nat
  BY SessionAssumption DEF IInv, TypeOK
<1>1. /\ token' \in [Devices -> Token \cup {NoToken}]
      /\ login' \in [Logins -> Login] /\ call' \in [Devices -> Call]
  BY <1>0 DEF Restart, IdleLogin, IdleCall, Login, Call
<1>2. Around' \subseteq Around
  BY <1>0, AroundIs, AroundIsNext, TokensTyped DEF Restart, Answer, IdleLogin, IdleCall, Login, Call
<1>3. Quiet
  BY <1>0, <1>1, <1>2 DEF Quiet, Restart
<1>4. LoginsKept
  BY <1>0 DEF LoginsKept, Restart, IdleLogin, Login
<1>5. CallsKept
  BY <1>0 DEF CallsKept, Restart, IdleCall, Call
<1>6. Single'
  BY <1>0, TokensTyped DEF IInv, Single, Answer, Restart, IdleLogin, Login, NoToken
<1>. QED BY <1>3, <1>4, <1>5, <1>6, QuietStep

LEMMA BeginLoginStep ==
    ASSUME IInv, NEW s \in Logins, NEW d \in Devices, NEW o \in Phones, BeginLogin(s, d, o)
    PROVE  IInv'
<1>0. /\ TypeOK /\ users \in [Phones -> Row] /\ token \in [Devices -> Token \cup {NoToken}]
      /\ login \in [Logins -> Login] /\ call \in [Devices -> Call]
      /\ expired \in 0..MaxSessions + 1 /\ issued \in 0..MaxSessions /\ MaxSessions \in Nat
  BY SessionAssumption DEF IInv, TypeOK
<1>1. /\ Verifying(d, o, users[o]) \in Login
      /\ Verifying(d, o, users[o]).phase = "verifying"
      /\ Verifying(d, o, users[o]).read = users[o] /\ Verifying(d, o, users[o]).phone = o
  BY <1>0 DEF Verifying, Login
<1>2. /\ login' \in [Logins -> Login] /\ login'[s] = Verifying(d, o, users[o])
      /\ \A r \in Logins : r # s => login'[r] = login[r]
  BY <1>0, <1>1 DEF BeginLogin
<1>3. Around' \subseteq Around
  BY <1>0, <1>1, <1>2, AroundIs, AroundIsNext DEF BeginLogin, Answer
<1>4. Quiet
  BY <1>0, <1>2, <1>3 DEF Quiet, BeginLogin
<1>5. CallsKept
  BY DEF CallsKept, BeginLogin
<1>6. Single'
  BY <1>0, <1>1, <1>2 DEF IInv, Single, Answer, BeginLogin
<1>7. Counted'
  <2>1. ~ setup.reuse => users[o].id <= lastId
    BY <1>0 DEF IInv, Counted, TypeOK, Live, NoRow
  <2>. QED BY <1>0, <1>1, <1>2, <1>3, <2>1 DEF IInv, Counted, BeginLogin, Live
<1>8. Waits'
  <2>1. \A p \in Live : users[o] # NoRow /\ users[p].id = users[o].id => p = o
    BY <1>0 DEF TypeOK, Live
  <2>. QED BY <1>0, <1>1, <1>2, <2>1 DEF IInv, Waits, BeginLogin, Live
<1>. QED BY <1>4, <1>5, <1>6, <1>7, <1>8, QuietKeeps, CallsKeptKeeps DEF IInv

LEMMA AdmitStep ==
    ASSUME IInv, NEW d \in Devices, Admit(d)
    PROVE  IInv'
<1>0. /\ TypeOK /\ users \in [Phones -> Row] /\ token \in [Devices -> Token \cup {NoToken}]
      /\ login \in [Logins -> Login] /\ call \in [Devices -> Call]
      /\ expired \in 0..MaxSessions + 1 /\ issued \in 0..MaxSessions /\ MaxSessions \in Nat
  BY SessionAssumption DEF IInv, TypeOK
<1>1. PICK v \in {"admitted", "kicked", "done"} :
          /\ call' = [call EXCEPT ![d].phase = v]
          /\ v = "kicked" => Verdict(call[d].token) = "kicked"
  BY DEF Admit, Verdict
<1>2. /\ call[d] \in Call /\ call[d].phase = "sent" /\ call' \in [Devices -> Call]
      /\ call'[d].phase = v /\ call'[d].token = call[d].token
      /\ \A e \in Devices : e # d => call'[e] = call[e]
  BY <1>0, <1>1 DEF Admit, Call, IdleCall
<1>3. Around' \subseteq Around
  BY <1>0, <1>1, <1>2, AroundIs, AroundIsNext DEF Admit, Answer
<1>4. Quiet
  BY <1>0, <1>2, <1>3 DEF Quiet, Admit
<1>5. LoginsKept
  BY DEF LoginsKept, Admit
<1>6. Single'
  BY DEF IInv, Single, Answer, Admit
<1>7. Kicked'
  <2>1. ASSUME v = "kicked"
        PROVE  /\ call[d].token.sid # 0
               /\ \A p \in Phones : Names(call[d].token, p) => users[p].sid # call[d].token.sid
    BY <1>0, <1>1, <2>1 DEF Verdict, Superseded, Names, TypeOK
  <2>. QED BY <1>2, <2>1 DEF IInv, Kicked, Names, Live, Admit
<1>. QED BY <1>4, <1>5, <1>6, <1>7, QuietKeeps, LoginsKeptKeeps DEF IInv

LEMMA InitInv == Init => IInv
<1>. SUFFICES ASSUME Init PROVE IInv
  OBVIOUS
<1> DEFINE First(P, o) ==
          /\ P \subseteq {o} /\ P \subseteq Phones
          /\ users = [p \in Phones |-> IF p \in P THEN [id |-> 1, sid |-> 0] ELSE NoRow]
          /\ \A d \in Devices :
                token[d] = NoToken \/ (P = {o} /\ token[d] = [id |-> 1, sid |-> 0, phone |-> o])
          /\ lastId \in {0, 1} /\ (P # {} => lastId = 1)
          /\ token \in [Devices -> Token \cup {NoToken}]
<1>1. \E P, o : First(P, o)
  <2>1. CASE users = [p \in Phones |-> NoRow] /\ token = [d \in Devices |-> NoToken] /\ lastId = 0
    <3>1. First({}, 0)
      BY <2>1
    <3>. HIDE DEF First
    <3>. QED BY <3>1
  <2>2. ASSUME NEW o \in Phones,
               users = [p \in Phones |-> IF p = o THEN [id |-> 1, sid |-> 0] ELSE NoRow],
               token \in [Devices -> {NoToken, [id |-> 1, sid |-> 0, phone |-> o]}],
               lastId = 1
        PROVE  \E P, q : First(P, q)
    <3>1. [id |-> 1, sid |-> 0, phone |-> o] \in Token
      BY SessionAssumption DEF Token
    <3>2. First({o}, o)
      BY <2>2, <3>1
    <3>. HIDE DEF First
    <3>. QED BY <3>2
  <2>. QED BY <2>1, <2>2 DEF Init
<1>p. PICK P, o : First(P, o)
  BY <1>1
<1>2. /\ users \in [Phones -> Row] /\ Live = P
      /\ \A p \in Live : p = o /\ users[p].id = 1 /\ users[p].sid = 0
  <2>1. [id |-> 1, sid |-> 0] \in Row /\ NoRow \in Row /\ [id |-> 1, sid |-> 0] # NoRow
    BY SessionAssumption DEF Row, NoRow
  <2>2. \A p \in Phones : users[p] = IF p \in P THEN [id |-> 1, sid |-> 0] ELSE NoRow
    BY <1>p
  <2>3. users \in [Phones -> Row]
    BY <1>p, <2>1
  <2>. QED BY <1>p, <2>1, <2>2, <2>3 DEF Live
<1>3. \A t \in Around : t.id = 1 /\ t.sid = 0 /\ t.phone = o /\ P = {o}
  BY <1>p, AroundIs DEF Init, Answer, IdleLogin, IdleCall
<1>4. TypeOK
  <2>1. /\ \A p \in Live : users[p].id # 0 /\ users[p].sid <= issued
        /\ \A p, q \in Live : p # q => /\ users[p].id # users[q].id
                                       /\ users[p].sid = users[q].sid => users[p].sid = 0
        /\ \A t \in Around : t.sid <= issued
    BY <1>2, <1>3 DEF Init
  <2>2. /\ login \in [Logins -> Login] /\ call \in [Devices -> Call] /\ setup \in Setups
        /\ issued \in 0..MaxSessions /\ expired \in 0..MaxSessions + 1
    BY SessionAssumption DEF Init, IdleLogin, IdleCall, Login, Call
  <2>3. lastId \in Nat /\ token \in [Devices -> Token \cup {NoToken}]
    BY <1>p
  <2>. QED BY <1>2, <2>1, <2>2, <2>3 DEF TypeOK
<1>5. Counted /\ Waits
  <2>1. \A p \in Live : lastId = 1 /\ users[p].id = 1
    BY <1>p, <1>2
  <2>2. \A t \in Around : lastId = 1 /\ t.id = 1
    BY <1>p, <1>3
  <2>. QED BY <2>1, <2>2 DEF Init, Counted, Waits, IdleLogin
<1>6. Single
  BY <1>p DEF Init, Single, Answer, IdleLogin, NoToken
<1>7. Sessions /\ Older /\ Owners
  BY <1>2, <1>3 DEF Sessions, Older, Owners, Names
<1>8. Kicked
  BY DEF Init, Kicked, IdleCall
<1>. QED BY <1>4, <1>5, <1>6, <1>7, <1>8 DEF IInv

LEMMA NextStep == IInv /\ [Next]_vars => IInv'
<1>. SUFFICES ASSUME IInv, [Next]_vars PROVE IInv'
  OBVIOUS
<1>1. ASSUME NEW s \in Logins, NEW d \in Devices, NEW o \in Phones,
             Register(s, d, o) \/ LoginAtOnce(s, d, o) \/ BeginLogin(s, d, o)
      PROVE  IInv'
  BY <1>1, RegisterStep, LoginAtOnceStep, BeginLoginStep
<1>2. ASSUME NEW s \in Logins, FinishLogin(s) \/ LoginFails(s) \/ TakeToken(s) \/ GiveUpLogin(s)
      PROVE  IInv'
  BY <1>2, FinishLoginStep, LoginFailsStep, TakeTokenStep, GiveUpLoginStep
<1>3. ASSUME NEW d \in Devices,
             Send(d) \/ Admit(d) \/ DeleteAccount(d) \/ TakeAnswer(d) \/ LoseCall(d) \/ Logout(d)
      PROVE  IInv'
  BY <1>3, SendStep, AdmitStep, DeleteAccountStep, TakeAnswerStep, LoseCallStep, LogoutStep
<1>4. CASE Expire \/ Restart
  BY <1>4, ExpireStep, RestartStep
<1>5. CASE UNCHANGED vars
  <2>1. Around' = Around
    BY <1>5 DEF vars, Around
  <2>. QED BY <1>5, <2>1 DEF vars, IInv, TypeOK, Counted, Single, Sessions, Older, Waits, Owners,
                         Kicked, Names, Live, Answer
<1>. QED BY <1>1, <1>2, <1>3, <1>4, <1>5 DEF Next

-----------------------------------------------------------------------------
(* The specification.                                                      *)

\* What the other theorems rest on.
THEOREM Inductive == Spec => []IInv
BY InitInv, NextStep, PTL DEF Spec

\* No two accounts ever have one id or one session, and no token names a session that
\* was not issued (auth.py:59-67).
THEOREM TypeCorrect == Spec => []TypeOK
<1>1. IInv => TypeOK
  BY DEF IInv
<1>. QED BY <1>1, Inductive, PTL

\* The server lets only one device at a time into an account (auth.py:60).
THEOREM OneDeviceSafe == Spec => []OneDeviceEach
BY InvOneDevice, Inductive, PTL

\* A token opens the account of the person it was given to, and no other, as far as
\* sessions are there to tell (deps.py:29-41).
THEOREM NoImpersonationSafe == Spec => []NoImpersonation
BY InvNoImpersonation, Inductive, PTL

\* A late answer does not end a session that began after the request was sent
\* with another token (ApiClient.kt:130).
THEOREM KickedSafe == Spec => KickedForGood
<1> DEFINE Step ==
        \A d \in Devices :
            /\ TakeAnswer(d)
            /\ token[d] # NoToken /\ token'[d] = NoToken
            /\ Known(token[d]) /\ ~ Superseded(token[d])
            => call[d].token # token[d]
<1>1. IInv => Step
  <2>. SUFFICES ASSUME IInv, NEW d \in Devices, TakeAnswer(d), token[d] # NoToken,
                       token'[d] = NoToken, Known(token[d]), ~ Superseded(token[d]),
                       call[d].token = token[d]
                PROVE  FALSE
    OBVIOUS
  <2>1. call[d].phase = "kicked"
    BY DEF TakeAnswer
  <2>2. PICK p \in Phones : Names(token[d], p)
    BY DEF Known
  <2>3. token[d].sid # 0 /\ users[p].sid # token[d].sid
    BY <2>1, <2>2 DEF IInv, Kicked
  <2>4. users[p].sid # 0
    BY <2>2, <2>3, TokensTyped DEF IInv, Older, Names
  <2>. QED BY <2>2, <2>3, <2>4 DEF Superseded
<1>. HIDE DEF Step
<1>2. Spec => [][Step]_vars
  BY <1>1, Inductive, PTL
<1>. QED BY <1>2, PTL DEF Step, KickedForGood
=============================================================================

------------------------------ MODULE Session -------------------------------
(***************************************************************************)
(* Accounts and their sessions: the table users, the three ways to log in  *)
(* (server/app/api/auth.py), the check of tokens that precedes every       *)
(* handler (core/deps.py), and the app's side of both (net/ApiClient.kt).  *)
(*                                                                         *)
(* A login by code reads the account before it awaits the verification of  *)
(* the code, and writes it afterwards; answers may come late or never; the *)
(* app removes its token when it is told that the account is in use        *)
(* elsewhere.                                                              *)
(***************************************************************************)
EXTENDS Naturals

CONSTANTS
    Phones,         \* phone numbers; a number has at most one account
    Devices,        \* installations of the app
    Logins,         \* slots for login requests on their way
    NoDevice,       \* nobody waits for the login any more
    Setups,         \* the settings to be looked at
    MaxSessions     \* bound: sessions issued

ASSUME SessionAssumption ==
    /\ NoDevice \notin Devices
    /\ Setups \subseteq [reuse : BOOLEAN, awaits : BOOLEAN]
    /\ "none" \notin Phones
    /\ MaxSessions \in Nat

\* setup.reuse: the database gives the id of the last account again once that one is
\* deleted (SQLite); setup.awaits: codes are verified by an external service
\* (aliyun_pns).
VARIABLES
    setup,
    users,      \* the rows of users, by phone
    lastId,     \* the greatest id given so far, as MySQL counts them
    issued,     \* sessions issued so far: the newest has this number
    expired,    \* tokens of sessions below this number decode no more
    token,      \* the token that each device keeps
    login,      \* login requests
    call        \* one other request of each device

vars == <<setup, users, lastId, issued, expired, token, login, call>>

\* A session is a number, as drawn by new_session_id; 0 is NULL.
Row == [id : Nat, sid : 0..MaxSessions]
NoRow == [id |-> 0, sid |-> 0]

\* What a token claims, and the number of the person it was given to, which it
\* does not say.
Token == [id : Nat, sid : 0..MaxSessions, phone : Phones]
NoToken == [id |-> 0, sid |-> 0, phone |-> "none"]

\* A login by code that waits for the verification, with what it has read; or the
\* answer to a login, if anybody waits for it.
IdleLogin == [phase |-> "idle"]
Verifying(d, p, r) == [phase |-> "verifying", device |-> d, phone |-> p, read |-> r]
Answered(d, t) ==
    IF d = NoDevice THEN IdleLogin ELSE [phase |-> "answered", device |-> d, token |-> t]
Login == {IdleLogin}
    \cup [phase : {"verifying"}, device : Devices \cup {NoDevice}, phone : Phones, read : Row]
    \cup [phase : {"answered"}, device : Devices, token : Token]

\* "admitted" is a deletion on its way to its body, "done" any answer but the one
\* with X-Kicked.
IdleCall == [phase |-> "idle"]
Call == [phase : {"sent", "admitted", "kicked", "done"}, token : Token] \cup {IdleCall}

Live == {p \in Phones : users[p] # NoRow}

-----------------------------------------------------------------------------
(* The server: sessions are issued.                                        *)

\* The primary key of a new account: one more than the greatest that there is, or
\* that there ever was.
NewIds ==
    IF setup.reuse
    THEN {i \in {1} \cup {users[p].id + 1 : p \in Live} : \A p \in Live : users[p].id < i}
    ELSE {lastId + 1}

\* Slip: an account that has a session keeps it.
Issue_Keep(s, d, o, p, id) ==
    /\ issued < MaxSessions
    /\ LET sid == IF users[p].sid = 0 THEN issued + 1 ELSE users[p].sid IN
       /\ issued' = issued + 1
       /\ users' = [users EXCEPT ![p] = [id |-> id, sid |-> sid]]
       /\ login' = [login EXCEPT ![s] = Answered(d, [id |-> id, sid |-> sid, phone |-> o])]

\* _issue: the account of p gets a new session; the answer, to d in the name of o,
\* carries a token that names both.
Issue(s, d, o, p, id) ==
    /\ issued < MaxSessions
    /\ issued' = issued + 1
    /\ users' = [users EXCEPT ![p] = [id |-> id, sid |-> issued']]
    /\ login' = [login EXCEPT ![s] = Answered(d, [id |-> id, sid |-> issued', phone |-> o])]

\* A new account; the unique key on the number refuses a second one.
Create(s, d, o) ==
    /\ o \notin Live
    /\ \E i \in NewIds :
          /\ Issue(s, d, o, o, i)
          /\ lastId' = IF setup.reuse THEN lastId ELSE i

\* The account that was read gets the session.  The UPDATE goes by its id, and an
\* UPDATE that meets no row is an error.
Renew(s, d, o, read) ==
    /\ \E p \in Live : users[p].id = read.id /\ Issue(s, d, o, p, read.id)
    /\ UNCHANGED lastId

\* The login screen is reached without a token.  Requests that are refused, by a
\* wrong code or password, leave no trace and are left out, and so is the way to
\* the server.
AtLogin(s, d) == token[d] = NoToken /\ login[s] = IdleLogin

\* register looks for the account and makes it after the code is verified.
Register(s, d, o) ==
    /\ AtLogin(s, d)
    /\ Create(s, d, o)
    /\ UNCHANGED <<setup, expired, token, call>>

\* login with a password, or with a code that is verified without waiting: an
\* unknown number gets an account with the code only.
LoginAtOnce(s, d, o) ==
    /\ AtLogin(s, d)
    /\ \/ o \in Live /\ Renew(s, d, o, users[o])
       \/ ~ setup.awaits /\ Create(s, d, o)
    /\ UNCHANGED <<setup, expired, token, call>>

\* login with a code whose verification is awaited: the account is read first.
BeginLogin(s, d, o) ==
    /\ AtLogin(s, d)
    /\ setup.awaits
    /\ login' = [login EXCEPT ![s] = Verifying(d, o, users[o])]
    /\ UNCHANGED <<setup, users, lastId, issued, expired, token, call>>

\* The code is right: the account that was read is renewed, and if there was none
\* one is created.
FinishLogin(s) ==
    /\ login[s].phase = "verifying"
    /\ LET l == login[s] IN
       IF l.read = NoRow THEN Create(s, l.device, l.phone) ELSE Renew(s, l.device, l.phone, l.read)
    /\ UNCHANGED <<setup, expired, token, call>>

\* The code is wrong, or the database refuses the write.
LoginFails(s) ==
    /\ login[s].phase = "verifying"
    /\ login' = [login EXCEPT ![s] = IdleLogin]
    /\ UNCHANGED <<setup, users, lastId, issued, expired, token, call>>

-----------------------------------------------------------------------------
(* The server: requests are admitted.                                      *)

\* The row that a token's id names, if any.
Names(t, p) == p \in Live /\ users[p].id = t.id

\* Both the token and the account have a session, and not the same one.
Superseded(t) ==
    \E p \in Phones : /\ Names(t, p)
                      /\ t.sid # 0 /\ users[p].sid # 0
                      /\ t.sid # users[p].sid

Known(t) == t.sid >= expired /\ \E p \in Phones : Names(t, p)

\* Slip: the session is not compared.
Verdict_IdOnly(t) == IF Known(t) THEN "admitted" ELSE "refused"

\* Slip: a token without a session is taken to be an old one.
Verdict_Strict(t) ==
    IF ~ Known(t) THEN "refused"
    ELSE IF \E p \in Phones : Names(t, p) /\ users[p].sid = t.sid /\ t.sid # 0
         THEN "admitted" ELSE "kicked"

\* Slip: the answer does not say that the session was taken over.
Verdict_Plain(t) == IF Known(t) /\ ~ Superseded(t) THEN "admitted" ELSE "refused"

\* get_current_user: 401 with X-Kicked, 401, or the account.
Verdict(t) ==
    IF ~ Known(t) THEN "refused" ELSE IF Superseded(t) THEN "kicked" ELSE "admitted"

\* The request is for the deletion of the account, whose body is to come, or for a
\* handler that leaves accounts alone and follows at once.
Admit(d) ==
    /\ call[d].phase = "sent"
    /\ LET v == Verdict(call[d].token) IN
       \/ v # "refused" /\ call' = [call EXCEPT ![d].phase = v]
       \/ v # "kicked" /\ call' = [call EXCEPT ![d].phase = "done"]
    /\ UNCHANGED <<setup, users, lastId, issued, expired, token, login>>

\* The body of delete_account, which goes by the id.
DeleteAccount(d) ==
    /\ call[d].phase = "admitted"
    /\ users' = [p \in Phones |-> IF Names(call[d].token, p) THEN NoRow ELSE users[p]]
    /\ call' = [call EXCEPT ![d].phase = "done"]
    /\ UNCHANGED <<setup, lastId, issued, expired, token, login>>

\* Thirty days after a session was issued its token expires; first those without
\* a session.
Expire ==
    /\ expired <= issued
    /\ expired' = expired + 1
    /\ UNCHANGED <<setup, users, lastId, issued, token, login, call>>

\* The server stops: requests fail.  If JWT_SECRET is not configured, the next
\* start draws another, and no token made before will decode.
Restart ==
    /\ login' = [s \in Logins |-> IdleLogin]
    /\ call' = [d \in Devices |-> IdleCall]
    /\ expired' \in {expired, issued + 1}
    /\ UNCHANGED <<setup, users, lastId, issued, token>>

-----------------------------------------------------------------------------
(* The app.                                                                *)

\* The answer to a login: the token is kept.
TakeToken(s) ==
    /\ login[s].phase = "answered"
    /\ token' = [token EXCEPT ![login[s].device] = login[s].token]
    /\ login' = [login EXCEPT ![s] = IdleLogin]
    /\ UNCHANGED <<setup, users, lastId, issued, expired, call>>

\* The app waits five seconds for an answer, and may be ended before: the server
\* goes on, and its answer is lost.
GiveUpLogin(s) ==
    /\ login[s] # IdleLogin /\ login[s].device # NoDevice
    /\ login' = [login EXCEPT ![s] =
          IF @.phase = "answered" THEN IdleLogin ELSE [@ EXCEPT !.device = NoDevice]]
    /\ UNCHANGED <<setup, users, lastId, issued, expired, token, call>>

\* A request is built with the token of this moment.
Send(d) ==
    /\ call[d] = IdleCall
    /\ token[d] # NoToken
    /\ call' = [call EXCEPT ![d] = [phase |-> "sent", token |-> token[d]]]
    /\ UNCHANGED <<setup, users, lastId, issued, expired, token, login>>

\* parse: whatever token is there now goes away with the answer X-Kicked, and
\* stays with any other.
TakeAnswer(d) ==
    /\ call[d].phase \in {"kicked", "done"}
    /\ token' = IF call[d].phase = "kicked" THEN [token EXCEPT ![d] = NoToken] ELSE token
    /\ call' = [call EXCEPT ![d] = IdleCall]
    /\ UNCHANGED <<setup, users, lastId, issued, expired, login>>

\* The request or its answer is lost.
LoseCall(d) ==
    /\ call[d] # IdleCall
    /\ call' = [call EXCEPT ![d] = IdleCall]
    /\ UNCHANGED <<setup, users, lastId, issued, expired, token, login>>

\* The button: only the app forgets.
Logout(d) ==
    /\ token[d] # NoToken
    /\ token' = [token EXCEPT ![d] = NoToken]
    /\ UNCHANGED <<setup, users, lastId, issued, expired, login, call>>

-----------------------------------------------------------------------------
\* One account may be older than the column session_id, and devices may hold
\* tokens of that time.
Init ==
    /\ setup \in Setups
    /\ \/ /\ users = [p \in Phones |-> NoRow]
          /\ token = [d \in Devices |-> NoToken]
          /\ lastId = 0
       \/ \E o \in Phones :
             /\ users = [p \in Phones |-> IF p = o THEN [id |-> 1, sid |-> 0] ELSE NoRow]
             /\ token \in [Devices -> {NoToken, [id |-> 1, sid |-> 0, phone |-> o]}]
             /\ lastId = 1
    /\ issued = 0
    /\ expired = 0
    /\ login = [s \in Logins |-> IdleLogin]
    /\ call = [d \in Devices |-> IdleCall]

Next ==
    \/ \E s \in Logins :
          \/ \E d \in Devices, o \in Phones :
                Register(s, d, o) \/ LoginAtOnce(s, d, o) \/ BeginLogin(s, d, o)
          \/ FinishLogin(s) \/ LoginFails(s) \/ TakeToken(s) \/ GiveUpLogin(s)
    \/ \E d \in Devices :
          \/ Send(d) \/ Admit(d) \/ DeleteAccount(d) \/ TakeAnswer(d) \/ LoseCall(d) \/ Logout(d)
    \/ Expire
    \/ Restart

Spec == Init /\ [][Next]_vars

\* Requests of the app's periodic work are made and answered; see SmsCode and
\* UploadQueue for the others.
FairSpec ==
    Spec /\ \A d \in Devices : /\ WF_vars(Send(d)) /\ WF_vars(Admit(d))
                               /\ WF_vars(DeleteAccount(d)) /\ WF_vars(TakeAnswer(d))

-----------------------------------------------------------------------------
(* Correctness.                                                            *)

\* The tokens that are kept somewhere.
Around == ({token[d] : d \in Devices}
           \cup {login[s].token : s \in {l \in Logins : login[l].phase = "answered"}}
           \cup {call[d].token : d \in {c \in Devices : call[c].phase # "idle"}}) \ {NoToken}

\* Types; no two accounts have one id or one session, and sessions are those
\* that were issued.
TypeOK ==
    /\ setup \in Setups
    /\ users \in [Phones -> Row]
    /\ lastId \in Nat /\ issued \in 0..MaxSessions /\ expired \in 0..MaxSessions + 1
    /\ token \in [Devices -> Token \cup {NoToken}]
    /\ login \in [Logins -> Login]
    /\ call \in [Devices -> Call]
    /\ \A p \in Live : users[p].id # 0 /\ users[p].sid <= issued
    /\ \A p, q \in Live : p # q => /\ users[p].id # users[q].id
                                   /\ users[p].sid = users[q].sid => users[p].sid = 0
    /\ \A t \in Around : t.sid <= issued

Served(t) == t # NoToken /\ Verdict(t) = "admitted"

\* One device at a time: of the tokens with a session that the server lets pass,
\* no two are for one account, wherever they are kept (auth.py:60).
OneDeviceEach ==
    \A d, e \in Devices :
        /\ Served(token[d]) /\ token[d].sid # 0
        /\ Served(token[e]) /\ token[e].sid # 0
        /\ token[d].id = token[e].id
        => d = e

\* A token never opens the account of somebody else, although the id it names may
\* have been given again: the session tells the two apart.  It cannot for tokens
\* without a session, nor if a login may wait while ids are given again.
NoImpersonation ==
    \A t \in Around, p \in Phones :
        /\ Served(t) /\ Names(t, p)
        /\ setup.reuse => t.sid # 0 /\ ~ setup.awaits
        => t.phone = p

\* An answer takes a token that is neither superseded nor unknown from a device
\* only if the device has logged in again since it sent the request: a late 401.
KickedForGood ==
    [][\A d \in Devices :
          /\ TakeAnswer(d)
          /\ token[d] # NoToken /\ token'[d] = NoToken
          /\ Known(token[d]) /\ ~ Superseded(token[d])
          => call[d].token # token[d]]_vars

\* A device whose session was taken over learns so and forgets its token, unless
\* the account or the token ends before, once answers are no longer lost.  (To
\* lose an answer that changes nothing comes to the same as taking it.)
Calm == <>[][~ Restart /\ \A d \in Devices : LoseCall(d) => TakeAnswer(d)]_vars
TakenOver(d) == token[d] # NoToken /\ Known(token[d]) /\ Superseded(token[d])
KickedInTheEnd == Calm => \A d \in Devices : TakenOver(d) ~> ~ TakenOver(d)
=============================================================================

------------------------------- MODULE Family -------------------------------
(***************************************************************************)
(* The family-group service: server/app/api/family.py, the account         *)
(* deletion of server/app/api/auth.py, the authentication dependency of    *)
(* server/app/core/deps.py and the tables of server/app/models.py that     *)
(* these handlers read and write.                                          *)
(*                                                                         *)
(* A request has two moments.  Its dependencies (get_db, get_current_user) *)
(* run in a worker thread and open the request's database session; its     *)
(* body runs later, alone, on the event loop, because no handler of        *)
(* family.py awaits.  Between the two moments other requests may commit.   *)
(* With MySQL (default isolation REPEATABLE READ, nothing in database.py   *)
(* changes it) every SELECT of that session returns the state of the first *)
(* moment, while writes and key constraints act on the current state; with *)
(* the SQLite fallback a SELECT returns the current state.  SnapshotReads  *)
(* says which of the two databases is in use.                              *)
(*                                                                         *)
(* A user stands for a phone number and the account registered for it.     *)
(***************************************************************************)
EXTENDS Naturals, FiniteSets

CONSTANTS
    Users,          \* phone numbers, with their accounts
    Families,       \* ids of rows of the table families
    Invites,        \* ids of rows of the table family_invitations
    Reqs,           \* slots for requests in flight
    NoUser, NoFamily, NoInvite, Idle,   \* absent values
    SnapshotReads   \* TRUE: MySQL, FALSE: the SQLite fallback

ASSUME FamilyAssumption ==
    /\ NoUser \notin Users
    /\ NoFamily \notin Families
    /\ NoInvite \notin Invites
    /\ SnapshotReads \in BOOLEAN

VARIABLES
    live,       \* accounts that exist (table users)
    creator,    \* families.creator_id, NoUser while the id is unused
    open,       \* families with is_active = TRUE
    member,     \* family_members: no row, is_active TRUE, is_active FALSE
    inv,        \* family_invitations
    inviters,   \* users some family_invitations.inviter_id refers to
    unread,     \* users with an unread row in the table notifications
    req,        \* requests between their dependencies and their body
    raced       \* for the properties: users whose joining was raced for

tables == <<live, creator, open, member, inv, inviters, unread>>
vars == <<tables, req, raced>>

Membership == {"none", "active", "left"}

\* Status 0 is "pending" before expire_at and "overdue" after it.
Status == {"pending", "overdue", "accepted", "rejected", "expired"}

\* The absent invitation is a row of its own, so that a field of inv[i] may
\* be read before the row is known to exist.
Invitation == [family : Families \cup {NoFamily}, phone : Users \cup {NoUser},
               status : Status]
Unused == [family |-> NoFamily, phone |-> NoUser, status |-> "pending"]

Ops == {"create", "invite", "accept", "reject", "leave", "remove", "delete",
        "read"}

\* "unread" until the handler's SELECTs have answered.
Verdict == {"unread", "refuse", "expire", "act"}

Request == [op : Ops, user : Users, family : Families \cup {NoFamily},
            peer : Users \cup {NoUser}, invite : Invites \cup {NoInvite},
            verdict : Verdict]

Call(op, u, f, p, i) == [op |-> op, user |-> u, family |-> f, peer |-> p,
                         invite |-> i, verdict |-> "unread"]

\* What a client of user u can send.
Calls(u) ==
    {Call(op, u, NoFamily, NoUser, NoInvite) :
        op \in {"create", "leave", "delete", "read"}}
    \cup {Call("invite", u, f, p, NoInvite) : f \in Families, p \in Users}
    \cup {Call("remove", u, NoFamily, p, NoInvite) : p \in Users}
    \cup {Call(op, u, NoFamily, NoUser, i) : op \in {"accept", "reject"}, i \in Invites}

Exists(i) == inv[i] # Unused
FamiliesOf(u) == {f \in Families : member[f][u] = "active"}
Active(f) == {u \in Users : member[f][u] = "active"}

-----------------------------------------------------------------------------
(* What the SELECTs of a handler return, and so what it decides.           *)

Decide(q, ok) == [q EXCEPT !.verdict = IF ok THEN "act" ELSE "refuse"]

CreateReads(q) == Decide(q, FamiliesOf(q.user) = {})

\* Slip: the pending invitation is not looked for.
InviteReads_Again(q) ==
    Decide(q, /\ q.family \in open
              /\ member[q.family][q.user] = "active"
              /\ q.peer # q.user
              /\ q.peer \in live
              /\ FamiliesOf(q.peer) = {})

\* Slip: the invitee's memberships are not looked at.
InviteReads_Anyone(q) ==
    Decide(q, /\ q.family \in open
              /\ member[q.family][q.user] = "active"
              /\ q.peer # q.user
              /\ \A i \in Invites : ~ /\ inv[i].family = q.family
                                      /\ inv[i].phone = q.peer
                                      /\ inv[i].status = "pending"
              /\ q.peer \in live)

InviteReads(q) ==
    Decide(q, /\ q.family \in open
              /\ member[q.family][q.user] = "active"
              /\ q.peer # q.user
              /\ \A i \in Invites : ~ /\ inv[i].family = q.family
                                      /\ inv[i].phone = q.peer
                                      /\ inv[i].status = "pending"
              /\ q.peer \in live
              /\ FamiliesOf(q.peer) = {})

\* Slip: a member of another family may accept.
AcceptReads_Member(q) ==
    LET row == inv[q.invite]
    IN  IF \/ ~ Exists(q.invite)
           \/ row.status # "pending"
           \/ row.phone # q.user
        THEN Decide(q, FALSE)
        ELSE Decide([q EXCEPT !.family = row.family], TRUE)

AcceptReads(q) ==
    LET row == inv[q.invite]
        mine == [q EXCEPT !.family = row.family]
    IN  IF \/ ~ Exists(q.invite)
           \/ row.status \notin {"pending", "overdue"}
           \/ row.phone # q.user
        THEN Decide(q, FALSE)
        ELSE IF row.status = "overdue"
             THEN [mine EXCEPT !.verdict = "expire"]
             ELSE Decide(mine, FamiliesOf(q.user) = {})

\* The handler looks at no status; a row that is rejected already is not
\* written again.
RejectReads(q) ==
    Decide(q, /\ Exists(q.invite)
              /\ inv[q.invite].phone = q.user
              /\ inv[q.invite].status # "rejected")

\* The first active membership, whichever the query returns first.
OwnFamily(q) ==
    IF FamiliesOf(q.user) = {} THEN {[q EXCEPT !.family = NoFamily]}
    ELSE {[q EXCEPT !.family = f] : f \in FamiliesOf(q.user)}

LeaveReads(q) == {Decide(x, x.family # NoFamily) : x \in OwnFamily(q)}

\* Slip: the creator may remove himself.
RemoveReads_Self(q) ==
    {Decide(x, /\ x.family # NoFamily
               /\ creator[x.family] = x.user
               /\ member[x.family][x.peer] = "active") : x \in OwnFamily(q)}

\* Slip: any member may remove another.
RemoveReads_Member(q) ==
    {Decide(x, /\ x.family # NoFamily
               /\ x.peer # x.user
               /\ member[x.family][x.peer] = "active") : x \in OwnFamily(q)}

RemoveReads(q) ==
    {Decide(x, /\ x.family # NoFamily
               /\ creator[x.family] = x.user
               /\ x.peer # x.user
               /\ member[x.family][x.peer] = "active") : x \in OwnFamily(q)}

Readings(q) ==
    CASE q.op = "create" -> {CreateReads(q)}
      [] q.op = "invite" -> {InviteReads(q)}
      [] q.op = "accept" -> {AcceptReads(q)}
      [] q.op = "reject" -> {RejectReads(q)}
      [] q.op = "leave"  -> LeaveReads(q)
      [] q.op = "remove" -> RemoveReads(q)
      [] OTHER           -> {Decide(q, TRUE)}

-----------------------------------------------------------------------------
(* The two moments of a request.                                           *)

\* get_current_user: the account exists; the session's snapshot is taken.
Begin(r) ==
    /\ req[r] = Idle
    /\ \E u \in live : \E q \in Calls(u) :
         \E x \in (IF SnapshotReads THEN Readings(q) ELSE {q}) :
            req' = [req EXCEPT ![r] = x]
    /\ UNCHANGED <<tables, raced>>

\* The request as its body sees it.
Body(r) == IF req[r] = Idle THEN {}
           ELSE IF SnapshotReads THEN {req[r]}
           ELSE Readings(req[r])

Acting(r, op) == {q \in Body(r) : q.op = op /\ q.verdict = "act"}

Finish(r) == req' = [req EXCEPT ![r] = Idle]

\* Whom a request makes a member, or invites.
About(q) == IF q.op = "invite" THEN q.peer ELSE q.user

\* What one of them writes is what the other has found missing: a membership of
\* the user in whatever family, or a membership or invitation in the same one.
Compete(q, x) ==
    /\ {q.op, x.op} \subseteq {"create", "invite", "accept"}
    /\ About(q) = About(x)
    /\ "invite" \in {q.op, x.op} => q.family = x.family

\* For the properties: q commits while a request that competes with it is about
\* to act on an older reading.
Contend(r, q) ==
    raced' = IF \E s \in Reqs \ {r} : /\ req[s] # Idle
                                      /\ req[s].verdict = "act"
                                      /\ Compete(q, req[s])
             THEN raced \cup {About(q)} ELSE raced

\* push_service.notify runs in a transaction of its own after the commit of
\* the handler: it may fail, or refer to an account that is gone by then.
Notify(us) == \/ us \subseteq live /\ unread' = unread \cup us
              \/ UNCHANGED unread

-----------------------------------------------------------------------------
(* The bodies.                                                             *)

CreateFamily(r) ==
    \E q \in Acting(r, "create") : \E f \in Families :
        /\ q.user \in live
        /\ creator[f] = NoUser
        /\ creator' = [creator EXCEPT ![f] = q.user]
        /\ open' = open \cup {f}
        /\ member' = [member EXCEPT ![f][q.user] = "active"]
        /\ Finish(r)
        /\ Contend(r, q)
        /\ UNCHANGED <<live, inv, inviters, unread>>

\* Slip: an earlier invitation is written over.
InviteMember_Reuse(r) ==
    \E q \in Acting(r, "invite") : \E i \in Invites :
        /\ q.user \in live
        /\ inv' = [inv EXCEPT ![i] = [family |-> q.family, phone |-> q.peer,
                                      status |-> "pending"]]
        /\ inviters' = inviters \cup {q.user}
        /\ Notify({q.peer})
        /\ Finish(r)
        /\ Contend(r, q)
        /\ UNCHANGED <<live, creator, open, member>>

InviteMember(r) ==
    \E q \in Acting(r, "invite") : \E i \in Invites :
        /\ q.user \in live
        /\ ~ Exists(i)
        /\ inv' = [inv EXCEPT ![i] = [family |-> q.family, phone |-> q.peer,
                                      status |-> "pending"]]
        /\ inviters' = inviters \cup {q.user}
        /\ Notify({q.peer})
        /\ Finish(r)
        /\ Contend(r, q)
        /\ UNCHANGED <<live, creator, open, member>>

AcceptInvitation(r) ==
    \E q \in Acting(r, "accept") :
        /\ q.user \in live
        /\ member[q.family][q.user] = "none"    \* the primary key
        /\ member' = [member EXCEPT ![q.family][q.user] = "active"]
        /\ inv' = [inv EXCEPT ![q.invite].status = "accepted"]
        /\ Notify(Active(q.family) \ {q.user})
        /\ Finish(r)
        /\ Contend(r, q)
        /\ UNCHANGED <<live, creator, open, inviters>>

AcceptTooLate(r) ==
    \E q \in Body(r) :
        /\ q.verdict = "expire"
        /\ inv' = [inv EXCEPT ![q.invite].status = "expired"]
        /\ Finish(r)
        /\ UNCHANGED <<live, creator, open, member, inviters, unread, raced>>

RejectInvitation(r) ==
    \E q \in Acting(r, "reject") :
        /\ inv' = [inv EXCEPT ![q.invite].status = "rejected"]
        /\ Finish(r)
        /\ UNCHANGED <<live, creator, open, member, inviters, unread, raced>>

LeaveFamily(r) ==
    \E q \in Acting(r, "leave") :
        /\ member[q.family][q.user] # "none"
        /\ member' = [member EXCEPT ![q.family][q.user] = "left"]
        /\ open' = IF creator[q.family] = q.user THEN open \ {q.family} ELSE open
        /\ Notify(Active(q.family) \ {q.user})
        /\ Finish(r)
        /\ UNCHANGED <<live, creator, inv, inviters, raced>>

RemoveMember(r) ==
    \E q \in Acting(r, "remove") :
        /\ member[q.family][q.peer] # "none"
        /\ member' = [member EXCEPT ![q.family][q.peer] = "left"]
        /\ Notify({q.peer})
        /\ Finish(r)
        /\ UNCHANGED <<live, creator, open, inv, inviters, raced>>

\* The rows of families and family_invitations that refer to a user.
Referenced(u) == u \in inviters \/ \E f \in Families : creator[f] = u

\* Slip: the membership rows are forgotten.
DeleteAccount_KeepRows(r) ==
    \E q \in Acting(r, "delete") :
        /\ ~ Referenced(q.user)
        /\ live' = live \ {q.user}
        /\ unread' = unread \ {q.user}
        /\ Finish(r)
        /\ UNCHANGED <<creator, open, member, inv, inviters, raced>>

DeleteAccount(r) ==
    \E q \in Acting(r, "delete") :
        /\ ~ Referenced(q.user)
        /\ live' = live \ {q.user}
        /\ member' = [f \in Families |-> [member[f] EXCEPT ![q.user] = "none"]]
        /\ unread' = unread \ {q.user}
        /\ Finish(r)
        /\ UNCHANGED <<creator, open, inv, inviters, raced>>

MarkRead(r) ==
    \E q \in Acting(r, "read") :
        /\ unread' = unread \ {q.user}
        /\ Finish(r)
        /\ UNCHANGED <<live, creator, open, member, inv, inviters, raced>>

\* A write that a key constraint refuses, or an UPDATE whose row is gone.
ConstraintFails(q) ==
    \/ q.op \in {"create", "invite", "accept"} /\ q.user \notin live
    \/ q.op = "accept" /\ member[q.family][q.user] # "none"
    \/ q.op = "leave" /\ member[q.family][q.user] = "none"
    \/ q.op = "remove" /\ member[q.family][q.peer] = "none"
    \/ q.op = "delete" /\ Referenced(q.user)

\* An early return, or an exception and the rollback: nothing changes.
Fail(r) ==
    /\ \E q \in Body(r) : \/ q.verdict = "refuse"
                          \/ q.verdict = "act" /\ ConstraintFails(q)
    /\ Finish(r)
    /\ UNCHANGED <<tables, raced>>

-----------------------------------------------------------------------------
(* What happens around the requests.                                       *)

\* Registration, which waits for an SMS code: no request of an earlier account
\* of this number, or naming it, is still in flight.
Register(u) ==
    /\ u \notin live
    /\ \A r \in Reqs : req[r] # Idle => u \notin {req[r].user, req[r].peer}
    /\ live' = live \cup {u}
    /\ UNCHANGED <<creator, open, member, inv, inviters, unread, req, raced>>

\* The 48 hours of an invitation pass.
Lapse(i) ==
    /\ Exists(i)
    /\ inv[i].status = "pending"
    /\ inv' = [inv EXCEPT ![i].status = "overdue"]
    /\ UNCHANGED <<live, creator, open, member, inviters, unread, req, raced>>

\* The server stops and starts again: the requests in flight are lost.
Restart ==
    /\ req' = [r \in Reqs |-> Idle]
    /\ UNCHANGED <<tables, raced>>

Init ==
    /\ live = {}
    /\ creator = [f \in Families |-> NoUser]
    /\ open = {}
    /\ member = [f \in Families |-> [u \in Users |-> "none"]]
    /\ inv = [i \in Invites |-> Unused]
    /\ inviters = {}
    /\ unread = {}
    /\ req = [r \in Reqs |-> Idle]
    /\ raced = {}

Next ==
    \/ \E r \in Reqs :
          \/ Begin(r)
          \/ CreateFamily(r)
          \/ InviteMember(r)
          \/ AcceptInvitation(r)
          \/ AcceptTooLate(r)
          \/ RejectInvitation(r)
          \/ LeaveFamily(r)
          \/ RemoveMember(r)
          \/ DeleteAccount(r)
          \/ MarkRead(r)
          \/ Fail(r)
    \/ \E u \in Users : Register(u)
    \/ \E i \in Invites : Lapse(i)
    \/ Restart

Spec == Init /\ [][Next]_vars

-----------------------------------------------------------------------------
(* Correctness.                                                            *)

\* What a request of each kind names.
Formed(q) ==
    /\ q \in Request
    /\ q.op \in {"invite", "remove"} => q.peer \in Users
    /\ q.op \in {"accept", "reject"} => q.invite \in Invites
    /\ q.op = "invite" => q.family \in Families
    /\ q.op \in {"accept", "leave", "remove"} /\ q.verdict = "act" => q.family \in Families
    /\ q.verdict = "expire" => q.op = "accept"

\* Types; and a request that is about to act on a family has one.
TypeOK ==
    /\ live \in SUBSET Users
    /\ creator \in [Families -> Users \cup {NoUser}]
    /\ open \in SUBSET Families
    /\ member \in [Families -> [Users -> Membership]]
    /\ inv \in [Invites -> Invitation]
    /\ inviters \in SUBSET Users
    /\ unread \in SUBSET Users
    /\ req \in [Reqs -> Request \cup {Idle}]
    /\ raced \in SUBSET Users
    /\ \A r \in Reqs : req[r] # Idle => Formed(req[r])

\* What a verdict rests on that nothing may take back between the SELECTs and
\* the writes.  (Memberships and the status of an invitation may change.)
Grounded(q) ==
    /\ q.verdict = "expire" => Exists(q.invite)
    /\ q.verdict = "act" =>
          /\ q.op = "invite" => creator[q.family] # NoUser
          /\ q.op = "accept" => /\ inv[q.invite].family = q.family
                                /\ inv[q.invite].phone = q.user
          /\ q.op = "reject" => Exists(q.invite)
          /\ q.op = "remove" => creator[q.family] = q.user /\ q.peer # q.user

\* A request that acts on an old reading still acts on the invitation, for the
\* user and with the rights of that reading, whatever committed meanwhile.
VerdictsHold == \A r \in Reqs : req[r] # Idle => Grounded(req[r])

OneFamily(u) == \A f, g \in FamiliesOf(u) : f = g

\* The comment at create_family (family.py:59): a user belongs to one family group
\* only.  With the readings of a snapshot it is not so.
OneFamilyEach == \A u \in Users : OneFamily(u)

\* It takes two requests of the user himself, each to create or to join a group,
\* one of which commits between the reading and the writing of the other.
\* Nothing that others do, and no order of leaving, removal, deletion, expiry and
\* restart, brings anybody into a second family.
OneFamilyUnlessRaced == \A u \in Users \ raced : OneFamily(u)

\* No row outlives what it refers to: a membership needs its account and its
\* family, a family its creator, an invitation its inviter and its family, an
\* unread notification its reader.  The deletion of an account must either
\* take all of its rows along or fail.
NoDanglingRows ==
    /\ \A f \in Families, u \in Users :
          member[f][u] # "none" => u \in live /\ creator[f] # NoUser
    /\ \A f \in Families : creator[f] # NoUser => creator[f] \in live
    /\ \A i \in Invites :
          Exists(i) => /\ inv[i].family \in Families /\ inv[i].phone \in Users
                       /\ creator[inv[i].family] # NoUser
    /\ open \subseteq {f \in Families : creator[f] # NoUser}
    /\ inviters \subseteq live
    /\ unread \subseteq live

\* Nobody becomes a member of a family he did not create unless that family
\* sent an invitation to his own number, and he has answered it.
MembersWereInvited ==
    \A f \in Families, u \in Users :
        member[f][u] # "none" /\ creator[f] # u =>
            \E i \in Invites : /\ inv[i].family = f
                              /\ inv[i].phone = u
                              /\ inv[i].status \notin {"pending", "overdue"}

\* A family group is open exactly as long as its creator is a member: he
\* cannot be removed, and the group is dissolved when he leaves.  His row stays.
CreatorStays ==
    \A f \in Families : creator[f] # NoUser =>
        /\ member[f][creator[f]] # "none"
        /\ f \in open <=> member[f][creator[f]] = "active"

\* Invitations of u that wait.
Pending(u) == {i \in Invites : /\ Exists(i)
                               /\ inv[i].phone = u
                               /\ inv[i].status = "pending"}

OnePending(u) == \A i, j \in Pending(u) : inv[i].family = inv[j].family => i = j

\* The check of invite_member (family.py:92): one invitation waits for a family
\* and number, unless two invitations of the two, or one and its acceptance,
\* overlapped.
OnePendingUnlessRaced == \A u \in Users \ raced : OnePending(u)

NoneForMember(u) == \A i \in Pending(u) : member[inv[i].family][u] # "active"

\* Nor does an invitation wait for somebody who is a member of that very family,
\* though it may lapse, or be sent again, while its acceptance is under way.
NoneForMemberUnlessRaced == \A u \in Users \ raced : NoneForMember(u)

\* A membership ends only by a request of the member or of the family's
\* creator (leave_family, remove_member, delete_account).
EndsRightfully ==
    \A f \in Families, u \in Users :
        member[f][u] = "active" /\ member'[f][u] # "active" =>
            \E r \in Reqs : /\ req[r] # Idle
                           /\ req'[r] = Idle
                           /\ req[r].user \in {u, creator[f]}
OnlySelfOrCreatorEnds == [][EndsRightfully]_vars
=============================================================================

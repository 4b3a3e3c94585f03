---------------------------- MODULE FamilyProofs ----------------------------
(***************************************************************************)
(* Proofs about Family: what holds with either database, and what holds    *)
(* besides when a SELECT sees the current state.                           *)
(***************************************************************************)
EXTENDS Family, TLAPS

\* Whatever the SELECTs answer, the request keeps its kind and its user, names
\* what its kind names, and its verdict rests on the tables.
LEMMA ReadingsGood ==
    ASSUME TypeOK, NoDanglingRows, NEW q, Formed(q), NEW x \in Readings(q)
    PROVE  Formed(x) /\ Grounded(x) /\ x.op = q.op /\ x.user = q.user
<1> USE FamilyAssumption
<1>0. /\ q \in Request
      /\ q.op \in Ops
  BY DEF Formed, Request
<1>1. CASE q.op \in {"create", "delete", "read"}
  <2>1. \E v \in {"act", "refuse"} : x = [q EXCEPT !.verdict = v]
    BY <1>1 DEF Readings, CreateReads, Decide
  <2>2. x \in Request /\ x.op = q.op /\ x.user = q.user /\ x.verdict \in {"act", "refuse"}
    BY <1>0, <2>1 DEF Request, Verdict
  <2>. QED BY <1>1, <2>2 DEF Formed, Grounded
<1>2. CASE q.op = "invite"
  <2>1. x = InviteReads(q)
    BY <1>2 DEF Readings
  <2>. QED BY <1>0, <1>2, <2>1
           DEF InviteReads, Decide, Formed, Grounded, Request, Verdict, TypeOK, NoDanglingRows
<1>3. CASE q.op = "accept"
  <2>1. x = AcceptReads(q)
    BY <1>3 DEF Readings
  <2>. QED BY <1>0, <1>3, <2>1
           DEF AcceptReads, Decide, Formed, Grounded, Request, Verdict, TypeOK, NoDanglingRows, Exists, Invitation
<1>4. CASE q.op = "reject"
  <2>1. x = RejectReads(q)
    BY <1>4 DEF Readings
  <2>. QED BY <1>0, <1>4, <2>1
           DEF RejectReads, Decide, Formed, Grounded, Request, Verdict
<1>5. CASE q.op \in {"leave", "remove"}
  <2>1. PICK y \in OwnFamily(q) : \/ q.op = "leave" /\ x = Decide(y, y.family # NoFamily)
                                  \/ q.op = "remove" /\ x = Decide(y, /\ y.family # NoFamily
                                        /\ creator[y.family] = y.user
                                        /\ y.peer # y.user
                                        /\ member[y.family][y.peer] = "active")
    BY <1>5 DEF Readings, LeaveReads, RemoveReads
  <2>2. /\ y \in Request /\ y.op = q.op /\ y.user = q.user /\ y.peer = q.peer
        /\ y.invite = q.invite
    BY <1>0 DEF OwnFamily, FamiliesOf, Request
  <2>3. /\ x \in Request /\ x.op = q.op /\ x.user = q.user /\ x.peer = q.peer
        /\ x.invite = q.invite /\ x.verdict \in {"act", "refuse"}
        /\ x.verdict = "act" => x.family \in Families
        /\ x.verdict = "act" /\ q.op = "remove" =>
                creator[x.family] = x.user /\ x.peer # x.user
    BY <2>1, <2>2 DEF Decide, Request, Verdict
  <2>. QED BY <1>5, <2>2, <2>3 DEF Formed, Grounded
<1>. QED BY <1>0, <1>1, <1>2, <1>3, <1>4, <1>5 DEF Ops


-----------------------------------------------------------------------------
(* The inductive invariant.  The verdicts of the requests in flight tie    *)
(* the rows they are about to write to the rows they have read.            *)

IInv == TypeOK /\ NoDanglingRows /\ CreatorStays /\ MembersWereInvited /\ VerdictsHold

\* The request as its body sees it is well formed and rests on the tables.
LEMMA BodyGood ==
    ASSUME TypeOK, NoDanglingRows, VerdictsHold, NEW r \in Reqs, NEW q \in Body(r)
    PROVE  /\ req[r] # Idle
           /\ Formed(q) /\ Grounded(q)
           /\ q.op = req[r].op /\ q.user = req[r].user
<1>1. req[r] # Idle /\ Formed(req[r]) /\ Grounded(req[r])
  BY DEF Body, TypeOK, VerdictsHold
<1>2. CASE SnapshotReads
  BY <1>1, <1>2 DEF Body
<1>3. CASE ~ SnapshotReads
  <2>1. q \in Readings(req[r])
    BY <1>1, <1>3 DEF Body
  <2>. QED BY <1>1, <2>1, ReadingsGood
<1>. QED BY <1>2, <1>3

\* A request that ends leaves the others as they are.
LEMMA FinishKeeps ==
    ASSUME TypeOK, NEW r \in Reqs, Finish(r)
    PROVE  /\ req' \in [Reqs -> Request \cup {Idle}]
           /\ \A s \in Reqs : req'[s] # Idle => req'[s] = req[s]
           /\ req'[r] = Idle
BY DEF TypeOK, Finish

\* Formed is about the request alone.
LEMMA FormedKept ==
    ASSUME TypeOK, req' \in [Reqs -> Request \cup {Idle}],
           \A s \in Reqs : req'[s] # Idle => req'[s] = req[s]
    PROVE  \A s \in Reqs : req'[s] # Idle => Formed(req'[s])
BY DEF TypeOK

\* What no step takes back: who created a family, whom and to which family an
\* invitation invites, that it has been answered, and who has been raced for.
Persist ==
    /\ raced \subseteq raced' /\ raced' \subseteq Users
    /\ \A f \in Families : creator[f] # NoUser => creator'[f] = creator[f]
    /\ \A i \in Invites : Exists(i) =>
          /\ inv'[i].family = inv[i].family
          /\ inv'[i].phone = inv[i].phone
          /\ inv[i].status \notin {"pending", "overdue"} =>
                inv'[i].status \notin {"pending", "overdue"}

\* Writing the status of a row is all that happens to an invitation.
LEMMA StatusOnly ==
    ASSUME TypeOK, NEW i \in Invites, NEW st \in Status,
           inv' = [inv EXCEPT ![i].status = st]
    PROVE  /\ inv' \in [Invites -> Invitation]
           /\ \A j \in Invites : /\ inv'[j].family = inv[j].family
                                 /\ inv'[j].phone = inv[j].phone
                                 /\ j # i => inv'[j] = inv[j]
           /\ inv'[i].status = st
BY DEF TypeOK, Invitation

\* Only users are raced for, and they stay so.
LEMMA RacedGrows ==
    ASSUME IInv, [Next]_vars
    PROVE  raced \subseteq raced' /\ raced' \subseteq Users
<1>1. ASSUME NEW r \in Reqs, NEW q \in Body(r), q.op \in {"create", "invite", "accept"},
             Contend(r, q)
      PROVE  raced \subseteq raced' /\ raced' \subseteq Users
  <2>1. About(q) \in Users
    BY <1>1, BodyGood DEF IInv, Formed, Request, About
  <2>. QED BY <1>1, <2>1 DEF Contend, IInv, TypeOK
<1>2. ASSUME NEW r \in Reqs, CreateFamily(r) \/ InviteMember(r) \/ AcceptInvitation(r)
      PROVE  raced \subseteq raced' /\ raced' \subseteq Users
  <2>1. \E q \in Body(r) : q.op \in {"create", "invite", "accept"} /\ Contend(r, q)
    BY <1>2 DEF CreateFamily, InviteMember, AcceptInvitation, Acting
  <2>. QED BY <1>1, <2>1
<1>3. UNCHANGED raced => raced \subseteq raced' /\ raced' \subseteq Users
  BY DEF IInv, TypeOK
<1>. QED
  BY <1>2, <1>3
     DEF Next, vars, Begin, AcceptTooLate, RejectInvitation, LeaveFamily, RemoveMember,
         DeleteAccount, MarkRead, Fail, Register, Lapse, Restart

\* No step takes these back.
LEMMA Persistence ==
    ASSUME IInv, [Next]_vars
    PROVE  Persist
<1> USE FamilyAssumption DEF IInv
<1>0. raced \subseteq raced' /\ raced' \subseteq Users
  BY RacedGrows
<1>1. ASSUME NEW r \in Reqs, CreateFamily(r) PROVE Persist
  <2>1. PICK q \in Acting(r, "create") : \E f \in Families :
            creator[f] = NoUser /\ creator' = [creator EXCEPT ![f] = q.user] /\ inv' = inv
    BY <1>1 DEF CreateFamily
  <2>. QED BY <1>0, <2>1 DEF Persist, TypeOK
<1>2. ASSUME NEW r \in Reqs, InviteMember(r) PROVE Persist
  <2>1. PICK i \in Invites : /\ ~ Exists(i)
                             /\ \A j \in Invites : j # i => inv'[j] = inv[j]
                             /\ creator' = creator
    BY <1>2 DEF InviteMember, TypeOK
  <2>. QED BY <1>0, <2>1 DEF Persist
<1>3. ASSUME NEW r \in Reqs, AcceptInvitation(r) PROVE Persist
  <2>1. PICK q \in Acting(r, "accept") : /\ inv' = [inv EXCEPT ![q.invite].status = "accepted"]
                                         /\ creator' = creator
    BY <1>3 DEF AcceptInvitation
  <2>2. q.invite \in Invites
    BY BodyGood DEF Acting, Formed
  <2>. QED BY <1>0, <2>1, <2>2, StatusOnly DEF Persist, Status
<1>4. ASSUME NEW r \in Reqs, AcceptTooLate(r) PROVE Persist
  <2>1. PICK q \in Body(r) : /\ q.verdict = "expire"
                             /\ inv' = [inv EXCEPT ![q.invite].status = "expired"]
                             /\ creator' = creator
    BY <1>4 DEF AcceptTooLate
  <2>2. q.invite \in Invites
    BY <2>1, BodyGood DEF Formed
  <2>. QED BY <1>0, <2>1, <2>2, StatusOnly DEF Persist, Status
<1>5. ASSUME NEW r \in Reqs, RejectInvitation(r) PROVE Persist
  <2>1. PICK q \in Acting(r, "reject") : /\ inv' = [inv EXCEPT ![q.invite].status = "rejected"]
                                         /\ creator' = creator
    BY <1>5 DEF RejectInvitation
  <2>2. q.invite \in Invites
    BY BodyGood DEF Acting, Formed
  <2>. QED BY <1>0, <2>1, <2>2, StatusOnly DEF Persist, Status
<1>6. ASSUME NEW i \in Invites, Lapse(i) PROVE Persist
  <2>1. inv' = [inv EXCEPT ![i].status = "overdue"] /\ creator' = creator
    BY <1>6 DEF Lapse
  <2>. QED BY <1>0, <1>6, <2>1, StatusOnly DEF Persist, Status, Lapse
<1>7. ASSUME UNCHANGED <<creator, inv>> PROVE Persist
  BY <1>0, <1>7 DEF Persist
<1>. QED
  BY <1>1, <1>2, <1>3, <1>4, <1>5, <1>6, <1>7
     DEF Next, vars, tables, Begin, LeaveFamily, RemoveMember, DeleteAccount, MarkRead,
         Fail, Register, Restart

\* So the verdicts of the requests that stay in flight still hold.
LEMMA GroundedKept ==
    ASSUME TypeOK, NoDanglingRows, Persist, NEW q, Formed(q), Grounded(q)
    PROVE  Grounded(q)'
<1> USE FamilyAssumption DEF Formed, Grounded, Persist, TypeOK, Exists
<1>0. \A i \in Invites : Exists(i) => Exists(i)'
  BY DEF NoDanglingRows, Unused
<1>1. CASE q.verdict = "expire"
  BY <1>0, <1>1
<1>2. CASE q.verdict = "act" /\ q.op = "invite"
  BY <1>2
<1>3. CASE q.verdict = "act" /\ q.op = "accept"
  <2>1. inv[q.invite] # Unused
    BY <1>3 DEF Unused
  <2>. QED BY <1>3, <2>1
<1>4. CASE q.verdict = "act" /\ q.op = "reject"
  BY <1>0, <1>4
<1>5. CASE q.verdict = "act" /\ q.op = "remove"
  <2>1. creator[q.family] # NoUser
    BY <1>5 DEF Request
  <2>. QED BY <1>5, <2>1
<1>. QED BY <1>1, <1>2, <1>3, <1>4, <1>5


\* A step after which no request is in flight that was not before.
LEMMA RequestsKept ==
    ASSUME IInv, Persist, req' \in [Reqs -> Request \cup {Idle}],
           \A s \in Reqs : req'[s] # Idle => req'[s] = req[s]
    PROVE  /\ \A s \in Reqs : req'[s] # Idle => Formed(req'[s])
           /\ VerdictsHold'
           /\ raced' \in SUBSET Users
<1>1. \A s \in Reqs : req'[s] # Idle => Formed(req'[s])
  BY FormedKept DEF IInv
<1>2. ASSUME NEW s \in Reqs, (req[s] # Idle)'
      PROVE  Grounded(req[s])'
  <2>1. PICK q : q = req'[s]
    OBVIOUS
  <2>2. Formed(q) /\ Grounded(q)
    BY <1>2, <2>1 DEF IInv, TypeOK, VerdictsHold
  <2>3. Grounded(q)'
    BY <2>2, GroundedKept DEF IInv
  <2>. QED BY <2>1, <2>3 DEF Grounded, Exists
<1>. QED BY <1>1, <1>2 DEF VerdictsHold, Persist

\* A step that makes nobody a member but the creator.
LEMMA InvitedKept ==
    ASSUME IInv, Persist,
           \A f \in Families, u \in Users :
              member'[f][u] # "none" => member[f][u] # "none" \/ creator'[f] = u
    PROVE  MembersWereInvited'
<1> SUFFICES ASSUME NEW f \in Families, NEW u \in Users,
                    member'[f][u] # "none", creator'[f] # u
             PROVE  \E i \in Invites : /\ inv'[i].family = f
                                       /\ inv'[i].phone = u
                                       /\ inv'[i].status \notin {"pending", "overdue"}
  BY DEF MembersWereInvited
<1>1. member[f][u] # "none" /\ creator[f] # u
  BY DEF IInv, NoDanglingRows, Persist
<1>2. PICK i \in Invites : /\ inv[i].family = f
                           /\ inv[i].phone = u
                           /\ inv[i].status \notin {"pending", "overdue"}
  BY <1>1 DEF IInv, MembersWereInvited
<1>3. Exists(i)
  BY <1>2, FamilyAssumption DEF Exists, Unused
<1>. QED BY <1>2, <1>3 DEF Persist


-----------------------------------------------------------------------------
(* The invariant is inductive: one lemma per body.                         *)

LEMMA CreateKeeps ==
    ASSUME IInv, Persist, NEW r \in Reqs, CreateFamily(r)
    PROVE  IInv'
<1> USE FamilyAssumption
<1>1. PICK q \in Acting(r, "create"), f \in Families :
          /\ q.user \in live
          /\ creator[f] = NoUser
          /\ creator' = [creator EXCEPT ![f] = q.user]
          /\ open' = open \cup {f}
          /\ member' = [member EXCEPT ![f][q.user] = "active"]
          /\ Finish(r)
          /\ UNCHANGED <<live, inv, inviters, unread>>
  BY DEF CreateFamily
<1>2. q.user \in Users
  BY <1>1 DEF IInv, TypeOK
<1>3. TypeOK' /\ VerdictsHold'
  <2>1. /\ creator' \in [Families -> Users \cup {NoUser}]
        /\ open' \in SUBSET Families
        /\ member' \in [Families -> [Users -> Membership]]
    BY <1>1, <1>2 DEF IInv, TypeOK, Membership
  <2>. QED BY <1>1, <2>1, FinishKeeps, RequestsKept DEF IInv, TypeOK
<1>4. \A g \in Families, u \in Users :
          member'[g][u] = IF g = f /\ u = q.user THEN "active" ELSE member[g][u]
  BY <1>1, <1>2 DEF IInv, TypeOK
<1>5. \A g \in Families : creator'[g] = IF g = f THEN q.user ELSE creator[g]
  BY <1>1 DEF IInv, TypeOK
<1>6. NoDanglingRows'
  <2>1. \A g \in Families, u \in Users :
            member'[g][u] # "none" => u \in live' /\ creator'[g] # NoUser
    BY <1>1, <1>2, <1>4, <1>5 DEF IInv, NoDanglingRows
  <2>2. \A g \in Families : creator'[g] # NoUser => creator'[g] \in live'
    BY <1>1, <1>5 DEF IInv, NoDanglingRows
  <2>3. \A i \in Invites : Exists(i)' => /\ inv'[i].family \in Families /\ inv'[i].phone \in Users
                                         /\ creator'[inv'[i].family] # NoUser
    BY <1>1, <1>2, <1>5 DEF IInv, NoDanglingRows, Exists
  <2>4. open' \subseteq {g \in Families : creator'[g] # NoUser}
    BY <1>1, <1>2, <1>5 DEF IInv, NoDanglingRows
  <2>. QED BY <1>1, <2>1, <2>2, <2>3, <2>4 DEF IInv, NoDanglingRows
<1>7. CreatorStays'
  <2>1. ASSUME NEW g \in Families, creator'[g] # NoUser
        PROVE  /\ member'[g][creator'[g]] # "none"
               /\ g \in open' <=> member'[g][creator'[g]] = "active"
    <3>1. CASE g = f
      BY <1>1, <1>2, <1>4, <1>5, <3>1
    <3>2. CASE g # f
      <4>1. creator[g] \in Users /\ creator'[g] = creator[g]
        BY <1>5, <2>1, <3>2 DEF IInv, TypeOK
      <4>. QED BY <1>1, <1>4, <2>1, <3>2, <4>1 DEF IInv, CreatorStays
    <3>. QED BY <3>1, <3>2
  <2>. QED BY <2>1 DEF CreatorStays
<1>8. MembersWereInvited'
  BY <1>4, <1>5, InvitedKept
<1>. QED BY <1>3, <1>6, <1>7, <1>8 DEF IInv

\* A step that only writes invitations, for families that exist.
LEMMA InvitationsKeep ==
    ASSUME IInv, Persist, NEW r \in Reqs, Finish(r),
           inv' \in [Invites -> Invitation],
           \A i \in Invites : Exists(i)' => /\ inv'[i].family \in Families /\ inv'[i].phone \in Users
                                            /\ creator[inv'[i].family] # NoUser,
           inviters' \in SUBSET live, unread' \in SUBSET live,
           UNCHANGED <<live, creator, open, member>>
    PROVE  IInv'
<1>1. TypeOK' /\ VerdictsHold'
  BY FinishKeeps, RequestsKept DEF IInv, TypeOK
<1>2. NoDanglingRows'
  BY DEF IInv, NoDanglingRows
<1>3. CreatorStays'
  BY DEF IInv, CreatorStays
<1>4. MembersWereInvited'
  BY InvitedKept
<1>. QED BY <1>1, <1>2, <1>3, <1>4 DEF IInv

LEMMA InviteKeeps ==
    ASSUME IInv, Persist, NEW r \in Reqs, InviteMember(r)
    PROVE  IInv'
<1>1. PICK q \in Acting(r, "invite"), i \in Invites :
          /\ q.user \in live
          /\ inv' = [inv EXCEPT ![i] = [family |-> q.family, phone |-> q.peer,
                                        status |-> "pending"]]
          /\ inviters' = inviters \cup {q.user}
          /\ Notify({q.peer})
          /\ Finish(r)
          /\ UNCHANGED <<live, creator, open, member>>
  BY DEF InviteMember
<1>2. q.family \in Families /\ q.peer \in Users /\ creator[q.family] # NoUser
  BY BodyGood DEF Acting, Formed, Grounded, IInv
<1>3. /\ inv' \in [Invites -> Invitation]
      /\ inv'[i].family = q.family /\ inv'[i].phone = q.peer
      /\ \A j \in Invites : j # i => inv'[j] = inv[j]
  BY <1>1, <1>2 DEF IInv, TypeOK, Invitation, Status
<1>4. \A j \in Invites : Exists(j)' => /\ inv'[j].family \in Families /\ inv'[j].phone \in Users
                                       /\ creator[inv'[j].family] # NoUser
  BY <1>2, <1>3 DEF IInv, NoDanglingRows, Exists
<1>5. inviters' \in SUBSET live /\ unread' \in SUBSET live
  BY <1>1 DEF IInv, NoDanglingRows, Notify
<1>. QED BY <1>1, <1>3, <1>4, <1>5, InvitationsKeep

\* Writing a status leaves every row with its family.
LEMMA StatusKeepsFamilies ==
    ASSUME IInv, NEW i \in Invites, NEW st \in Status, Exists(i),
           inv' = [inv EXCEPT ![i].status = st]
    PROVE  /\ inv' \in [Invites -> Invitation]
           /\ \A j \in Invites : Exists(j)' => /\ inv'[j].family \in Families /\ inv'[j].phone \in Users
                                               /\ creator[inv'[j].family] # NoUser
<1>1. /\ inv' \in [Invites -> Invitation]
      /\ \A j \in Invites : /\ inv'[j].family = inv[j].family
                            /\ inv'[j].phone = inv[j].phone
                            /\ j # i => inv'[j] = inv[j]
  BY StatusOnly DEF IInv
<1>. QED BY <1>1 DEF IInv, NoDanglingRows, Exists

LEMMA TooLateKeeps ==
    ASSUME IInv, Persist, NEW r \in Reqs, AcceptTooLate(r)
    PROVE  IInv'
<1>1. PICK q \in Body(r) : /\ q.verdict = "expire"
                           /\ inv' = [inv EXCEPT ![q.invite].status = "expired"]
                           /\ Finish(r)
                           /\ UNCHANGED <<live, creator, open, member, inviters, unread>>
  BY DEF AcceptTooLate
<1>2. q.invite \in Invites /\ Exists(q.invite)
  BY <1>1, BodyGood DEF Formed, Grounded, IInv
<1>. QED BY <1>1, <1>2, StatusKeepsFamilies, InvitationsKeep
         DEF IInv, NoDanglingRows, Status

LEMMA RejectKeeps ==
    ASSUME IInv, Persist, NEW r \in Reqs, RejectInvitation(r)
    PROVE  IInv'
<1>1. PICK q \in Acting(r, "reject") :
          /\ inv' = [inv EXCEPT ![q.invite].status = "rejected"]
          /\ Finish(r)
          /\ UNCHANGED <<live, creator, open, member, inviters, unread>>
  BY DEF RejectInvitation
<1>2. q.invite \in Invites /\ Exists(q.invite)
  BY <1>1, BodyGood DEF Acting, Formed, Grounded, IInv
<1>. QED BY <1>1, <1>2, StatusKeepsFamilies, InvitationsKeep
         DEF IInv, NoDanglingRows, Status


LEMMA AcceptKeeps ==
    ASSUME IInv, Persist, NEW r \in Reqs, AcceptInvitation(r)
    PROVE  IInv'
<1> USE FamilyAssumption
<1>1. PICK q \in Acting(r, "accept") :
          /\ q.user \in live
          /\ member[q.family][q.user] = "none"
          /\ member' = [member EXCEPT ![q.family][q.user] = "active"]
          /\ inv' = [inv EXCEPT ![q.invite].status = "accepted"]
          /\ Notify(Active(q.family) \ {q.user})
          /\ Finish(r)
          /\ UNCHANGED <<live, creator, open, inviters>>
  BY DEF AcceptInvitation
<1>2. /\ q.family \in Families /\ q.invite \in Invites /\ q.user \in Users
      /\ inv[q.invite].family = q.family /\ inv[q.invite].phone = q.user
  BY <1>1, BodyGood DEF Acting, Formed, Grounded, IInv, TypeOK
<1>3. Exists(q.invite) /\ creator[q.family] # NoUser
  BY <1>2 DEF IInv, NoDanglingRows, Exists, Unused
<1>4. /\ inv' \in [Invites -> Invitation]
      /\ \A i \in Invites : inv'[i].family = inv[i].family /\ inv'[i].phone = inv[i].phone
      /\ inv'[q.invite].status = "accepted"
  BY <1>1, <1>2, StatusOnly DEF IInv, Status
<1>5. \A g \in Families, u \in Users :
          member'[g][u] = IF g = q.family /\ u = q.user THEN "active" ELSE member[g][u]
  BY <1>1, <1>2 DEF IInv, TypeOK
<1>6. unread' \in SUBSET live
  BY <1>1 DEF IInv, NoDanglingRows, Notify
<1>7. TypeOK' /\ VerdictsHold'
  <2>1. member' \in [Families -> [Users -> Membership]]
    BY <1>1, <1>2 DEF IInv, TypeOK, Membership
  <2>. QED BY <1>1, <1>4, <1>6, <2>1, FinishKeeps, RequestsKept DEF IInv, TypeOK
<1>8. NoDanglingRows'
  <2>1. \A g \in Families, u \in Users :
            member'[g][u] # "none" => u \in live' /\ creator'[g] # NoUser
    BY <1>1, <1>3, <1>5 DEF IInv, NoDanglingRows
  <2>2. \A i \in Invites : Exists(i)' => /\ inv'[i].family \in Families /\ inv'[i].phone \in Users
                                         /\ creator'[inv'[i].family] # NoUser
    BY <1>1, <1>2, <1>3, StatusKeepsFamilies DEF Status
  <2>. QED BY <1>1, <1>6, <2>1, <2>2 DEF IInv, NoDanglingRows
<1>9. CreatorStays'
  <2>1. ASSUME NEW g \in Families, creator[g] # NoUser
        PROVE  member'[g][creator[g]] = member[g][creator[g]]
    BY <1>1, <1>5, <2>1 DEF IInv, CreatorStays, TypeOK
  <2>. QED BY <1>1, <2>1 DEF IInv, CreatorStays
<1>10. MembersWereInvited'
  <2>1. ASSUME NEW g \in Families, NEW u \in Users, member'[g][u] # "none", creator'[g] # u
        PROVE  \E i \in Invites : /\ inv'[i].family = g
                                  /\ inv'[i].phone = u
                                  /\ inv'[i].status \notin {"pending", "overdue"}
    <3>1. CASE g = q.family /\ u = q.user
      BY <1>2, <1>4, <3>1
    <3>2. CASE ~ (g = q.family /\ u = q.user)
      <4>1. member[g][u] # "none" /\ creator[g] # u
        BY <1>1, <1>5, <2>1, <3>2
      <4>2. PICK i \in Invites : /\ inv[i].family = g
                                 /\ inv[i].phone = u
                                 /\ inv[i].status \notin {"pending", "overdue"}
        BY <4>1 DEF IInv, MembersWereInvited
      <4>3. Exists(i)
        BY <4>2 DEF Exists, Unused
      <4>. QED BY <4>2, <4>3 DEF Persist
    <3>. QED BY <3>1, <3>2
  <2>. QED BY <2>1 DEF MembersWereInvited
<1>. QED BY <1>7, <1>8, <1>9, <1>10 DEF IInv

\* A step that ends the membership of somebody who has one, and closes the
\* family exactly when it is its creator.
LEMMA EndingKeeps ==
    ASSUME IInv, Persist, NEW r \in Reqs, Finish(r),
           NEW f \in Families, NEW u \in Users,
           member[f][u] # "none",
           member' = [member EXCEPT ![f][u] = "left"],
           open' = IF creator[f] = u THEN open \ {f} ELSE open,
           unread' \in SUBSET live,
           UNCHANGED <<live, creator, inv, inviters>>
    PROVE  IInv'
<1>1. \A g \in Families, v \in Users :
          member'[g][v] = IF g = f /\ v = u THEN "left" ELSE member[g][v]
  BY DEF IInv, TypeOK
<1>2. TypeOK' /\ VerdictsHold'
  <2>1. member' \in [Families -> [Users -> Membership]]
    BY DEF IInv, TypeOK, Membership
  <2>. QED BY <2>1, FinishKeeps, RequestsKept DEF IInv, TypeOK
<1>3. NoDanglingRows'
  <2>1. \A g \in Families, v \in Users :
            member'[g][v] # "none" => v \in live' /\ creator'[g] # NoUser
    BY <1>1 DEF IInv, NoDanglingRows
  <2>. QED BY <2>1 DEF IInv, NoDanglingRows, Exists
<1>4. CreatorStays'
  <2>1. ASSUME NEW g \in Families, creator[g] # NoUser
        PROVE  /\ member'[g][creator[g]] # "none"
               /\ g \in open' <=> member'[g][creator[g]] = "active"
    <3>1. creator[g] \in Users
      BY <2>1 DEF IInv, TypeOK
    <3>2. /\ member[g][creator[g]] # "none"
          /\ g \in open <=> member[g][creator[g]] = "active"
      BY <2>1 DEF IInv, CreatorStays
    <3>. QED BY <1>1, <3>1, <3>2
  <2>. QED BY <2>1 DEF CreatorStays
<1>5. MembersWereInvited'
  BY <1>1, InvitedKept
<1>. QED BY <1>2, <1>3, <1>4, <1>5 DEF IInv

LEMMA LeaveKeeps ==
    ASSUME IInv, Persist, NEW r \in Reqs, LeaveFamily(r)
    PROVE  IInv'
<1>1. PICK q \in Acting(r, "leave") :
          /\ member[q.family][q.user] # "none"
          /\ member' = [member EXCEPT ![q.family][q.user] = "left"]
          /\ open' = IF creator[q.family] = q.user THEN open \ {q.family} ELSE open
          /\ Notify(Active(q.family) \ {q.user})
          /\ Finish(r)
          /\ UNCHANGED <<live, creator, inv, inviters>>
  BY DEF LeaveFamily
<1>2. q.family \in Families /\ q.user \in Users
  BY BodyGood DEF Acting, Formed, Request, IInv
<1>3. unread' \in SUBSET live
  BY <1>1 DEF IInv, NoDanglingRows, Notify
<1>. QED BY <1>1, <1>2, <1>3, EndingKeeps

LEMMA RemoveKeeps ==
    ASSUME IInv, Persist, NEW r \in Reqs, RemoveMember(r)
    PROVE  IInv'
<1>1. PICK q \in Acting(r, "remove") :
          /\ member[q.family][q.peer] # "none"
          /\ member' = [member EXCEPT ![q.family][q.peer] = "left"]
          /\ Notify({q.peer})
          /\ Finish(r)
          /\ UNCHANGED <<live, creator, open, inv, inviters>>
  BY DEF RemoveMember
<1>2. /\ q.family \in Families /\ q.peer \in Users
      /\ creator[q.family] = q.user /\ q.peer # q.user
  BY BodyGood DEF Acting, Formed, Grounded, IInv
<1>3. unread' \in SUBSET live
  BY <1>1 DEF IInv, NoDanglingRows, Notify
<1>. QED BY <1>1, <1>2, <1>3, EndingKeeps


LEMMA DeleteKeeps ==
    ASSUME IInv, Persist, NEW r \in Reqs, DeleteAccount(r)
    PROVE  IInv'
<1>1. PICK q \in Acting(r, "delete") :
          /\ ~ Referenced(q.user)
          /\ live' = live \ {q.user}
          /\ member' = [f \in Families |-> [member[f] EXCEPT ![q.user] = "none"]]
          /\ unread' = unread \ {q.user}
          /\ Finish(r)
          /\ UNCHANGED <<creator, open, inv, inviters>>
  BY DEF DeleteAccount
<1>2. q.user \in Users
  BY BodyGood DEF Acting, Formed, Request, IInv
<1>3. q.user \notin inviters /\ \A f \in Families : creator[f] # q.user
  BY <1>1 DEF Referenced
<1>4. \A g \in Families, v \in Users :
          member'[g][v] = IF v = q.user THEN "none" ELSE member[g][v]
  BY <1>1, <1>2 DEF IInv, TypeOK
<1>5. TypeOK' /\ VerdictsHold'
  <2>1. member' \in [Families -> [Users -> Membership]]
    BY <1>1 DEF IInv, TypeOK, Membership
  <2>. QED BY <1>1, <2>1, FinishKeeps, RequestsKept DEF IInv, TypeOK
<1>6. NoDanglingRows'
  <2>1. \A g \in Families, v \in Users :
            member'[g][v] # "none" => v \in live' /\ creator'[g] # NoUser
    BY <1>1, <1>4 DEF IInv, NoDanglingRows
  <2>2. \A g \in Families : creator'[g] # NoUser => creator'[g] \in live'
    BY <1>1, <1>3 DEF IInv, NoDanglingRows
  <2>. QED BY <1>1, <1>3, <2>1, <2>2 DEF IInv, NoDanglingRows, Exists
<1>7. CreatorStays'
  <2>1. ASSUME NEW g \in Families, creator[g] # NoUser
        PROVE  member'[g][creator[g]] = member[g][creator[g]]
    BY <1>3, <1>4, <2>1 DEF IInv, TypeOK
  <2>. QED BY <1>1, <2>1 DEF IInv, CreatorStays
<1>8. MembersWereInvited'
  BY <1>4, InvitedKept
<1>. QED BY <1>5, <1>6, <1>7, <1>8 DEF IInv

\* A step that writes no row but notifications and accounts, and after which
\* the requests in flight are old ones.
LEMMA QuietKeeps ==
    ASSUME IInv, Persist, req' \in [Reqs -> Request \cup {Idle}],
           \A s \in Reqs : req'[s] # Idle => req'[s] = req[s],
           live \subseteq live', live' \in SUBSET Users, unread' \in SUBSET live',
           UNCHANGED <<creator, open, member, inv, inviters>>
    PROVE  IInv'
<1>1. TypeOK' /\ VerdictsHold'
  BY RequestsKept DEF IInv, TypeOK
<1>2. NoDanglingRows'
  BY DEF IInv, NoDanglingRows, Exists
<1>3. CreatorStays'
  BY DEF IInv, CreatorStays
<1>4. MembersWereInvited'
  BY InvitedKept
<1>. QED BY <1>1, <1>2, <1>3, <1>4 DEF IInv

LEMMA LapseKeeps ==
    ASSUME IInv, Persist, NEW i \in Invites, Lapse(i)
    PROVE  IInv'
<1>1. /\ inv' \in [Invites -> Invitation]
      /\ \A j \in Invites : Exists(j)' => /\ inv'[j].family \in Families /\ inv'[j].phone \in Users
                                          /\ creator[inv'[j].family] # NoUser
  BY StatusKeepsFamilies DEF Lapse, Status
<1>2. TypeOK' /\ VerdictsHold'
  BY <1>1, RequestsKept DEF IInv, TypeOK, Lapse
<1>3. NoDanglingRows'
  BY <1>1 DEF IInv, NoDanglingRows, Lapse
<1>4. CreatorStays'
  BY DEF IInv, CreatorStays, Lapse
<1>5. MembersWereInvited'
  BY InvitedKept DEF Lapse
<1>. QED BY <1>2, <1>3, <1>4, <1>5 DEF IInv

\* What a client sends is well formed.
LEMMA CallsFormed ==
    ASSUME NEW u \in Users, NEW q \in Calls(u)
    PROVE  Formed(q) /\ q.verdict = "unread" /\ q.user = u
<1>1. CASE q \in {Call(op, u, NoFamily, NoUser, NoInvite) :
                     op \in {"create", "leave", "delete", "read"}}
  BY <1>1 DEF Call, Formed, Request, Ops, Verdict
<1>2. CASE q \in {Call("invite", u, f, p, NoInvite) : f \in Families, p \in Users}
  BY <1>2 DEF Call, Formed, Request, Ops, Verdict
<1>3. CASE q \in {Call("remove", u, NoFamily, p, NoInvite) : p \in Users}
  BY <1>3 DEF Call, Formed, Request, Ops, Verdict
<1>4. CASE q \in {Call(op, u, NoFamily, NoUser, i) : op \in {"accept", "reject"}, i \in Invites}
  BY <1>4 DEF Call, Formed, Request, Ops, Verdict
<1>. QED BY <1>1, <1>2, <1>3, <1>4 DEF Calls

LEMMA BeginKeeps ==
    ASSUME IInv, Persist, NEW r \in Reqs, Begin(r)
    PROVE  IInv'
<1>0. PICK u \in live : \E q \in Calls(u) :
          \E x \in (IF SnapshotReads THEN Readings(q) ELSE {q}) :
              req' = [req EXCEPT ![r] = x] /\ UNCHANGED tables
  BY DEF Begin
<1>01. PICK q \in Calls(u) : \E x \in (IF SnapshotReads THEN Readings(q) ELSE {q}) :
          req' = [req EXCEPT ![r] = x] /\ UNCHANGED tables
  BY <1>0
<1>1. PICK x \in (IF SnapshotReads THEN Readings(q) ELSE {q}) :
          req' = [req EXCEPT ![r] = x] /\ UNCHANGED tables
  BY <1>01
<1>2. Formed(q) /\ q.verdict = "unread"
  BY CallsFormed DEF IInv, TypeOK
<1>3. Formed(x) /\ Grounded(x)
  BY <1>1, <1>2, ReadingsGood DEF IInv, Grounded
<1>4. /\ req' \in [Reqs -> Request \cup {Idle}]
      /\ \A s \in Reqs : req'[s] = IF s = r THEN x ELSE req[s]
  BY <1>1, <1>3 DEF IInv, TypeOK, Formed
<1>5. TypeOK'
  BY <1>1, <1>3, <1>4 DEF IInv, TypeOK, tables, Persist
<1>6. VerdictsHold'
  BY <1>1, <1>3, <1>4 DEF IInv, VerdictsHold, Grounded, Exists, tables
<1>7. NoDanglingRows'
  BY <1>1 DEF IInv, NoDanglingRows, Exists, tables
<1>8. CreatorStays'
  BY <1>1 DEF IInv, CreatorStays, tables
<1>9. MembersWereInvited'
  BY <1>1 DEF IInv, MembersWereInvited, tables
<1>. QED BY <1>5, <1>6, <1>7, <1>8, <1>9 DEF IInv

LEMMA IInvInit == Init => IInv
<1> SUFFICES ASSUME Init PROVE IInv
  OBVIOUS
<1> USE FamilyAssumption
<1>1. TypeOK
  BY DEF Init, TypeOK, Membership, Invitation, Unused, Status
<1>2. NoDanglingRows /\ CreatorStays /\ MembersWereInvited /\ VerdictsHold
  BY DEF Init, NoDanglingRows, CreatorStays, MembersWereInvited, VerdictsHold, Exists
<1>. QED BY <1>1, <1>2 DEF IInv

LEMMA IInvStep == IInv /\ [Next]_vars => IInv'
<1> SUFFICES ASSUME IInv, [Next]_vars PROVE IInv'
  OBVIOUS
<1>0. Persist
  BY Persistence
<1>1. ASSUME NEW r \in Reqs, Begin(r) PROVE IInv'
  BY <1>0, <1>1, BeginKeeps
<1>2. ASSUME NEW r \in Reqs, CreateFamily(r) PROVE IInv'
  BY <1>0, <1>2, CreateKeeps
<1>3. ASSUME NEW r \in Reqs, InviteMember(r) PROVE IInv'
  BY <1>0, <1>3, InviteKeeps
<1>4. ASSUME NEW r \in Reqs, AcceptInvitation(r) PROVE IInv'
  BY <1>0, <1>4, AcceptKeeps
<1>5. ASSUME NEW r \in Reqs, AcceptTooLate(r) PROVE IInv'
  BY <1>0, <1>5, TooLateKeeps
<1>6. ASSUME NEW r \in Reqs, RejectInvitation(r) PROVE IInv'
  BY <1>0, <1>6, RejectKeeps
<1>7. ASSUME NEW r \in Reqs, LeaveFamily(r) PROVE IInv'
  BY <1>0, <1>7, LeaveKeeps
<1>8. ASSUME NEW r \in Reqs, RemoveMember(r) PROVE IInv'
  BY <1>0, <1>8, RemoveKeeps
<1>9. ASSUME NEW r \in Reqs, DeleteAccount(r) PROVE IInv'
  BY <1>0, <1>9, DeleteKeeps
<1>10. ASSUME NEW r \in Reqs, MarkRead(r) PROVE IInv'
  <2>1. Finish(r) /\ unread' \subseteq unread /\ UNCHANGED <<live, creator, open, member, inv, inviters>>
    BY <1>10 DEF MarkRead
  <2>. QED BY <1>0, <2>1, FinishKeeps, QuietKeeps DEF IInv, TypeOK, NoDanglingRows
<1>11. ASSUME NEW r \in Reqs, Fail(r) PROVE IInv'
  <2>1. Finish(r) /\ UNCHANGED tables
    BY <1>11 DEF Fail
  <2>. QED BY <1>0, <2>1, FinishKeeps, QuietKeeps DEF IInv, TypeOK, NoDanglingRows, tables
<1>12. ASSUME NEW u \in Users, Register(u) PROVE IInv'
  BY <1>0, <1>12, QuietKeeps DEF Register, IInv, TypeOK, NoDanglingRows
<1>13. ASSUME NEW i \in Invites, Lapse(i) PROVE IInv'
  BY <1>0, <1>13, LapseKeeps
<1>14. CASE Restart
  BY <1>0, <1>14, QuietKeeps DEF Restart, tables, IInv, TypeOK, NoDanglingRows
<1>15. CASE UNCHANGED vars
  BY <1>0, <1>15, QuietKeeps DEF vars, tables, IInv, TypeOK, NoDanglingRows
<1>. QED
  BY <1>1, <1>2, <1>3, <1>4, <1>5, <1>6, <1>7, <1>8, <1>9, <1>10, <1>11, <1>12, <1>13,
     <1>14, <1>15 DEF Next

-----------------------------------------------------------------------------
(* What holds with either database.                                        *)

\* The inductive invariant holds in every reachable state of every instance.
THEOREM Invariance == Spec => []IInv
BY IInvInit, IInvStep, PTL DEF Spec

\* Type correctness.
THEOREM TypeCorrect == Spec => []TypeOK
BY Invariance, PTL DEF IInv

\* Account deletion, and every other step, leaves no row behind that refers to
\* one that is gone (auth.py delete_account, the foreign keys of models.py).
THEOREM NoRowDangles == Spec => []NoDanglingRows
BY Invariance, PTL DEF IInv

\* A group is open as long as its creator is a member, though remove_member and
\* leave_family may act on old readings.
THEOREM CreatorKeepsFamily == Spec => []CreatorStays
BY Invariance, PTL DEF IInv

\* accept_invitation makes nobody a member whom the family did not invite.
THEOREM OnlyInvitedJoin == Spec => []MembersWereInvited
BY Invariance, PTL DEF IInv

\* An old reading stays right about identity and rights.
THEOREM OldReadingsServe == Spec => []VerdictsHold
BY Invariance, PTL DEF IInv


LEMMA StepsEndRightfully ==
    ASSUME IInv, [Next]_vars
    PROVE  EndsRightfully
<1> USE DEF IInv
<1>1. ASSUME NEW r \in Reqs, CreateFamily(r) PROVE EndsRightfully
  <2>1. PICK q \in Acting(r, "create"), g \in Families :
            member' = [member EXCEPT ![g][q.user] = "active"]
    BY <1>1 DEF CreateFamily
  <2>. QED BY <2>1 DEF EndsRightfully, TypeOK
<1>2. ASSUME NEW r \in Reqs, AcceptInvitation(r) PROVE EndsRightfully
  <2>1. PICK q \in Acting(r, "accept") :
            member' = [member EXCEPT ![q.family][q.user] = "active"]
    BY <1>2 DEF AcceptInvitation
  <2>. QED BY <2>1 DEF EndsRightfully, TypeOK
<1>3. ASSUME NEW r \in Reqs, LeaveFamily(r) PROVE EndsRightfully
  <2>1. PICK q \in Acting(r, "leave") :
            member' = [member EXCEPT ![q.family][q.user] = "left"] /\ Finish(r)
    BY <1>3 DEF LeaveFamily
  <2>2. req[r] # Idle /\ req'[r] = Idle /\ req[r].user = q.user
    BY <2>1, BodyGood, FinishKeeps DEF Acting
  <2>. QED BY <2>1, <2>2 DEF EndsRightfully, TypeOK
<1>4. ASSUME NEW r \in Reqs, RemoveMember(r) PROVE EndsRightfully
  <2>1. PICK q \in Acting(r, "remove") :
            member' = [member EXCEPT ![q.family][q.peer] = "left"] /\ Finish(r)
    BY <1>4 DEF RemoveMember
  <2>2. /\ req[r] # Idle /\ req'[r] = Idle /\ req[r].user = q.user
        /\ creator[q.family] = q.user
    BY <2>1, BodyGood, FinishKeeps DEF Acting, Grounded
  <2>. QED BY <2>1, <2>2 DEF EndsRightfully, TypeOK
<1>5. ASSUME NEW r \in Reqs, DeleteAccount(r) PROVE EndsRightfully
  <2>1. PICK q \in Acting(r, "delete") :
            /\ member' = [f \in Families |-> [member[f] EXCEPT ![q.user] = "none"]]
            /\ Finish(r)
    BY <1>5 DEF DeleteAccount
  <2>2. req[r] # Idle /\ req'[r] = Idle /\ req[r].user = q.user
    BY <2>1, BodyGood, FinishKeeps DEF Acting
  <2>. QED BY <2>1, <2>2 DEF EndsRightfully, TypeOK
<1>6. ASSUME UNCHANGED member PROVE EndsRightfully
  BY <1>6 DEF EndsRightfully
<1>. QED
  BY <1>1, <1>2, <1>3, <1>4, <1>5, <1>6
     DEF Next, vars, tables, Begin, InviteMember, AcceptTooLate, RejectInvitation, MarkRead,
         Fail, Register, Lapse, Restart

\* A membership ends by the member's or the creator's own request, even when
\* that request acts on an old reading.
THEOREM MembershipEndsRightfully == Spec => OnlySelfOrCreatorEnds
<1>1. IInv /\ [Next]_vars => [EndsRightfully]_vars
  BY StepsEndRightfully
<1>. QED BY <1>1, Invariance, PTL DEF Spec, OnlySelfOrCreatorEnds

-----------------------------------------------------------------------------
(* What holds with either database of the users nobody races for.          *)

Exclusive == OneFamilyUnlessRaced /\ OnePendingUnlessRaced /\ NoneForMemberUnlessRaced

\* The tables are still as the request has found them: whom it will make a member
\* has no family, whom it invites is not a member of the family, and no invitation
\* waits but the one that is accepted.
Current(q) ==
    q.verdict = "act" =>
        /\ q.op \in {"create", "accept"} => FamiliesOf(q.user) = {}
        /\ q.op = "invite" => member[q.family][q.peer] # "active"
        /\ q.op \in {"invite", "accept"} =>
              \A i \in Invites : /\ inv[i].family = q.family
                                 /\ inv[i].phone = About(q)
                                 /\ inv[i].status = "pending"
                                 => q.op = "accept" /\ i = q.invite

CurrentReads == \A r \in Reqs : \A q \in Body(r) : About(q) \notin raced => Current(q)

\* What is read is so at the moment it is read.
LEMMA ReadingsCurrent ==
    ASSUME IInv, Exclusive, NEW p, Formed(p), NEW q \in Readings(p), About(q) \notin raced
    PROVE  Current(q)
<1>. SUFFICES ASSUME q.verdict = "act" PROVE Current(q)
  BY DEF Current
<1>1. p \in Request /\ p.op \in Ops
  BY DEF Formed, Request
<1>2. q.op = p.op
  BY ReadingsGood DEF IInv
<1>3. CASE q.op = "create"
  <2>1. q = CreateReads(p)
    BY <1>1, <1>2, <1>3 DEF Readings
  <2>. QED BY <1>1, <1>3, <2>1 DEF CreateReads, Decide, Request, Current
<1>4. CASE q.op = "invite"
  <2>1. q = InviteReads(p)
    BY <1>1, <1>2, <1>4 DEF Readings
  <2>2. /\ FamiliesOf(q.peer) = {}
        /\ \A i \in Invites : ~ /\ inv[i].family = q.family
                                /\ inv[i].phone = q.peer
                                /\ inv[i].status = "pending"
    BY <1>1, <1>4, <2>1 DEF InviteReads, Decide, Request
  <2>3. q.family \in Families
    BY <1>4, ReadingsGood DEF IInv, Formed
  <2>. QED BY <1>4, <2>2, <2>3 DEF Current, FamiliesOf, About
<1>5. CASE q.op = "accept"
  <2>1. q = AcceptReads(p)
    BY <1>1, <1>2, <1>5 DEF Readings
  <2>2. /\ Exists(q.invite) /\ inv[q.invite].status = "pending" /\ inv[q.invite].phone = q.user
        /\ inv[q.invite].family = q.family /\ FamiliesOf(q.user) = {}
        /\ q.invite = p.invite
    BY <1>1, <1>5, <2>1 DEF AcceptReads, Decide, Request
  <2>3. q.invite \in Invites /\ q.user \in Users \ raced
    BY <1>2, <1>5, <2>2, ReadingsGood DEF Formed, About, IInv, Request
  <2>4. ASSUME NEW i \in Invites, i # q.invite, inv[i].family = q.family,
               inv[i].phone = q.user, inv[i].status = "pending"
        PROVE  FALSE
    <3>1. q.family \in Families
      BY <2>2, <2>3 DEF IInv, NoDanglingRows
    <3>2. Exists(i)
      BY <2>4, <3>1, FamilyAssumption DEF Exists, Unused
    <3>. QED BY <2>2, <2>3, <2>4, <3>2 DEF Exclusive, OnePendingUnlessRaced, OnePending, Pending
  <2>. QED BY <1>5, <2>2, <2>4 DEF Current, About
<1>. QED BY <1>3, <1>4, <1>5 DEF Current

LEMMA CurrentNow ==
    ASSUME ~ SnapshotReads, IInv, Exclusive
    PROVE  CurrentReads
<1>. SUFFICES ASSUME NEW r \in Reqs, NEW q \in Body(r), About(q) \notin raced PROVE Current(q)
  BY DEF CurrentReads
<1>1. q \in Readings(req[r]) /\ req[r] # Idle
  BY DEF Body
<1>2. Formed(req[r])
  BY <1>1 DEF IInv, TypeOK
<1>. QED BY <1>1, <1>2, ReadingsCurrent

\* A reading stays current in a step that brings its user into no family, and
\* brings no invitation of the two.
LEMMA StillCurrent ==
    ASSUME NEW q, Formed(q), Current(q),
           q.verdict = "act" /\ q.op \in {"create", "accept"} =>
              \A f \in Families : member'[f][q.user] = "active" => member[f][q.user] = "active",
           q.verdict = "act" /\ q.op = "invite" =>
              (member'[q.family][q.peer] = "active" => member[q.family][q.peer] = "active"),
           q.verdict = "act" /\ q.op \in {"invite", "accept"} =>
              \A i \in Invites : /\ inv'[i].family = q.family
                                 /\ inv'[i].phone = About(q)
                                 /\ inv'[i].status = "pending"
                                 => inv'[i] = inv[i]
    PROVE  Current(q)'
<1>. SUFFICES ASSUME q.verdict = "act" PROVE Current(q)'
  BY DEF Current
<1>1. CASE q.op = "create"
  BY <1>1 DEF Current, FamiliesOf
<1>2. CASE q.op = "invite"
  BY <1>2 DEF Current, About
<1>3. CASE q.op = "accept"
  BY <1>3 DEF Current, FamiliesOf, About
<1>. QED BY <1>1, <1>2, <1>3 DEF Current

\* Of two requests that compete, the one that commits puts their user in raced.
LEMMA Uncontended ==
    ASSUME NEW r \in Reqs, NEW s \in Reqs \ {r}, NEW q, Contend(r, q),
           req[s] # Idle, req[s].verdict = "act", About(req[s]) \notin raced'
    PROVE  ~ Compete(q, req[s])
BY DEF Contend, Compete

\* So what a snapshot has shown is still so when the request acts on it, for every
\* user nobody races for.
LEMMA CurrentKept ==
    ASSUME SnapshotReads
    PROVE  IInv /\ Exclusive /\ CurrentReads /\ [Next]_vars => CurrentReads'
<1> USE FamilyAssumption
<1>. SUFFICES ASSUME IInv, Exclusive, CurrentReads, [Next]_vars, NEW s \in Reqs,
                     req'[s] # Idle, About(req'[s]) \notin raced'
              PROVE  Current(req[s])'
  BY DEF CurrentReads, Body
<1>0. PICK x : x = req'[s]
  OBVIOUS
<1>. SUFFICES Current(x)'
  BY <1>0 DEF Current, FamiliesOf, About
<1>1. ASSUME req'[s] = req[s], raced \subseteq raced'
      PROVE  /\ Formed(x) /\ Grounded(x) /\ Current(x)
             /\ x.user \in Users
  BY <1>0, <1>1 DEF CurrentReads, Body, IInv, TypeOK, VerdictsHold, Formed, Request
<1>2. ASSUME req'[s] = req[s], raced \subseteq raced',
             \A f \in Families, u \in Users : member'[f][u] = "active" => member[f][u] = "active",
             \A i \in Invites : inv'[i].status = "pending" => inv'[i] = inv[i]
      PROVE  Current(x)'
  BY <1>1, <1>2, StillCurrent DEF Formed
<1>3. ASSUME NEW r \in Reqs, Finish(r) PROVE s # r /\ req'[s] = req[s]
  BY <1>3 DEF Finish, IInv, TypeOK
<1>4. ASSUME NEW r \in Reqs, NEW q, Contend(r, q) PROVE raced \subseteq raced'
  BY <1>4 DEF Contend
<1>5. ASSUME NEW r \in Reqs, Begin(r) PROVE Current(x)'
  <2>1. CASE s # r
    <3>1. req'[s] = req[s] /\ UNCHANGED <<tables, raced>>
      BY <1>5, <2>1 DEF Begin, IInv, TypeOK
    <3>. QED BY <1>2, <3>1 DEF tables
  <2>2. CASE s = r
    <3>1. PICK u \in live : \E q \in Calls(u) : \E y \in Readings(q) : req' = [req EXCEPT ![r] = y]
      BY <1>5 DEF Begin
    <3>2. PICK q \in Calls(u) : \E y \in Readings(q) : req' = [req EXCEPT ![r] = y]
      BY <3>1
    <3>3. PICK y \in Readings(q) : req' = [req EXCEPT ![r] = y]
      BY <3>2
    <3>4. x = y
      BY <1>0, <2>2, <3>3 DEF IInv, TypeOK
    <3>5. Formed(q)
      BY CallsFormed DEF IInv, TypeOK
    <3>6. About(x) \notin raced /\ UNCHANGED <<tables, raced>>
      BY <1>0, <1>5 DEF Begin
    <3>7. Current(x)
      BY <3>4, <3>5, <3>6, ReadingsCurrent
    <3>. QED BY <3>6, <3>7 DEF tables, Current, FamiliesOf, About
  <2>. QED BY <2>1, <2>2
<1>6. ASSUME NEW r \in Reqs, CreateFamily(r) PROVE Current(x)'
  <2>1. PICK q \in Acting(r, "create"), f \in Families :
            /\ q.user \in live
            /\ creator[f] = NoUser
            /\ member' = [member EXCEPT ![f][q.user] = "active"]
            /\ Finish(r) /\ Contend(r, q) /\ inv' = inv
    BY <1>6 DEF CreateFamily
  <2>2. s # r /\ req'[s] = req[s] /\ Formed(x) /\ Grounded(x) /\ Current(x) /\ x.user \in Users
    BY <1>1, <1>3, <1>4, <2>1
  <2>3. \A g \in Families, u \in Users :
            member'[g][u] = IF g = f /\ u = q.user THEN "active" ELSE member[g][u]
    BY <2>1 DEF IInv, TypeOK
  <2>4. x.verdict = "act" => ~ Compete(q, x)
    BY <1>0, <2>1, <2>2, Uncontended
  <2>5. x.verdict = "act" /\ x.op \in {"create", "accept"} => x.user # q.user
    BY <2>1, <2>4 DEF Compete, About, Acting
  <2>6. x.verdict = "act" /\ x.op = "invite" => /\ x.family # f
                                                /\ x.family \in Families /\ x.peer \in Users
    BY <2>1, <2>2 DEF Grounded, Formed
  <2>. QED BY <2>1, <2>2, <2>3, <2>5, <2>6, StillCurrent
<1>7. ASSUME NEW r \in Reqs, InviteMember(r) PROVE Current(x)'
  <2>1. PICK q \in Acting(r, "invite"), i \in Invites :
            /\ inv' = [inv EXCEPT ![i] = [family |-> q.family, phone |-> q.peer,
                                          status |-> "pending"]]
            /\ Finish(r) /\ Contend(r, q) /\ member' = member
    BY <1>7 DEF InviteMember
  <2>2. s # r /\ req'[s] = req[s] /\ Formed(x) /\ Current(x)
    BY <1>1, <1>3, <1>4, <2>1
  <2>3. x.verdict = "act" => ~ Compete(q, x)
    BY <1>0, <2>1, <2>2, Uncontended
  <2>4. x.verdict = "act" /\ x.op \in {"invite", "accept"} =>
            ~ (x.family = q.family /\ About(x) = q.peer)
    BY <2>1, <2>3 DEF Compete, About, Acting
  <2>5. /\ inv'[i].family = q.family /\ inv'[i].phone = q.peer
        /\ \A j \in Invites : j # i => inv'[j] = inv[j]
    BY <2>1 DEF IInv, TypeOK
  <2>. QED BY <2>1, <2>2, <2>4, <2>5, StillCurrent
<1>8. ASSUME NEW r \in Reqs, AcceptInvitation(r) PROVE Current(x)'
  <2>1. PICK q \in Acting(r, "accept") :
            /\ member' = [member EXCEPT ![q.family][q.user] = "active"]
            /\ inv' = [inv EXCEPT ![q.invite].status = "accepted"]
            /\ Finish(r) /\ Contend(r, q)
    BY <1>8 DEF AcceptInvitation
  <2>2. s # r /\ req'[s] = req[s] /\ Formed(x) /\ Current(x) /\ x.user \in Users
    BY <1>1, <1>3, <1>4, <2>1
  <2>3. x.verdict = "act" => ~ Compete(q, x)
    BY <1>0, <2>1, <2>2, Uncontended
  <2>4. q.family \in Families /\ q.invite \in Invites
    BY <2>1, BodyGood DEF Acting, Formed, IInv
  <2>5. \A g \in Families, u \in Users :
            member'[g][u] = IF g = q.family /\ u = q.user THEN "active" ELSE member[g][u]
    BY <2>1, <2>4 DEF IInv, TypeOK
  <2>6. \A i \in Invites : inv'[i].status = "pending" => inv'[i] = inv[i]
    BY <2>1, <2>4, StatusOnly DEF IInv, Status
  <2>7. x.verdict = "act" /\ x.op \in {"create", "accept"} => x.user # q.user
    BY <2>1, <2>3 DEF Compete, About, Acting
  <2>8. x.verdict = "act" /\ x.op = "invite" => /\ ~ (x.family = q.family /\ x.peer = q.user)
                                                /\ x.family \in Families /\ x.peer \in Users
    BY <2>1, <2>2, <2>3 DEF Compete, About, Acting, Formed
  <2>. QED BY <2>2, <2>5, <2>6, <2>7, <2>8, StillCurrent
<1>9. ASSUME NEW r \in Reqs, AcceptTooLate(r) PROVE Current(x)'
  <2>1. PICK q \in Body(r) : /\ q.verdict = "expire"
                             /\ inv' = [inv EXCEPT ![q.invite].status = "expired"]
                             /\ Finish(r) /\ UNCHANGED <<member, raced>>
    BY <1>9 DEF AcceptTooLate
  <2>2. q.invite \in Invites
    BY <2>1, BodyGood DEF Formed, IInv
  <2>3. \A i \in Invites : inv'[i].status = "pending" => inv'[i] = inv[i]
    BY <2>1, <2>2, StatusOnly DEF IInv, Status
  <2>. QED BY <1>2, <1>3, <2>1, <2>3
<1>10. ASSUME NEW r \in Reqs, RejectInvitation(r) PROVE Current(x)'
  <2>1. PICK q \in Acting(r, "reject") : /\ inv' = [inv EXCEPT ![q.invite].status = "rejected"]
                                         /\ Finish(r) /\ UNCHANGED <<member, raced>>
    BY <1>10 DEF RejectInvitation
  <2>2. q.invite \in Invites
    BY <2>1, BodyGood DEF Acting, Formed, IInv
  <2>3. \A i \in Invites : inv'[i].status = "pending" => inv'[i] = inv[i]
    BY <2>1, <2>2, StatusOnly DEF IInv, Status
  <2>. QED BY <1>2, <1>3, <2>1, <2>3
<1>11. ASSUME NEW r \in Reqs, LeaveFamily(r) PROVE Current(x)'
  <2>1. PICK q \in Acting(r, "leave") : /\ member' = [member EXCEPT ![q.family][q.user] = "left"]
                                        /\ Finish(r) /\ UNCHANGED <<inv, raced>>
    BY <1>11 DEF LeaveFamily
  <2>2. \A f \in Families, u \in Users : member'[f][u] = "active" => member[f][u] = "active"
    BY <2>1 DEF IInv, TypeOK
  <2>. QED BY <1>2, <1>3, <2>1, <2>2
<1>12. ASSUME NEW r \in Reqs, RemoveMember(r) PROVE Current(x)'
  <2>1. PICK q \in Acting(r, "remove") : /\ member' = [member EXCEPT ![q.family][q.peer] = "left"]
                                         /\ Finish(r) /\ UNCHANGED <<inv, raced>>
    BY <1>12 DEF RemoveMember
  <2>2. \A f \in Families, u \in Users : member'[f][u] = "active" => member[f][u] = "active"
    BY <2>1 DEF IInv, TypeOK
  <2>. QED BY <1>2, <1>3, <2>1, <2>2
<1>13. ASSUME NEW r \in Reqs, DeleteAccount(r) PROVE Current(x)'
  <2>1. PICK q \in Acting(r, "delete") :
            /\ member' = [f \in Families |-> [member[f] EXCEPT ![q.user] = "none"]]
            /\ Finish(r) /\ UNCHANGED <<inv, raced>>
    BY <1>13 DEF DeleteAccount
  <2>2. \A f \in Families, u \in Users : member'[f][u] = "active" => member[f][u] = "active"
    BY <2>1 DEF IInv, TypeOK
  <2>. QED BY <1>2, <1>3, <2>1, <2>2
<1>14. ASSUME NEW i \in Invites, Lapse(i) PROVE Current(x)'
  <2>1. \A j \in Invites : inv'[j].status = "pending" => inv'[j] = inv[j]
    BY <1>14, StatusOnly DEF Lapse, IInv, Status
  <2>. QED BY <1>2, <1>14, <2>1 DEF Lapse
<1>15. ASSUME NEW r \in Reqs, Finish(r), UNCHANGED <<member, inv, raced>> PROVE Current(x)'
  BY <1>2, <1>3, <1>15
<1>16. ASSUME UNCHANGED <<member, inv, req, raced>> PROVE Current(x)'
  BY <1>2, <1>16
<1>17. CASE Restart
  BY <1>17 DEF Restart
<1>. QED BY <1>5, <1>6, <1>7, <1>8, <1>9, <1>10, <1>11, <1>12, <1>13, <1>14, <1>15, <1>16, <1>17
         DEF Next, vars, tables, MarkRead, Fail, Register


\* A step that makes nobody a member and no invitation pending.
LEMMA ExclusiveKept ==
    ASSUME IInv, Exclusive, Persist,
           \A f \in Families, u \in Users : member'[f][u] = "active" => member[f][u] = "active",
           \A i \in Invites : inv'[i].status = "pending" => inv'[i] = inv[i]
    PROVE  Exclusive'
<1>1. ASSUME NEW u \in Users \ raced' PROVE OneFamily(u)'
  BY <1>1 DEF Exclusive, OneFamilyUnlessRaced, OneFamily, FamiliesOf, Persist
<1>2. ASSUME NEW u \in Users \ raced' PROVE OnePending(u)'
  BY <1>2 DEF Exclusive, OnePendingUnlessRaced, OnePending, Pending, Exists, Persist
<1>3. ASSUME NEW u \in Users \ raced' PROVE NoneForMember(u)'
  <2>1. ASSUME NEW i \in Pending(u)' PROVE member'[inv'[i].family][u] # "active"
    <3>1. i \in Pending(u) /\ inv'[i] = inv[i]
      BY <2>1 DEF Pending, Exists
    <3>2. inv[i].family \in Families
      BY <3>1 DEF IInv, NoDanglingRows, Pending
    <3>. QED BY <1>3, <3>1, <3>2
             DEF Exclusive, NoneForMemberUnlessRaced, NoneForMember, Persist
  <2>. QED BY <2>1 DEF NoneForMember
<1>. QED BY <1>1, <1>2, <1>3
         DEF Exclusive, OneFamilyUnlessRaced, OnePendingUnlessRaced, NoneForMemberUnlessRaced

LEMMA ExclusiveInit == Init => Exclusive
BY DEF Init, Exclusive, OneFamilyUnlessRaced, OnePendingUnlessRaced, NoneForMemberUnlessRaced,
       OneFamily, OnePending, NoneForMember, Pending, FamiliesOf, Exists

LEMMA CreateExcludes ==
    ASSUME IInv, Persist, Exclusive, CurrentReads, NEW r \in Reqs, CreateFamily(r)
    PROVE  Exclusive'
<1>1. PICK q \in Acting(r, "create"), f \in Families :
          /\ q.user \in live
          /\ creator[f] = NoUser
          /\ member' = [member EXCEPT ![f][q.user] = "active"]
          /\ inv' = inv
  BY DEF CreateFamily
<1>2. /\ q.user \in Users
      /\ q.user \notin raced => FamiliesOf(q.user) = {}
  BY <1>1 DEF Acting, CurrentReads, Current, About, IInv, TypeOK
<1>3. \A g \in Families, u \in Users :
          member'[g][u] = IF g = f /\ u = q.user THEN "active" ELSE member[g][u]
  BY <1>1, <1>2 DEF IInv, TypeOK
<1>4. OneFamilyUnlessRaced'
  <2>1. ASSUME NEW u \in Users \ raced' PROVE OneFamily(u)'
    <3>1. u \notin raced /\ OneFamily(u)
      BY <2>1 DEF Exclusive, OneFamilyUnlessRaced, Persist
    <3>. QED BY <1>2, <1>3, <3>1 DEF OneFamily, FamiliesOf
  <2>. QED BY <2>1 DEF OneFamilyUnlessRaced
<1>5. OnePendingUnlessRaced'
  BY <1>1 DEF Exclusive, OnePendingUnlessRaced, OnePending, Pending, Exists, Persist
<1>6. NoneForMemberUnlessRaced'
  <2>1. ASSUME NEW u \in Users \ raced', NEW i \in Pending(u)'
        PROVE  member'[inv'[i].family][u] # "active"
    <3>1. i \in Pending(u) /\ inv'[i] = inv[i] /\ u \notin raced
      BY <1>1, <2>1 DEF Pending, Exists, Persist
    <3>2. inv[i].family \in Families /\ inv[i].family # f
      BY <1>1, <3>1 DEF IInv, NoDanglingRows, Pending
    <3>. QED BY <1>3, <2>1, <3>1, <3>2 DEF Exclusive, NoneForMemberUnlessRaced, NoneForMember
  <2>. QED BY <2>1 DEF NoneForMemberUnlessRaced, NoneForMember
<1>. QED BY <1>4, <1>5, <1>6 DEF Exclusive

LEMMA InviteExcludes ==
    ASSUME IInv, Persist, Exclusive, CurrentReads, NEW r \in Reqs, InviteMember(r)
    PROVE  Exclusive'
<1>1. PICK q \in Acting(r, "invite"), i \in Invites :
          /\ ~ Exists(i)
          /\ inv' = [inv EXCEPT ![i] = [family |-> q.family, phone |-> q.peer,
                                        status |-> "pending"]]
          /\ member' = member
  BY DEF InviteMember
<1>2. q.peer \notin raced => /\ member[q.family][q.peer] # "active"
                             /\ \A j \in Invites : ~ /\ inv[j].family = q.family
                                                     /\ inv[j].phone = q.peer
                                                     /\ inv[j].status = "pending"
  BY <1>1 DEF Acting, CurrentReads, Current, About
<1>3. /\ inv'[i] = [family |-> q.family, phone |-> q.peer, status |-> "pending"]
      /\ \A j \in Invites : j # i => inv'[j] = inv[j]
  BY <1>1 DEF IInv, TypeOK
<1>4. ASSUME NEW u \in Users \ raced'
      PROVE  /\ u \notin raced /\ OneFamily(u) /\ OnePending(u) /\ NoneForMember(u)
             /\ \A j \in Pending(u)' : \/ j \in Pending(u) /\ j # i /\ inv'[j] = inv[j]
                                       \/ j = i /\ u = q.peer
  BY <1>3, <1>4 DEF Exclusive, OneFamilyUnlessRaced, OnePendingUnlessRaced,
                    NoneForMemberUnlessRaced, Pending, Exists, Persist
<1>5. OneFamilyUnlessRaced'
  BY <1>1, <1>4 DEF OneFamilyUnlessRaced, OneFamily, FamiliesOf
<1>6. OnePendingUnlessRaced'
  <2>1. ASSUME NEW u \in Users \ raced', NEW j \in Pending(u)', NEW k \in Pending(u)', j # k,
               inv'[j].family = inv'[k].family
        PROVE  FALSE
    <3>1. CASE j # i /\ k # i
      BY <1>4, <2>1, <3>1 DEF OnePending
    <3>2. CASE j = i \/ k = i
      BY <1>2, <1>3, <1>4, <2>1, <3>2 DEF Pending
    <3>. QED BY <3>1, <3>2
  <2>. QED BY <2>1 DEF OnePendingUnlessRaced, OnePending
<1>7. NoneForMemberUnlessRaced'
  <2>1. ASSUME NEW u \in Users \ raced', NEW j \in Pending(u)'
        PROVE  member'[inv'[j].family][u] # "active"
    <3>1. CASE j # i
      BY <1>1, <1>4, <2>1, <3>1 DEF NoneForMember
    <3>2. CASE j = i
      BY <1>1, <1>2, <1>3, <1>4, <2>1, <3>2
    <3>. QED BY <3>1, <3>2
  <2>. QED BY <2>1 DEF NoneForMemberUnlessRaced, NoneForMember
<1>. QED BY <1>5, <1>6, <1>7 DEF Exclusive

LEMMA AcceptExcludes ==
    ASSUME IInv, Persist, Exclusive, CurrentReads, NEW r \in Reqs, AcceptInvitation(r)
    PROVE  Exclusive'
<1>1. PICK q \in Acting(r, "accept") :
          /\ member' = [member EXCEPT ![q.family][q.user] = "active"]
          /\ inv' = [inv EXCEPT ![q.invite].status = "accepted"]
  BY DEF AcceptInvitation
<1>2. q.family \in Families /\ q.invite \in Invites
  BY <1>1, BodyGood DEF Acting, Formed, IInv
<1>3. q.user \notin raced =>
          /\ FamiliesOf(q.user) = {}
          /\ \A i \in Invites \ {q.invite} : ~ /\ inv[i].family = q.family
                                               /\ inv[i].phone = q.user
                                               /\ inv[i].status = "pending"
  BY DEF Acting, CurrentReads, Current, About
<1>4. \A g \in Families, u \in Users :
          member'[g][u] = IF g = q.family /\ u = q.user THEN "active" ELSE member[g][u]
  BY <1>1, <1>2 DEF IInv, TypeOK
<1>5. ASSUME NEW u \in Users \ raced'
      PROVE  /\ u \notin raced /\ OneFamily(u) /\ OnePending(u) /\ NoneForMember(u)
             /\ \A i \in Pending(u)' : i \in Pending(u) /\ i # q.invite /\ inv'[i] = inv[i]
  <2>1. \A i \in Invites : inv'[i].status = "pending" => i # q.invite /\ inv'[i] = inv[i]
    BY <1>1, <1>2, StatusOnly DEF IInv, Status
  <2>. QED BY <1>5, <2>1 DEF Exclusive, OneFamilyUnlessRaced, OnePendingUnlessRaced,
                             NoneForMemberUnlessRaced, Pending, Exists, Persist
<1>6. OneFamilyUnlessRaced'
  <2>1. ASSUME NEW u \in Users \ raced' PROVE OneFamily(u)'
    BY <1>3, <1>4, <1>5, <2>1 DEF OneFamily, FamiliesOf
  <2>. QED BY <2>1 DEF OneFamilyUnlessRaced
<1>7. OnePendingUnlessRaced'
  <2>1. ASSUME NEW u \in Users \ raced' PROVE OnePending(u)'
    BY <1>5, <2>1 DEF OnePending
  <2>. QED BY <2>1 DEF OnePendingUnlessRaced
<1>8. NoneForMemberUnlessRaced'
  <2>1. ASSUME NEW u \in Users \ raced', NEW i \in Pending(u)'
        PROVE  member'[inv'[i].family][u] # "active"
    <3>1. i \in Pending(u) /\ i # q.invite /\ inv'[i] = inv[i] /\ u \notin raced
      BY <1>5, <2>1
    <3>2. inv[i].family \in Families
      BY <3>1 DEF IInv, NoDanglingRows, Pending
    <3>3. member[inv[i].family][u] # "active"
      BY <1>5, <2>1, <3>1 DEF NoneForMember
    <3>4. ~ (inv[i].family = q.family /\ u = q.user)
      BY <1>3, <3>1 DEF Pending
    <3>. QED BY <1>4, <2>1, <3>1, <3>2, <3>3, <3>4
  <2>. QED BY <2>1 DEF NoneForMemberUnlessRaced, NoneForMember
<1>. QED BY <1>6, <1>7, <1>8 DEF Exclusive


\* Answering an invitation, in whatever way.
LEMMA AnswerExcludes ==
    ASSUME IInv, Persist, Exclusive, NEW i \in Invites, NEW st \in Status \ {"pending"},
           inv' = [inv EXCEPT ![i].status = st], member' = member
    PROVE  Exclusive'
<1>1. \A j \in Invites : inv'[j].status = "pending" => inv'[j] = inv[j]
  BY StatusOnly DEF IInv
<1>. QED BY <1>1, ExclusiveKept

LEMMA ExclusiveStep ==
    ASSUME IInv, Exclusive, CurrentReads, [Next]_vars
    PROVE  Exclusive'
<1>0. Persist
  BY Persistence
<1>1. ASSUME NEW r \in Reqs, CreateFamily(r) PROVE Exclusive'
  BY <1>1, <1>0, CreateExcludes
<1>2. ASSUME NEW r \in Reqs, InviteMember(r) PROVE Exclusive'
  BY <1>2, <1>0, InviteExcludes
<1>3. ASSUME NEW r \in Reqs, AcceptInvitation(r) PROVE Exclusive'
  BY <1>3, <1>0, AcceptExcludes
<1>4. ASSUME NEW r \in Reqs, AcceptTooLate(r) PROVE Exclusive'
  <2>1. PICK q \in Body(r) : /\ q.verdict = "expire"
                             /\ inv' = [inv EXCEPT ![q.invite].status = "expired"]
                             /\ member' = member
    BY <1>4 DEF AcceptTooLate
  <2>2. q.invite \in Invites
    BY <2>1, BodyGood DEF Formed, IInv
  <2>3. "expired" \in Status \ {"pending"}
    BY DEF Status
  <2>. QED BY <2>1, <2>2, <2>3, <1>0, AnswerExcludes
<1>5. ASSUME NEW r \in Reqs, RejectInvitation(r) PROVE Exclusive'
  <2>1. PICK q \in Acting(r, "reject") : /\ inv' = [inv EXCEPT ![q.invite].status = "rejected"]
                                         /\ member' = member
    BY <1>5 DEF RejectInvitation
  <2>2. q.invite \in Invites
    BY BodyGood DEF Acting, Formed, IInv
  <2>3. "rejected" \in Status \ {"pending"}
    BY DEF Status
  <2>. QED BY <2>1, <2>2, <2>3, <1>0, AnswerExcludes
<1>6. ASSUME NEW i \in Invites, Lapse(i) PROVE Exclusive'
  BY <1>0, <1>6, AnswerExcludes DEF Lapse, Status
<1>7. ASSUME NEW r \in Reqs, LeaveFamily(r) PROVE Exclusive'
  <2>1. PICK q \in Acting(r, "leave") :
            member' = [member EXCEPT ![q.family][q.user] = "left"] /\ inv' = inv
    BY <1>7 DEF LeaveFamily
  <2>2. \A f \in Families, u \in Users : member'[f][u] = "active" => member[f][u] = "active"
    BY <2>1 DEF IInv, TypeOK
  <2>. QED BY <2>1, <2>2, <1>0, ExclusiveKept
<1>8. ASSUME NEW r \in Reqs, RemoveMember(r) PROVE Exclusive'
  <2>1. PICK q \in Acting(r, "remove") :
            member' = [member EXCEPT ![q.family][q.peer] = "left"] /\ inv' = inv
    BY <1>8 DEF RemoveMember
  <2>2. \A f \in Families, u \in Users : member'[f][u] = "active" => member[f][u] = "active"
    BY <2>1 DEF IInv, TypeOK
  <2>. QED BY <2>1, <2>2, <1>0, ExclusiveKept
<1>9. ASSUME NEW r \in Reqs, DeleteAccount(r) PROVE Exclusive'
  <2>1. PICK q \in Acting(r, "delete") :
            /\ member' = [f \in Families |-> [member[f] EXCEPT ![q.user] = "none"]]
            /\ inv' = inv
    BY <1>9 DEF DeleteAccount
  <2>2. \A f \in Families, u \in Users : member'[f][u] = "active" => member[f][u] = "active"
    BY <2>1 DEF IInv, TypeOK
  <2>. QED BY <2>1, <2>2, <1>0, ExclusiveKept
<1>10. ASSUME UNCHANGED <<member, inv>> PROVE Exclusive'
  BY <1>0, <1>10, ExclusiveKept
<1>. QED
  BY <1>1, <1>2, <1>3, <1>4, <1>5, <1>6, <1>7, <1>8, <1>9, <1>10
     DEF Next, vars, tables, Begin, MarkRead, Fail, Register, Restart

LEMMA ExclusiveInvariance == Spec => []Exclusive
<1>1. Init => Exclusive /\ CurrentReads
  BY ExclusiveInit DEF Init, CurrentReads, Body
<1>2. IInv /\ Exclusive /\ CurrentReads /\ [Next]_vars => Exclusive'
  BY ExclusiveStep
<1>3. CASE ~ SnapshotReads
  <2>1. IInv /\ Exclusive => CurrentReads
    BY <1>3, CurrentNow
  <2>. QED BY <1>1, <1>2, <2>1, Invariance, PTL DEF Spec
<1>4. CASE SnapshotReads
  <2>1. IInv /\ Exclusive /\ CurrentReads /\ [Next]_vars => CurrentReads'
    BY <1>4, CurrentKept
  <2>. QED BY <1>1, <1>2, <2>1, Invariance, PTL DEF Spec
<1>. QED BY <1>3, <1>4

\* Nobody comes into a second family unless two of his own requests race: what others
\* do, and every other order, leaves the checks of create_family and accept_invitation
\* (family.py:60, 165) enough.
THEOREM OneFamilySafe == Spec => []OneFamilyUnlessRaced
<1>1. Exclusive => OneFamilyUnlessRaced
  BY DEF Exclusive
<1>. QED BY <1>1, ExclusiveInvariance, PTL

\* Likewise the check of invite_member (family.py:92) keeps invitations from being
\* doubled, unless two of a family for one number race, or one and its acceptance.
THEOREM OnePendingSafe == Spec => []OnePendingUnlessRaced
<1>1. Exclusive => OnePendingUnlessRaced
  BY DEF Exclusive
<1>. QED BY <1>1, ExclusiveInvariance, PTL

\* Likewise none waits for a member of the family: none is sent to a member, and who
\* becomes one has used up his only one.
THEOREM NoneForMembersSafe == Spec => []NoneForMemberUnlessRaced
<1>1. Exclusive => NoneForMemberUnlessRaced
  BY DEF Exclusive
<1>. QED BY <1>1, ExclusiveInvariance, PTL

\* With current reads a request in flight has decided nothing, so nobody is raced for.
Undecided ==
    /\ raced = {}
    /\ \A r \in Reqs : req[r] # Idle => req[r].verdict = "unread"

LEMMA UndecidedStep ==
    ASSUME ~ SnapshotReads, IInv, Undecided, [Next]_vars
    PROVE  Undecided'
<1>1. ASSUME NEW r \in Reqs, Begin(r) PROVE Undecided'
  <2>1. PICK u \in live : \E q \in Calls(u) : req' = [req EXCEPT ![r] = q]
    BY <1>1 DEF Begin
  <2>2. PICK q \in Calls(u) : req' = [req EXCEPT ![r] = q]
    BY <2>1
  <2>3. q.verdict = "unread"
    BY CallsFormed DEF IInv, TypeOK
  <2>. QED BY <1>1, <2>2, <2>3 DEF Undecided, Begin, IInv, TypeOK
<1>2. ASSUME NEW r \in Reqs, Finish(r), raced' = raced PROVE Undecided'
  BY <1>2, FinishKeeps DEF Undecided, IInv
<1>3. ASSUME NEW r \in Reqs, NEW q, Contend(r, q) PROVE raced' = raced
  BY <1>3 DEF Contend, Undecided
<1>4. ASSUME UNCHANGED <<req, raced>> PROVE Undecided'
  BY <1>4 DEF Undecided
<1>5. CASE Restart
  BY <1>5 DEF Restart, Undecided
<1>. QED
  BY <1>1, <1>2, <1>3, <1>4, <1>5
     DEF Next, vars, CreateFamily, InviteMember, AcceptInvitation, AcceptTooLate,
         RejectInvitation, LeaveFamily, RemoveMember, DeleteAccount, MarkRead, Fail,
         Register, Lapse

\* So with the SQLite fallback the comment at create_family (family.py:59) is true:
\* nobody is ever in two families, races or not.
THEOREM OneFamilyWithCurrentReads ==
    ASSUME ~ SnapshotReads
    PROVE  Spec => []OneFamilyEach
<1>1. Init => Undecided
  BY DEF Init, Undecided
<1>2. IInv /\ Undecided /\ [Next]_vars => Undecided'
  BY UndecidedStep
<1>3. Undecided /\ OneFamilyUnlessRaced => OneFamilyEach
  BY DEF Undecided, OneFamilyUnlessRaced, OneFamilyEach
<1>. QED BY <1>1, <1>2, <1>3, Invariance, OneFamilySafe, PTL DEF Spec
=============================================================================

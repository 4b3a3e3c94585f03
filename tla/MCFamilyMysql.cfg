SPECIFICATION Spec
CONSTANTS
  Users = {u1, u2}
  Families = {f1, f2}
  Invites = {i1, i2}
  Reqs = {r1, r2}
  NoUser = NoUser
  NoFamily = NoFamily
  NoInvite = NoInvite
  Idle = Idle
  SnapshotReads = TRUE
SYMMETRY Symmetry
CONSTRAINT FewMarked
INVARIANTS
  OneFamilyUnlessRaced
  OnePendingUnlessRaced
  NoneForMemberUnlessRaced
  MembersWereInvited
  NoDanglingRows
  CreatorStays
  VerdictsHold
PROPERTIES
  OnlySelfOrCreatorEnds

SPECIFICATION Spec
CONSTANTS
  Users = {u1}
  Families = {f1, f2}
  Invites = {i1}
  Reqs = {r1, r2}
  NoUser = NoUser
  NoFamily = NoFamily
  NoInvite = NoInvite
  Idle = Idle
  SnapshotReads = TRUE
SYMMETRY Symmetry
INVARIANT
  OneFamilyEach

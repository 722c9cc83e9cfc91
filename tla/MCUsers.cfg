CONSTANTS
  alice = alice
  Users = {alice}
  Runs = {r1, r2}
  Owner <- AllAlice
  Approvals = {a1}
  NoRun = NoRun
  Requests = {q1, q2}
  Cancels = {k1}
  MaxSteps = 1
  Convs = {c1, c2}
  Sends = {s1, s2}
  MaxLoads = 1
  MaxVisits = 2
  NoConv = NoConv
  owner = owner
  Tabs = {q1, q2}
  MaxAsked = 4
  People = {alice, owner}
  LocalOwner = owner
  MaxIssued = 3
  Nobody = Nobody
SYMMETRY Interchangeable
SPECIFICATION UsersSpec
INVARIANTS OneOpenRun OpenIsExecuted ApprovalsAgree SessionFollowsUser PageShowsItsConversation
PROPERTIES EndsStay
CHECK_DEADLOCK FALSE

SPECIFICATION DirectorySpec
\* Components share model values, so that one group of permutations serves them all.
CONSTANTS
  People = {a, b, c}
  Addresses = {x, y}
  Requests = {r1, r2, r3}
  NoOne = NoOne
  Orgs = {a, b, c}
  Domains = {x, y}
  Links = {l1}
  OrgRequests = {r1, r2, r3}
  NoOrg = NoOrg
  Edges = {a, b, c}
  Persons = {x, y}
  Seats = {s1}
  Merges = {m1}
  NoSeat = NoSeat
  Subjects = {a, b, c}
  GrantRequests = {r1, r2, r3}
  Nobody = Nobody
  Users = {x, y}
  Sessions = {t1}
  Passports = {p1}
  Codes = {k1}
  Secrets = {v1}
  Calls = {r1, r2, r3}
  Scopes = {"read"}
  RoleScopes <- AdminAndRep
  SessionTicks = 2
  IdleTicks = 1
  MaxNow = 2
  NoRow = NoRow
SYMMETRY Symmetry
CHECK_DEADLOCK FALSE
INVARIANTS
  DamageNeedsOverlap
  OrgDamageNeedsOverlap
  RelinkFits
  CodeGrantsOnce
PROPERTIES
  SnapshotIsExact
  ExcessNeedsOverlap
  AdminlessNeedsOverlap
  RevivedOnlyByOverlap

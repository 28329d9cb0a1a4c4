SPECIFICATION Spec
CONSTANTS
  Requests = {r1, r2}
  r1 = r1
  r2 = r2
  Users <- MCUsers
  Logins <- MCLogins
  Teams = {"dev"}
  Beginning <- MCBeginning
  Changes <- MCChanges
  Containing <- MCContaining
  Page = 1
  Size = 1
  TTL = 1
  Slow = 1
  Settings <- MCSettings
  MaxChanges = 2
  MaxTokens = 1
SYMMETRY Symmetry
INVARIANTS RecentIdentity TokensActAsTheirUsers RefusedForAReason

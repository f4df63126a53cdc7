SPECIFICATION Spec
CONSTANTS
  b1 = b1
  b2 = b2
  h1 = h1
  h2 = h2
  pr1 = pr1
  pr2 = pr2
  r1 = r1
  r2 = r2
  s1 = s1
  s2 = s2
  i1 = i1
  i2 = i2
  Nil = nil
  Bounties <- TwoBounties
  Hunters <- OneHunter
  PRs <- NoPRs
  Author <- MCAuthor
  Refs <- AllRefs
  ClaimIds <- TwoRows
  Slots <- TwoSlots
  Indexers <- NoIndexer
  ActiveClaimCap = 1
  MaxReleaseAttempts = 2
  ReconcileLimit = 5
  PostedAt <- MCPostedAt
  Requests <- Claiming
  Failures <- Untroubled
  CutAt <- SparesRecount
INVARIANTS
  CapHolds
SYMMETRY Symmetric
CHECK_DEADLOCK FALSE

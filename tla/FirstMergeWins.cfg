SPECIFICATION Spec
CONSTANTS
  b1 = b1
  b2 = b2
  h1 = h1
  h2 = h2
  pr1 = pr1
  pr2 = pr2
  r1 = r1
  r2 = r2
  s1 = s1
  s2 = s2
  i1 = i1
  i2 = i2
  Nil = nil
  Bounties <- OneBounty
  Hunters <- TwoHunters
  PRs <- TwoPRs
  Author <- MCAuthor
  Refs <- AllRefs
  ClaimIds <- TwoRows
  Slots <- OneSlot
  Indexers <- OneIndexer
  ActiveClaimCap = 3
  MaxReleaseAttempts = 2
  ReconcileLimit = 5
  PostedAt <- MCPostedAt
  Requests <- PlainWork
  Failures <- Untroubled
  CutAt <- Nowhere
PROPERTIES
  FirstMergeWins
CHECK_DEADLOCK FALSE

SPECIFICATION Spec
CONSTANTS
  b1 = b1
  b2 = b2
  h1 = h1
  h2 = h2
  pr1 = pr1
  pr2 = pr2
  r1 = r1
  r2 = r2
  s1 = s1
  s2 = s2
  i1 = i1
  i2 = i2
  Nil = nil
  Bounties <- OneBounty
  Hunters <- OneHunter
  PRs <- OnePR
  Author <- MCAuthor
  Refs <- AllRefs
  ClaimIds <- OneRow
  Slots <- OneSlot
  Indexers <- TwoIndexers
  ActiveClaimCap = 3
  MaxReleaseAttempts = 2
  ReconcileLimit = 5
  PostedAt <- MCPostedAt
  Requests <- Everything
  Failures <- Anything
  CutAt <- Anywhere
INVARIANTS
  TypeOK
  NeverAheadOfChain
  RefundNotMidRelease
  NoPayoutSkipped
  LedgerExact
  NeverDoubleCounts
SYMMETRY Symmetric
CHECK_DEADLOCK FALSE

SPECIFICATION HooksSpec
CONSTANTS
  w1 = w1
  w2 = w2
  g1 = g1
  g2 = g2
  n1 = n1
  n2 = n2
  s1 = s1
  s2 = s2
  r1 = r1
  Nil = nil
  Wallets <- TwoWallets
  Githubs <- TwoGithubs
  Nonces <- TwoNonces
  Slots <- TwoSlots
  Repos <- OneRepo
  MaxHooks = 2
INVARIANTS
  TypeOK
  OneSessionPerNonce
  BindingAgrees
  HooksTypeOK
  NewestHookHeard
PROPERTIES
  OwnerKept
SYMMETRY Symmetric
CHECK_DEADLOCK FALSE

SPECIFICATION Spec
CONSTANTS
  m = m
  h = h
  b1 = b1
  b2 = b2
  c1 = c1
  Escrow = escrow
  Nil = nil
  Ids <- MCIds
  Accounts <- MCAccounts
  Shas <- MCShas
  Amounts <- MCAmounts
  Windows <- MCWindows
  Supply = 4
  MaxUint96 = 3
  MaxUint64 = 3
  MaxTime = 2
INVARIANTS
  TypeOK
  Solvent
  SettledAtMostOnce
  SettlesTheDeposit
  RefundNotEarly
PROPERTY KeepsPromise
SYMMETRY MCSymmetry
CHECK_DEADLOCK FALSE

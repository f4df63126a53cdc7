SPECIFICATION Spec
CONSTANTS
  k1 = k1
  a1 = a1
  a2 = a2
  b1 = b1
  b2 = b2
  s1 = s1
  s2 = s2
  Nil = nil
  Keys <- OneKey
  Actors <- TwoActors
  Ids <- TwoIds
  Slots <- TwoSlots
INVARIANTS
  TypeOK
  OneBountyPerKey
  RepliesAgree
  OwnRepliesOnly
  ReservationsAreHeld
PROPERTIES
  ReservationsEnd

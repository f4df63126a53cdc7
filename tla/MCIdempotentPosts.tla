-------------------------- MODULE MCIdempotentPosts --------------------------
(* Two wallets that use the same key, or none.                               *)
EXTENDS IdempotentPosts

CONSTANTS k1, a1, a2, b1, b2, s1, s2

OneKey == {k1}
TwoActors == {a1, a2}
TwoIds == {b1, b2}
TwoSlots == {s1, s2}
=============================================================================

--------------------------- MODULE MCBountyEscrow ----------------------------
(* A small escrow: two bounties, a maintainer and a hunter, USDC for both    *)
(* deposits, and 2-bit timestamps so that a window can overflow.            *)
EXTENDS BountyEscrow, TLC

CONSTANTS m, h, b1, b2, c1

MCIds      == {b1, b2}
MCAccounts == {m, h}
MCShas     == {c1}
MCAmounts  == {0, 2, 4}   \* ZeroAmount, a legal deposit, AmountTooLarge
MCWindows  == {1, 3}      \* the next block; overflows if created after time 0

MCSymmetry == Permutations(MCIds)
=============================================================================

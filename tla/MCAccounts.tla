----------------------------- MODULE MCAccounts ------------------------------
(* Two wallets, two GitHub accounts, two logins, two requests at once, and    *)
(* one repository that may get two hooks.                                    *)
EXTENDS RepoHooks, TLC

CONSTANTS w1, w2, g1, g2, n1, n2, s1, s2, r1

TwoWallets == {w1, w2}
TwoGithubs == {g1, g2}
TwoNonces == {n1, n2}
TwoSlots == {s1, s2}
OneRepo == {r1}

Symmetric == Permutations(Wallets) \cup Permutations(Githubs)
               \cup Permutations(Nonces) \cup Permutations(Slots)
=============================================================================

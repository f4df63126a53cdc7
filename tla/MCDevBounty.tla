----------------------------- MODULE MCDevBounty -----------------------------
(* Small instances of the backend.                                           *)
EXTENDS DevBounty, TLC

CONSTANTS b1, b2, h1, h2, pr1, pr2, r1, r2, s1, s2, i1, i2

OneBounty == {b1}
TwoBounties == {b1, b2}
OneHunter == {h1}
TwoHunters == {h1, h2}
OnePR == {pr1}
TwoPRs == {pr1, pr2}
NoPRs == {}
OneRow == {r1}
TwoRows == {r1, r2}
OneSlot == {s1}
TwoSlots == {s1, s2}
OneIndexer == {i1}
TwoIndexers == {i1, i2}
NoIndexer == {}

(* pr1 is h1's, every other PR h2's when there is such a hunter *)
MCAuthor == [pr \in PRs |-> IF pr = pr1 \/ h2 \notin Hunters THEN h1 ELSE h2]
AllRefs  == [pr \in PRs |-> Bounties]

MCPostedAt == [b \in Bounties |-> IF b = b1 THEN 1 ELSE 2]

Everything     == RequestKinds
(* a manual release settles the way a webhook does; TwoIndexers.cfg has both *)
IndexerOpens   == RequestKinds \ {"deposit-recorded", "manual-release"}
Claiming       == {"deposit-recorded", "claim", "unclaim"}
PlainWork      == {"claim", "submit"}

Anything    == FailureKinds
CallsReject == {"rpc"}
Untroubled  == {}

Anywhere == Pcs
Nowhere  == {}
BeforeTheStamp == {"settle.stamp"}
(* everywhere in the indexer but where a cut loses a release or a recompute  *)
IndexerReplays == IndexerPcs \ {"released.aggregate", "released.counters"}
(* everywhere but where a cut leaves a claim over the cap *)
SparesRecount  == Pcs \ {"claim.recount", "claim.rollback"}

Symmetric == Permutations(Slots) \cup Permutations(ClaimIds)

(* Exchanging the hunters together with their pull requests leaves MCAuthor   *)
(* and AllRefs as they are.                                                 *)
Rivals == (h1 :> h2) @@ (h2 :> h1) @@ (pr1 :> pr2) @@ (pr2 :> pr1)

SymmetricRivals == Symmetric \cup {Rivals}
=============================================================================

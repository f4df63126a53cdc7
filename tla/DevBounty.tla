------------------------------ MODULE DevBounty ------------------------------
(***************************************************************************)
(* The whole backend: HTTP requests, webhook deliveries, release jobs and    *)
(* indexers run against the shared store, the escrow and GitHub.            *)
(***************************************************************************)
EXTENDS BountyRoutes, ClaimRoutes, Settlement, EventIndexer

Next ==
  \/ Environment
  \/ \E s \in Slots : BountyRequest(s) \/ ClaimRequest(s) \/ SettlementRequest(s)
  \/ \E p \in Procs : ReleaseJob(p)
  \/ \E i \in Indexers : Tick(i) \/ Reconcile(i)

Spec == Init /\ [][Next]_vars

(* For liveness: a handler that has begun goes on (the event loop runs it    *)
(* when its await resolves, and every await resolves or times out), the      *)
(* indexer polls for ever, and crashes are over at some time.               *)
HandlerStep(s) ==
  \/ DepositSave(s) \/ RefundSave(s) \/ CancelSave(s)
  \/ ClaimExpire(s) \/ ClaimCheck(s) \/ ClaimInsert(s) \/ ClaimRecount(s)
  \/ ClaimRollback(s) \/ ClaimSave(s) \/ UnclaimReopen(s)
  \/ SubmitSave(s) \/ SubmitMark(s)
  \/ SettleArm(s) \/ SettleStamp(s) \/ ReleaseJob(s)

Fairness ==
  /\ \A s \in Slots : WF_vars(HandlerStep(s))
  /\ \A i \in Indexers : WF_vars(Tick(i)) /\ WF_vars(Reconcile(i) \/ ReleaseJob(i))

CrashesEnd == <>[][\A p \in Procs : ~ Abort(p)]_vars

FairSpec == Spec /\ Fairness /\ CrashesEnd

-----------------------------------------------------------------------------
(* Properties *)

(* Every document and every local keeps its shape through all interleavings *)
(* and crashes, and the indexer never looks past the end of the log.        *)
TypeOK ==
  /\ status \in [Bounties -> Escrow!Statuses]
  /\ log \in Seq(Escrow!Event)
  /\ pool \subseteq Tx
  /\ merged \subseteq PRs /\ processed \subseteq merged
  /\ lifecycleStatus \in [Bounties -> Lifecycle]
  /\ onChainStatus \in [Bounties -> Escrow!Statuses]
  /\ releaseAttempts \in [Bounties -> Nat]
  /\ claims \in [ClaimIds -> ClaimRow]
  /\ proc \in [Procs -> Proc]
  /\ scan \in [Indexers -> ScanRange]
  /\ \A i \in Indexers : scan[i].pos <= scan[i].to /\ scan[i].to <= Len(log)
  /\ lastBlock \in 0 .. Len(log)
  /\ ledger \in Seq(1 .. Len(log))
  /\ payoutCount \in [Hunters -> Nat]

(* "may lag the chain but never contradict it" (README.md:33), the half of   *)
(* it that holds: nothing off-chain runs ahead of the chain.  A bounty is on *)
(* the board only once funded, shown paid or refunded only when it is, and a *)
(* claim is marked paid only after a payout.                                *)
NeverAheadOfChain ==
  /\ \A b \in Board : status[b] # "None"
  /\ \A b \in Bounties :
       /\ "paid" \in Shown(b) => status[b] = "Paid"
       /\ "refunded" \in Shown(b) => status[b] = "Refunded"
       /\ onChainStatus[b] # "None" => status[b] # "None"
       /\ onChainStatus[b] \in {"Paid", "Refunded"} => onChainStatus[b] = status[b]
  /\ \A r \in ClaimIds :
       claims[r].status = "paid" => status[claims[r].bounty] = "Paid"

(* Money only leaves for a merge commit GitHub has merged, to a hunter who   *)
(* submitted a pull request for that very bounty; the row still says so, or  *)
(* was deleted by the roll-back of a claim over the cap (claims.ts:106).     *)
PaysASubmitter ==
  \A i \in 1 .. Len(log) : log[i].kind = "BountyReleased" =>
    /\ log[i].sha \in merged
    /\ \E r \in ClaimIds :
         /\ claims[r].bounty = log[i].id
         /\ claims[r].hunter = log[i].to
         /\ claims[r].pr # Nil
         /\ claims[r].status \in {"submitted", "paid", "deleted"}

(* The maintainer is never told that a refund is possible while a release is *)
(* being sent, or can still be mined ("an active claim or submission is in   *)
(* progress", bounties.ts:311-321): whatever stale save hit the claims, one   *)
(* of them still stands in the way.  Except where the roll-back of a claim   *)
(* over the cap deleted it after it was submitted (claims.ts:106).           *)
RefundNotMidRelease ==
  \A b \in Bounties :
    RefundEligible(b) /\ status[b] = "Open" /\ Rows(b, "deleted") = {} =>
      /\ \A tx \in pool : tx.bounty # b
      /\ \A p \in Procs : At(p, "release.send") => proc[p].bounty # b

(* At-least-once: a payout below the checkpoint is in the ledger, wherever   *)
(* an indexer crashed (saveLastBlock comes after the whole range).           *)
NoPayoutSkipped ==
  \A k \in 1 .. lastBlock : log[k].kind = "BountyReleased" => Entered(k)

(* At-most-once: "a replayed event can never double-count" (README.md:54-55): *)
(* the ledger holds each payout once, and nothing but payouts.              *)
LedgerExact ==
  /\ \A j, k \in 1 .. Len(ledger) : ledger[j] = ledger[k] => j = k
  /\ \A k \in 1 .. Len(ledger) : log[ledger[k]].kind = "BountyReleased"

CaughtUp == lastBlock = Len(log) /\ \A i \in Indexers : At(i, "idle")

(* A sole indexer that has read everything mirrors the contract's status of  *)
(* every bounty (handlers.ts:46-58, 60-79, 104-110), whatever crashes,       *)
(* replays and stale refund saves came before.  Excepted are saves of a      *)
(* deposit after the bounty's end was mirrored and indexers that overlap:    *)
(* both rewind the mirror to Open for good.                                 *)
MirrorConverges ==
  CaughtUp => \A b \in Bounties : onChainStatus[b] = status[b]

(* A profile's counters are an aggregate of the ledger, written when a row   *)
(* enters it (handlers.ts:97-101, 117-159): once the indexer has read        *)
(* everything they show every payout of the hunter.  Excepted is a crash     *)
(* between the row and the counters: the replay finds the row and skips.     *)
CountersConverge ==
  CaughtUp => \A h \in Hunters :
    payoutCount[h] =
      Cardinality({k \in 1 .. Len(log) : log[k].kind = "BountyReleased" /\ log[k].to = h})

(* However often an event is replayed, by however many indexers, a profile   *)
(* never shows more payouts than the ledger holds ("a replayed event can     *)
(* never double-count", README.md:54-55).                                   *)
NeverDoubleCounts ==
  \A h \in Hunters : payoutCount[h] <= Cardinality(Earned(h))

(* "never let the cap be exceeded" (claims.ts:97-100): leaving aside rows    *)
(* inserted but not recounted or about to be rolled back, no wallet holds    *)
(* more than the cap.                                                       *)
Recounting ==
  {proc[s].row : s \in {t \in Slots : proc[t].pc \in {"claim.recount", "claim.rollback"}}}

CapHolds ==
  \A h \in Hunters : Cardinality(ActiveOf(h) \ Recounting) <= ActiveClaimCap

(* No release hangs and none is retried "forever" (settleMerge.ts:14-16): a  *)
(* bounty that is being released, or waits for a retry, is in the end paid,  *)
(* refunded or left to a human, if no request writes over it first, wherever *)
(* calls reject and the wait for a receipt times out.  Assumed is that       *)
(* merges name their commit and that no release() of an open bounty reverts  *)
(* once it is sent: either leaves it in 'releasing' with nobody to move it.  *)
ReleaseUnderway(b) ==
  \/ lifecycleStatus[b] = "releasing"
  \/ /\ lifecycleStatus[b] = "release_failed"
     /\ releaseAttempts[b] < MaxReleaseAttempts
     /\ \E r \in Rows(b, "submitted") : claims[r].prCommitSha # Nil

ReleaseSettles ==
  \A b \in Bounties : ReleaseUnderway(b) ~> ~ ReleaseUnderway(b)

(* "Errors are logged (never swallowed) and the bounty is moved to           *)
(* 'release_failed'" (settleMerge.ts:18-20): a bounty shown as 'releasing'   *)
(* has a job that will send its release or learn how it ended, a transaction *)
(* that can still be mined, or an end on chain for the indexer to show.      *)
(* Under the assumptions of ReleaseSettles, and if no job dies on the way.   *)
Sending == SettlePcs \ {"settle.arm"}

Releasing(b) ==
  \/ \E p \in Procs : proc[p].bounty = b /\ proc[p].pc \in Sending
  \/ \E tx \in pool : tx.bounty = b
  \/ status[b] # "Open"

NoneStranded ==
  \A b \in Bounties : lifecycleStatus[b] = "releasing" => Releasing(b)

-----------------------------------------------------------------------------
(* Promises of comments and README that the code does not keep: the runs     *)
(* that check them expect a counterexample                                  *)

(* "multiple hunters may file competing PRs and the first merge wins"        *)
(* (claims.ts:22-23): a delivery that is done with, of a merge that an       *)
(* authorized submitted claim waits for, has set that claim's bounty paying. *)
FirstMergeWins ==
  [][\A pr \in processed' \ processed, r \in ClaimIds :
       r \in Submitted(pr) /\ Authorized(r, pr) =>
         lifecycleStatus'[claims[r].bounty] \in
           {"releasing", "release_failed", "paid", "refunded"}]_vars

(* The hunter paid is the one whose pull request was merged ("the PR was     *)
(* authored by the hunter who holds the claim", webhooks.ts:127-133).        *)
PaysTheAuthor ==
  \A i \in 1 .. Len(log) :
    log[i].kind = "BountyReleased" => Author[log[i].sha] = log[i].to

(* "a bounty that is actually funded on chain can never be cancelled         *)
(* off-chain" (bounties.ts:473-474).                                        *)
FundedNeverCancelled ==
  [][\A b \in Bounties :
       lifecycleStatus[b] # "cancelled" /\ lifecycleStatus'[b] = "cancelled"
         => status[b] = "None"]_vars

(* "a redelivery of a row that never finished is re-attempted rather than    *)
(* silently dropped" (webhookDelivery.model.ts:3-6): when the delivery of a  *)
(* claim's merge is done with and its bounty is 'releasing', a release is    *)
(* under way or has been mined.                                             *)
RedeliveryReattempts ==
  \A r \in ClaimIds :
    /\ claims[r].status = "submitted" /\ claims[r].pr \in processed
    /\ lifecycleStatus[claims[r].bounty] = "releasing"
    => Releasing(claims[r].bounty)
=============================================================================

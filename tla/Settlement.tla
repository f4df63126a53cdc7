----------------------------- MODULE Settlement ------------------------------
(***************************************************************************)
(* From a merged pull request to a release() on chain: the GitHub webhook    *)
(* (routes/webhooks.ts), the manual release (routes/claims.ts), the shared   *)
(* settleMergedClaim and the detached attemptRelease (shared/bounty/         *)
(* settleMerge.ts, shared/chain/payout.ts), and the reconciler the indexer   *)
(* runs for failed releases.  A signer and an escrow are configured.         *)
(***************************************************************************)
EXTENDS DevBountyStore

Submitted(pr) == {r \in ClaimIds : claims[r].status = "submitted" /\ claims[r].pr = pr}

Settling(r, pr, hook) ==
  [Idle EXCEPT !.pc = "settle.arm", !.bounty = claims[r].bounty,
               !.hunter = claims[r].hunter, !.pr = pr, !.hook = hook]

(* The three checks on the signed payload: right repository and branch (the  *)
(* model's PRs are all such), opened by the claim's hunter, and naming the   *)
(* bounty's issue.                                                          *)
Authorized(r, pr) ==
  /\ Author[pr] = claims[r].hunter
  /\ claims[r].bounty \in Refs[pr]

(* seeded fault: a pull request closed without a merge settles too *)
FaultClosedSettles(s, pr) ==
  /\ pr \notin processed
  /\ \E r \in Submitted(pr) : Authorized(r, pr) /\ Begin(s, Settling(r, pr, TRUE))
  /\ UNCHANGED <<world, bounty, claims, processed, index>>

(* A delivery, first or repeated, of the merge of pr.  findOne takes any     *)
(* submitted claim with that PR number.                                     *)
WebhookSettles(s, pr) ==
  /\ pr \in merged \ processed
  /\ \E r \in Submitted(pr) : Authorized(r, pr) /\ Begin(s, Settling(r, pr, TRUE))
  /\ UNCHANGED <<world, bounty, claims, processed, index>>

(* A delivery with no claim to pay is ignored, and done with for good.  When *)
(* the mark fails nothing was written and the delivery may come again.      *)
WebhookIgnores(s, pr) ==
  /\ At(s, "idle")
  /\ pr \in merged \ processed
  /\ \/ Submitted(pr) = {}
     \/ \E r \in Submitted(pr) : ~ Authorized(r, pr)
  /\ processed' = processed \cup {pr}
  /\ UNCHANGED <<world, bounty, claims, proc, index>>

(* The maintainer releases by hand: any submitted claim of the bounty, if    *)
(* GitHub says its PR is merged.                                            *)
ManualRelease(s, b) ==
  /\ "manual-release" \in Requests
  /\ \E r \in Rows(b, "submitted") :
       claims[r].pr \in merged /\ Begin(s, Settling(r, claims[r].pr, FALSE))
  /\ UNCHANGED <<world, bounty, claims, processed, index>>

(* processedOk is written when processDelivery returns; the write may fail   *)
(* or come after a redelivery has been let in.                              *)
MarkProcessed(s) ==
  \/ proc[s].hook /\ processed' = processed \cup {proc[s].pr}
  \/ (proc[s].hook => "mark" \in Failures) /\ UNCHANGED processed

(* settleMergedClaim: updateOne guarded by lifecycleStatus = 'submitted' *)
SettleArm(s) ==
  LET b == proc[s].bounty IN
  /\ At(s, "settle.arm")
  /\ \/ /\ lifecycleStatus[b] = "submitted"
        /\ SetLifecycle(b, "releasing")
        /\ GoTo(s, "settle.stamp")
        /\ UNCHANGED processed
     \/ /\ lifecycleStatus[b] # "submitted"
        /\ Finish(s)
        /\ MarkProcessed(s)
        /\ UNCHANGED lifecycleStatus
  /\ UNCHANGED <<world, onChainStatus, releaseAttempts, claims, index>>

(* Without a merge commit nothing is stamped and no release is sent: the     *)
(* bounty rests in 'releasing'.  With one, prCommitSha goes to any submitted *)
(* claim of the bounty, and the release is fired, detached from the request. *)
SettleStamp(s) ==
  LET stamped == [r \in ClaimIds |-> [claims[r] EXCEPT !.prCommitSha = proc[s].pr]] IN
  /\ At(s, "settle.stamp")
  /\ \/ /\ "no-commit" \in Failures
        /\ Finish(s)
        /\ UNCHANGED claims
     \/ /\ UpdateSubmitted(proc[s].bounty, stamped)
        /\ proc' = [proc EXCEPT ![s].pc = "release.send", ![s].hook = FALSE]
  /\ MarkProcessed(s)
  /\ UNCHANGED <<world, bounty, index>>

(* Whoever awaits the end of a release goes on: a detached job is over, a    *)
(* reconciliation takes up the rest of its list.                            *)
GoOn(rest) ==
  [Idle EXCEPT !.pc = IF rest = {} THEN "idle" ELSE "reconcile.claim", !.list = rest]

Resume(p) == proc' = [proc EXCEPT ![p] = GoOn(proc[p].list)]

(* simulate, which refuses a bounty not open on chain, and broadcast *)
ReleaseSend(p) ==
  /\ At(p, "release.send")
  /\ status[proc[p].bounty] = "Open"
  /\ pool' = pool \cup {[bounty |-> proc[p].bounty, hunter |-> proc[p].hunter,
                         sha |-> proc[p].pr]}
  /\ GoTo(p, "release.wait")
  /\ UNCHANGED <<chain, merged, bounty, claims, processed, index>>

(* the receipt is there; its status, success or reverted, is not looked at *)
ReleaseDone(p) ==
  /\ At(p, "release.wait")
  /\ [bounty |-> proc[p].bounty, hunter |-> proc[p].hunter, sha |-> proc[p].pr] \notin pool
  /\ Resume(p)
  /\ UNCHANGED <<world, bounty, claims, processed, index>>

SendFails(p) ==
  \/ At(p, "release.send") /\ ("rpc" \in Failures \/ status[proc[p].bounty] # "Open")
  \/ At(p, "release.wait") /\ "rpc" \in Failures

(* seeded fault: a failure is not counted *)
FaultUncounted(p) ==
  /\ SendFails(p)
  /\ SetLifecycle(proc[p].bounty, "release_failed")
  /\ Resume(p)
  /\ UNCHANGED <<world, onChainStatus, releaseAttempts, claims, processed, index>>

(* seeded fault: a failure is logged and swallowed *)
FaultSwallowed(p) ==
  /\ SendFails(p)
  /\ Resume(p)
  /\ UNCHANGED <<world, bounty, claims, processed, index>>

(* the catch block: a revert in simulation, an RPC error, or a timeout of    *)
(* the wait for the receipt                                                 *)
ReleaseFails(p) ==
  /\ SendFails(p)
  /\ SetLifecycle(proc[p].bounty, "release_failed")
  /\ releaseAttempts' = [releaseAttempts EXCEPT ![proc[p].bounty] = @ + 1]
  /\ Resume(p)
  /\ UNCHANGED <<world, onChainStatus, claims, processed, index>>

(* the failed releases that are to be retried, and the first few of them *)
Stuck == {b \in Bounties : /\ lifecycleStatus[b] = "release_failed"
                           /\ releaseAttempts[b] < MaxReleaseAttempts}

Listed ==
  {b \in Stuck : Cardinality({c \in Stuck : PostedAt[c] < PostedAt[b]}) < ReconcileLimit}

(* reconcileFailedReleases reads the list once, and awaits each of its      *)
(* releases before it looks at the next.                                    *)
ReconcileList(i) ==
  /\ Listed # {}
  /\ Begin(i, GoOn(Listed))
  /\ UNCHANGED <<world, bounty, claims, processed, index>>

Retrying(r, rest) ==
  [Idle EXCEPT !.pc = "reconcile.arm", !.bounty = claims[r].bounty, !.list = rest,
               !.hunter = claims[r].hunter, !.pr = claims[r].prCommitSha]

(* Of the next in the list any submitted claim; if it carries a merge       *)
(* commit ...                                                               *)
ReconcileClaim(i) ==
  /\ At(i, "reconcile.claim")
  /\ \E b \in {c \in proc[i].list : \A d \in proc[i].list : PostedAt[c] <= PostedAt[d]} :
       LET rest == proc[i].list \ {b} IN
       \/ \E r \in Rows(b, "submitted") :
            /\ claims[r].prCommitSha # Nil
            /\ proc' = [proc EXCEPT ![i] = Retrying(r, rest)]
       \/ /\ \/ Rows(b, "submitted") = {}
             \/ \E r \in Rows(b, "submitted") : claims[r].prCommitSha = Nil
          /\ proc' = [proc EXCEPT ![i] = GoOn(rest)]
  /\ UNCHANGED <<world, bounty, claims, processed, index>>

(* ... its release is sent again if this update flips release_failed to      *)
(* releasing, whatever its attempts are by now                              *)
ReconcileArm(i) ==
  LET b == proc[i].bounty IN
  /\ At(i, "reconcile.arm")
  /\ \/ /\ lifecycleStatus[b] = "release_failed"
        /\ SetLifecycle(b, "releasing")
        /\ GoTo(i, "release.send")
     \/ /\ lifecycleStatus[b] # "release_failed"
        /\ Resume(i)
        /\ UNCHANGED lifecycleStatus
  /\ UNCHANGED <<world, onChainStatus, releaseAttempts, claims, processed, index>>

SettlementRequest(s) ==
  \/ \E pr \in PRs : WebhookSettles(s, pr) \/ WebhookIgnores(s, pr)
  \/ \E b \in Bounties : ManualRelease(s, b)
  \/ SettleArm(s)
  \/ SettleStamp(s)

ReleaseJob(p) == ReleaseSend(p) \/ ReleaseDone(p) \/ ReleaseFails(p)

Reconcile(i) == ReconcileList(i) \/ ReconcileClaim(i) \/ ReconcileArm(i)
=============================================================================

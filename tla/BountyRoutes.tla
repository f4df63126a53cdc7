---------------------------- MODULE BountyRoutes -----------------------------
(***************************************************************************)
(* api/src/api/routes/bounties.ts: the maintainer's three requests that      *)
(* move a posted bounty.  Each loads the bounty, consults the chain, and     *)
(* saves what it loaded with new statuses.  And what the requests that only  *)
(* read tell of a bounty.                                                   *)
(***************************************************************************)
EXTENDS DevBountyStore

Loaded(b, pc) ==
  [Idle EXCEPT !.pc = pc, !.bounty = b,
               !.life = lifecycleStatus[b], !.mirror = onChainStatus[b]]

(* the fields of the loaded document that save() writes: those that changed *)
SaveLifecycle(p, to) ==
  IF proc[p].life = to THEN UNCHANGED lifecycleStatus
  ELSE SetLifecycle(proc[p].bounty, to)

SaveMirror(p, to) ==
  IF proc[p].mirror = to THEN UNCHANGED onChainStatus
  ELSE SetMirror(proc[p].bounty, to)

(* verifyEscrowEventTx: a mined, successful transaction that emitted this   *)
(* event for this bounty                                                    *)
Verified(b, kind) == \E i \in 1 .. Len(log) : log[i].kind = kind /\ log[i].id = b

DepositRead(s, b) ==
  /\ "deposit-recorded" \in Requests
  /\ lifecycleStatus[b] = "pending_deposit"
  /\ Begin(s, Loaded(b, "deposit.save"))
  /\ UNCHANGED <<world, bounty, claims, processed, index>>

(* seeded fault: the deposit transaction is taken on trust *)
FaultDepositUnverified(s) ==
  /\ At(s, "deposit.save")
  /\ SaveMirror(s, "Open")
  /\ SaveLifecycle(s, "open")
  /\ Finish(s)
  /\ UNCHANGED <<world, releaseAttempts, claims, processed, index>>

(* Verified, and refused if not.  The log only grows, so verifying at the    *)
(* save loses no interleaving.                                              *)
DepositSave(s) ==
  /\ At(s, "deposit.save")
  /\ IF Verified(proc[s].bounty, "BountyCreated")
     THEN SaveMirror(s, "Open") /\ SaveLifecycle(s, "open")
     ELSE UNCHANGED <<onChainStatus, lifecycleStatus>>
  /\ Finish(s)
  /\ UNCHANGED <<world, releaseAttempts, claims, processed, index>>

NonRefundable == {"submitted", "releasing", "release_failed", "paid"}

RefundRead(s, b) ==
  /\ "refund-recorded" \in Requests
  /\ lifecycleStatus[b] \notin NonRefundable \cup {"refunded"}
  /\ Begin(s, Loaded(b, "refund.save"))
  /\ UNCHANGED <<world, bounty, claims, processed, index>>

RefundSave(s) ==
  /\ At(s, "refund.save")
  /\ IF Verified(proc[s].bounty, "BountyRefunded")
     THEN SaveMirror(s, "Refunded") /\ SaveLifecycle(s, "refunded")
     ELSE UNCHANGED <<onChainStatus, lifecycleStatus>>
  /\ Finish(s)
  /\ UNCHANGED <<world, releaseAttempts, claims, processed, index>>

(* A status None on chain was None before, so reading both documents at once *)
(* loses no interleaving; the deposit may still land before the save.        *)
CancelRead(s, b) ==
  /\ "cancel" \in Requests
  /\ lifecycleStatus[b] = "pending_deposit"
  /\ status[b] = "None"
  /\ Begin(s, Loaded(b, "cancel.save"))
  /\ UNCHANGED <<world, bounty, claims, processed, index>>

CancelSave(s) ==
  /\ At(s, "cancel.save")
  /\ SaveLifecycle(s, "cancelled")
  /\ Finish(s)
  /\ UNCHANGED <<world, onChainStatus, releaseAttempts, claims, processed, index>>

BountyRequest(s) ==
  \/ \E b \in Bounties : DepositRead(s, b) \/ RefundRead(s, b) \/ CancelRead(s, b)
  \/ DepositSave(s)
  \/ RefundSave(s)
  \/ CancelSave(s)

-----------------------------------------------------------------------------
(* GET /bounties, unless the reader asks for another status                  *)
Board == {b \in Bounties : lifecycleStatus[b] \notin {"cancelled", "pending_deposit"}}

(* GET /bounties/:id: the document's status, or for a bounty being released  *)
(* the chain's if it could be asked                                         *)
Shown(b) ==
  {lifecycleStatus[b]} \cup
    (IF lifecycleStatus[b] = "releasing" /\ status[b] = "Paid" THEN {"paid"} ELSE {})

(* seeded fault: a submission does not stand in the way of a refund *)
FaultSubmittedRefundable(b) == onChainStatus[b] = "Open" /\ Rows(b, "active") = {}

(* GET /bounties/:id/refund-eligibility, once the window has elapsed         *)
RefundEligible(b) ==
  onChainStatus[b] = "Open" /\ Rows(b, "active") \cup Rows(b, "submitted") = {}
=============================================================================

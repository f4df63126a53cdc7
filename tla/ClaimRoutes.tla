----------------------------- MODULE ClaimRoutes -----------------------------
(***************************************************************************)
(* api/src/api/routes/claims.ts: claim, give up and submit.                  *)
(* Time is abstracted: an active claim may be past its 7 days whenever it is *)
(* looked at, and the 24 h re-claim cooldown may have elapsed.  A request    *)
(* that is refused before its first write is no step.                       *)
(***************************************************************************)
EXTENDS DevBountyStore

ActiveOf(h) == {r \in ClaimIds : claims[r].hunter = h /\ claims[r].status = "active"}

NotClaimable == {"pending_deposit", "cancelled", "releasing", "paid", "refunded",
                 "release_failed"}

ClaimRead(s, b, h) ==
  /\ "claim" \in Requests
  /\ lifecycleStatus[b] \notin NotClaimable
  /\ Begin(s, [Idle EXCEPT !.pc = "claim.expire", !.bounty = b, !.hunter = h,
                           !.life = lifecycleStatus[b]])
  /\ UNCHANGED <<world, bounty, claims, processed, index>>

Expire(stale) ==
  [r \in ClaimIds |-> IF r \in stale THEN [claims[r] EXCEPT !.status = "expired"]
                      ELSE claims[r]]

(* updateMany: every active claim past its 7 days, of whatever bounty *)
ClaimExpire(s) ==
  /\ At(s, "claim.expire")
  /\ \E stale \in SUBSET {r \in ClaimIds : claims[r].status = "active"} :
       claims' = Expire(stale)
  /\ GoTo(s, "claim.check")
  /\ UNCHANGED <<world, bounty, processed, index>>

(* rows of this hunter on this bounty that ended, perhaps within the cooldown *)
Ended(b, h) == {r \in Rows(b, "expired") \cup Rows(b, "released") : claims[r].hunter = h}

(* the cooldown and the cap pre-check *)
ClaimCheck(s) ==
  /\ At(s, "claim.check")
  /\ \/ Cardinality(ActiveOf(proc[s].hunter)) < ActiveClaimCap /\ GoTo(s, "claim.insert")
     \/ /\ \/ Ended(proc[s].bounty, proc[s].hunter) # {}
           \/ Cardinality(ActiveOf(proc[s].hunter)) >= ActiveClaimCap
        /\ Finish(s)
  /\ UNCHANGED <<world, bounty, claims, processed, index>>

(* create(), which the partial unique index refuses while the bounty has an  *)
(* active claim                                                             *)
ClaimInsert(s) ==
  LET b == proc[s].bounty IN
  /\ At(s, "claim.insert")
  /\ IF Rows(b, "active") = {}
     THEN \E r \in {q \in ClaimIds : claims[q].status = "none"} :
            /\ claims' = [claims EXCEPT ![r] =
                 [NoClaim EXCEPT !.bounty = b, !.hunter = proc[s].hunter,
                                 !.status = "active"]]
            /\ proc' = [proc EXCEPT ![s].pc = "claim.recount", ![s].row = r]
     ELSE Finish(s) /\ UNCHANGED claims
  /\ UNCHANGED <<world, bounty, processed, index>>

(* seeded fault: only the pre-check guards the cap *)
FaultNoRecount(s) ==
  /\ At(s, "claim.recount")
  /\ GoTo(s, "claim.save")
  /\ UNCHANGED <<world, bounty, claims, processed, index>>

(* count again after the insert ... *)
ClaimRecount(s) ==
  /\ At(s, "claim.recount")
  /\ GoTo(s, IF Cardinality(ActiveOf(proc[s].hunter)) > ActiveClaimCap
             THEN "claim.rollback" ELSE "claim.save")
  /\ UNCHANGED <<world, bounty, claims, processed, index>>

(* ... and if over the cap delete our own row, whatever status it has by now *)
ClaimRollback(s) ==
  /\ At(s, "claim.rollback")
  /\ claims' = [claims EXCEPT ![proc[s].row].status = "deleted"]
  /\ Finish(s)
  /\ UNCHANGED <<world, bounty, processed, index>>

(* bounty.save() of the document loaded at the start *)
ClaimSave(s) ==
  /\ At(s, "claim.save")
  /\ IF proc[s].life = "claimed" THEN UNCHANGED lifecycleStatus
     ELSE SetLifecycle(proc[s].bounty, "claimed")
  /\ Finish(s)
  /\ UNCHANGED <<world, onChainStatus, releaseAttempts, claims, processed, index>>

(* DELETE /:id/claim: the claim is released, then the bounty reopened without *)
(* looking at it                                                            *)
Unclaim(s, b, h) ==
  /\ "unclaim" \in Requests
  /\ \E r \in Rows(b, "active") \cap ActiveOf(h) :
       claims' = [claims EXCEPT ![r].status = "released"]
  /\ Begin(s, [Idle EXCEPT !.pc = "unclaim.reopen", !.bounty = b])
  /\ UNCHANGED <<world, bounty, processed, index>>

UnclaimReopen(s) ==
  /\ At(s, "unclaim.reopen")
  /\ SetLifecycle(proc[s].bounty, "open")
  /\ Finish(s)
  /\ UNCHANGED <<world, onChainStatus, releaseAttempts, claims, processed, index>>

(* the hunter names any PR of the bounty's repository; GitHub is consulted   *)
(* between the read and the save                                            *)
SubmitRead(s, b, h, pr) ==
  /\ "submit" \in Requests
  /\ \E r \in Rows(b, "active") \cap ActiveOf(h) :
       Begin(s, [Idle EXCEPT !.pc = "submit.save", !.bounty = b, !.row = r, !.pr = pr])
  /\ UNCHANGED <<world, bounty, claims, processed, index>>

(* claim.save(): refused by the unique (bountyId, prUrl) index and when the  *)
(* row is gone; otherwise it overwrites whatever status the row has by now.  *)
SubmitRefused(r, pr) ==
  \/ claims[r].status = "deleted"
  \/ \E q \in ClaimIds \ {r} :
       claims[q].status # "deleted" /\ claims[q].bounty = claims[r].bounty
       /\ claims[q].pr = pr

SubmitSave(s) ==
  LET r == proc[s].row IN
  /\ At(s, "submit.save")
  /\ \/ /\ SubmitRefused(r, proc[s].pr)
        /\ Finish(s)
        /\ UNCHANGED claims
     \/ /\ ~ SubmitRefused(r, proc[s].pr)
        /\ claims' = [claims EXCEPT ![r].pr = proc[s].pr, ![r].status = "submitted"]
        /\ proc' = [proc EXCEPT ![s] = [Idle EXCEPT !.pc = "submit.mark",
                                                    !.bounty = proc[s].bounty]]
  /\ UNCHANGED <<world, bounty, processed, index>>

SubmitMark(s) ==
  /\ At(s, "submit.mark")
  /\ SetLifecycle(proc[s].bounty, "submitted")
  /\ Finish(s)
  /\ UNCHANGED <<world, onChainStatus, releaseAttempts, claims, processed, index>>

ClaimRequest(s) ==
  \/ \E b \in Bounties, h \in Hunters :
       ClaimRead(s, b, h) \/ Unclaim(s, b, h) \/ \E pr \in PRs : SubmitRead(s, b, h, pr)
  \/ ClaimExpire(s)
  \/ ClaimCheck(s)
  \/ ClaimInsert(s)
  \/ ClaimRecount(s)
  \/ ClaimRollback(s)
  \/ ClaimSave(s)
  \/ UnclaimReopen(s)
  \/ SubmitSave(s)
  \/ SubmitMark(s)
=============================================================================

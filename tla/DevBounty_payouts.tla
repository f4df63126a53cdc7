-------------------------- MODULE DevBounty_payouts --------------------------
(***************************************************************************)
(* Where the money goes: proofs, for any number of bounties, hunters, pull   *)
(* requests, requests and indexers, with or without crashes, that a payout   *)
(* is for submitted and merged work, that no refund is advised while one is  *)
(* on its way, and that the cap on claims holds.                            *)
(***************************************************************************)
EXTENDS DevBounty_proofs

(* A row that was submitted: no handler makes it anything else again.        *)
Worked(row) == row.pr # Nil /\ row.status \in {"submitted", "paid", "deleted"}

(* The hunter has submitted work for this bounty. *)
Backed(b, h) ==
  \E r \in ClaimIds : claims[r].bounty = b /\ claims[r].hunter = h /\ Worked(claims[r])

(* A submitted row names a pull request, and a stamp is a merged one. *)
RowHonest(row) ==
  /\ row.status = "submitted" => row.pr # Nil
  /\ row.prCommitSha # Nil => row.prCommitSha \in merged

RowsHonest == \A r \in ClaimIds : RowHonest(claims[r])

(* Whoever is about to be paid, or has been, submitted work for that bounty, *)
(* and the commit is merged: at every await of a release, ...               *)
JobsBacked ==
  \A p \in Procs : proc[p].pc \in ReleasePcs =>
    Backed(proc[p].bounty, proc[p].hunter) /\ proc[p].pr \in merged

(* ... in every transaction not mined yet, ...                              *)
PoolBacked == \A tx \in pool : Backed(tx.bounty, tx.hunter) /\ tx.sha \in merged

(* ... and in every payout of the escrow.                                   *)
LogBacked ==
  \A k \in 1 .. Len(log) : log[k].kind = "BountyReleased" =>
    Backed(log[k].id, log[k].to) /\ log[k].sha \in merged

WorkBehind == RowsHonest /\ JobsBacked /\ PoolBacked /\ LogBacked

-----------------------------------------------------------------------------
(* Every write to a row keeps it honest, and keeps a submission one. *)
RowAdvances(old, new) == RowHonest(new) /\ (Worked(old) => Worked(new))

LEMMA UpdateAdvances ==
  ASSUME RowsHonest, NEW b, NEW updated,
         \A r \in ClaimIds : claims[r].status = "submitted" => RowAdvances(claims[r], updated[r]),
         claims \in [ClaimIds -> ClaimRow],
         UpdateSubmitted(b, updated)
  PROVE  \A r \in ClaimIds : RowAdvances(claims[r], claims'[r])
  BY DEF UpdateSubmitted, Rows, RowsHonest, RowAdvances

LEMMA RowsAdvance ==
  ASSUME IInv, WorkBehind, [Next]_vars
  PROVE  \A r \in ClaimIds : RowAdvances(claims[r], claims'[r])
<1> DEFINE Goal == \A r \in ClaimIds : RowAdvances(claims[r], claims'[r])
<1>1. /\ claims \in [ClaimIds -> ClaimRow] /\ ProcsSound /\ ScanSound /\ RowsHonest
      /\ JobsBacked /\ LogBacked /\ Nil \notin PRs
  BY StoreAssumption DEF IInv, TypeOK, WorkBehind
<1>2. CASE UNCHANGED claims
  BY <1>1, <1>2 DEF RowsHonest, RowAdvances
<1>3. ASSUME NEW s \in Slots, ClaimExpire(s) PROVE Goal
  BY <1>1, <1>3 DEF ClaimExpire, Expire, ClaimRow, RowsHonest, RowHonest, RowAdvances, Worked
<1>4. ASSUME NEW s \in Slots, ClaimInsert(s) PROVE Goal
  <2>1. CASE UNCHANGED claims
    BY <1>2, <2>1
  <2>2. ASSUME NEW q \in ClaimIds, claims[q].status = "none",
               claims' = [claims EXCEPT ![q] =
                 [NoClaim EXCEPT !.bounty = proc[s].bounty, !.hunter = proc[s].hunter,
                                 !.status = "active"]]
        PROVE  Goal
    BY <1>1, <2>2 DEF NoClaim, RowsHonest, RowHonest, RowAdvances, Worked
  <2> QED
    BY <1>4, <2>1, <2>2 DEF ClaimInsert
<1>5. ASSUME NEW s \in Slots, ClaimRollback(s) PROVE Goal
  BY <1>1, <1>5 DEF ClaimRollback, ClaimRow, RowsHonest, RowHonest, RowAdvances, Worked
<1>6. ASSUME NEW s \in Slots, NEW b \in Bounties, NEW h \in Hunters, Unclaim(s, b, h) PROVE Goal
  BY <1>1, <1>6 DEF Unclaim, Rows, ClaimRow, RowsHonest, RowHonest, RowAdvances, Worked
<1>7. ASSUME NEW s \in Slots, SubmitSave(s) PROVE Goal
  <2>1. proc[s].pr \in PRs /\ proc[s].row \in ClaimIds
    BY <1>1, <1>7 DEF SubmitSave, At, ProcsSound, LocalsSound, Procs
  <2> QED
    BY <1>1, <1>2, <1>7, <2>1 DEF SubmitSave, ClaimRow, RowsHonest, RowHonest, RowAdvances, Worked
<1>8. ASSUME NEW s \in Slots, SettleStamp(s) PROVE Goal
  <2>1. proc[s].pr \in merged
    BY <1>1, <1>8 DEF SettleStamp, At, JobsBacked, ReleasePcs, SettlePcs, Procs
  <2> DEFINE stamped == [r \in ClaimIds |-> [claims[r] EXCEPT !.prCommitSha = proc[s].pr]]
  <2>2. \A r \in ClaimIds : RowAdvances(claims[r], stamped[r])
    BY <1>1, <2>1 DEF ClaimRow, RowsHonest, RowHonest, RowAdvances, Worked
  <2> QED
    BY <1>1, <1>2, <1>8, <2>2, UpdateAdvances DEF SettleStamp
<1>9. ASSUME NEW i \in Indexers, ReleasedClaim(i) PROVE Goal
  <2>1. scan[i].pos < scan[i].to /\ Event(i).kind = "BountyReleased"
    BY <1>1, <1>9 DEF ReleasedClaim, At, ScanSound, Unread, ReleasedPcs
  <2>2. Event(i).sha \in merged
    BY <1>1, <2>1, EventIsTrue DEF LogBacked, Event
  <2> DEFINE paid == [r \in ClaimIds |->
                       [claims[r] EXCEPT !.status = "paid", !.prCommitSha = Event(i).sha]]
  <2>3. \A r \in ClaimIds : claims[r].status = "submitted" => RowAdvances(claims[r], paid[r])
    BY <1>1, <2>2 DEF ClaimRow, RowsHonest, RowHonest, RowAdvances, Worked
  <2> QED
    BY <1>1, <1>9, <2>3, UpdateAdvances DEF ReleasedClaim
<1>10. ASSUME Environment PROVE Goal
  BY <1>2, <1>10 DEF Environment, MaintainerFunds, MaintainerRefunds, MineRelease, GithubMerges,
     Abort
<1>11. ASSUME NEW s \in Slots, BountyRequest(s) PROVE Goal
  BY <1>2, <1>11 DEF BountyRequest, DepositRead, RefundRead, CancelRead, DepositSave, RefundSave,
     CancelSave
<1>12. ASSUME NEW s \in Slots, ClaimRequest(s) PROVE Goal
  BY <1>2, <1>3, <1>4, <1>5, <1>6, <1>7, <1>12 DEF ClaimRequest, ClaimRead, ClaimCheck,
     ClaimRecount, ClaimSave, UnclaimReopen, SubmitRead, SubmitMark
<1>13. ASSUME NEW s \in Slots, SettlementRequest(s) PROVE Goal
  BY <1>2, <1>8, <1>13 DEF SettlementRequest, WebhookSettles, WebhookIgnores, ManualRelease,
     SettleArm
<1>14. ASSUME NEW p \in Procs, ReleaseJob(p) PROVE Goal
  BY <1>2, <1>14 DEF ReleaseJob, ReleaseSend, ReleaseDone, ReleaseFails
<1>15. ASSUME NEW i \in Indexers, Tick(i) \/ Reconcile(i) PROVE Goal
  BY <1>2, <1>9, <1>15 DEF Tick, TickStart, CreatedMirror, CreatedOpen, ReleasedBounty,
     ReleasedLedger, ReleasedAggregate, ReleasedCounters, RefundedBounty, Checkpoint,
     Reconcile, ReconcileList, ReconcileClaim, ReconcileArm
<1>16. CASE UNCHANGED vars
  BY <1>2, <1>16 DEF vars
<1> QED
  BY <1>10, <1>11, <1>12, <1>13, <1>14, <1>15, <1>16 DEF Next

(* Work that backs a payout keeps backing it: rows keep their bounty and      *)
(* hunter, and a submission is not taken back.                              *)
LEMMA BackingStays ==
  ASSUME IInv, WorkBehind, [Next]_vars, NEW b, NEW h, Backed(b, h)
  PROVE  Backed(b, h)'
<1>1. PICK r \in ClaimIds : claims[r].bounty = b /\ claims[r].hunter = h /\ Worked(claims[r])
  BY DEF Backed
<1>2. RowKept(claims[r], claims'[r]) /\ RowAdvances(claims[r], claims'[r])
  BY ClaimMoves, RowsAdvance DEF RowsStep
<1> QED
  BY <1>1, <1>2 DEF Backed, Worked, RowKept, RowAdvances

(* A submitted row is work. *)
LEMMA SubmittedIsWork ==
  ASSUME RowsHonest, NEW r \in ClaimIds, claims[r].status = "submitted"
  PROVE  Backed(claims[r].bounty, claims[r].hunter)
  BY DEF RowsHonest, RowHonest, Backed, Worked

(* What a step leaves a release at: the claim and the commit it had, or new   *)
(* ones it just read from a submitted row                                   *)
JobKept(p) ==
  proc'[p].pc \in ReleasePcs =>
    \/ /\ proc[p].pc \in ReleasePcs
       /\ proc'[p].bounty = proc[p].bounty /\ proc'[p].hunter = proc[p].hunter
       /\ proc'[p].pr = proc[p].pr
    \/ Backed(proc'[p].bounty, proc'[p].hunter) /\ proc'[p].pr \in merged

LEMMA JobMoves == ASSUME IInv, WorkBehind, [Next]_vars, NEW p \in Procs PROVE JobKept(p)
<1>1. proc \in [Procs -> Proc] /\ RowsHonest /\ Nil \notin PRs
  BY StoreAssumption DEF IInv, TypeOK, WorkBehind
<1>2. CASE proc'[p] = proc[p]
  BY <1>2 DEF JobKept
<1>3. CASE proc'[p].pc \notin ReleasePcs
  BY <1>3 DEF JobKept
<1> DEFINE Aside == {"idle", "reconcile.claim", "scan", "created.open", "released.claim", "released.ledger",
                     "released.aggregate", "released.counters"}
                      \cup ClaimPcs \cup SubmitPcs \cup SavePcs
<1>4. \A pc \in Aside : pc \notin ReleasePcs
  BY DEF ClaimPcs, SubmitPcs, SavePcs, ReleasePcs, SettlePcs
<1>5. ASSUME NEW q \in Procs, NEW st, proc' = [proc EXCEPT ![q] = st], st.pc \in Aside
      PROVE  JobKept(p)
  BY <1>1, <1>2, <1>3, <1>4, <1>5
<1>6. ASSUME NEW q \in Procs, NEW pc \in Aside, GoTo(q, pc) PROVE JobKept(p)
  <2>1. proc' = [proc EXCEPT ![q] = [proc[q] EXCEPT !.pc = pc]]
    BY <1>1, <1>6 DEF GoTo
  <2>2. [proc[q] EXCEPT !.pc = pc].pc = pc
    BY <1>1 DEF Proc
  <2> QED
    BY <1>5, <2>1, <2>2
<1>7. ASSUME NEW q \in Procs, Finish(q) PROVE JobKept(p)
  BY <1>5, <1>7 DEF Finish, Idle
<1>8. ASSUME NEW q \in Procs, NEW r \in ClaimIds, NEW st, proc' = [proc EXCEPT ![q] = st],
             claims[r].status = "submitted",
             st.bounty = claims[r].bounty, st.hunter = claims[r].hunter, st.pr \in merged
      PROVE  JobKept(p)
  <2>1. Backed(st.bounty, st.hunter)
    BY <1>1, <1>8, SubmittedIsWork
  <2> QED
    BY <1>1, <1>2, <1>8, <2>1 DEF JobKept
<1>9. ASSUME NEW q \in Procs, NEW pc, NEW hook, proc[q].pc \in ReleasePcs,
             proc' = [proc EXCEPT ![q].pc = pc, ![q].hook = hook]
      PROVE  JobKept(p)
  BY <1>1, <1>2, <1>9 DEF JobKept, Proc
<1>7a. ASSUME NEW q \in Procs, Resume(q) PROVE JobKept(p)
  BY <1>1, <1>2, <1>3, <1>4, <1>7a, GoOnPc
<1>10. ASSUME NEW q \in Procs, NEW pc, proc[q].pc \in ReleasePcs, GoTo(q, pc) PROVE JobKept(p)
  BY <1>1, <1>2, <1>10 DEF JobKept, GoTo, Proc
<1>11. ASSUME Environment PROVE JobKept(p)
  BY <1>2, <1>7, <1>11 DEF Environment, MaintainerFunds, MaintainerRefunds, MineRelease,
     GithubMerges, Abort
<1>12. ASSUME NEW s \in Slots, BountyRequest(s) PROVE JobKept(p)
  <2>1. ASSUME NEW b \in Bounties, NEW pc \in SavePcs, Begin(s, Loaded(b, pc)) PROVE JobKept(p)
    BY <1>5, <2>1 DEF Begin, Loaded, Idle, Procs
  <2> QED
    BY <1>7, <1>12, <2>1 DEF BountyRequest, DepositRead, RefundRead, CancelRead, DepositSave,
       RefundSave, CancelSave, SavePcs, Procs
<1>13. ASSUME NEW s \in Slots, ClaimRequest(s) PROVE JobKept(p)
  <2>1. s \in Procs
    BY DEF Procs
  <2>2. ASSUME NEW b \in Bounties, NEW h \in Hunters,
               ClaimRead(s, b, h) \/ Unclaim(s, b, h) \/ \E pr \in PRs : SubmitRead(s, b, h, pr)
        PROVE  JobKept(p)
    BY <1>5, <2>1, <2>2 DEF ClaimRead, Unclaim, SubmitRead, Begin, Idle, ClaimPcs, SubmitPcs
  <2>3. ASSUME ClaimExpire(s) \/ ClaimCheck(s) \/ ClaimRecount(s) PROVE JobKept(p)
    BY <1>6, <1>7, <2>1, <2>3 DEF ClaimExpire, ClaimCheck, ClaimRecount, ClaimPcs
  <2>4. ASSUME ClaimInsert(s) PROVE JobKept(p)
    <3>1. CASE Finish(s)
      BY <1>7, <2>1, <3>1
    <3>2. ASSUME NEW r, proc' = [proc EXCEPT ![s].pc = "claim.recount", ![s].row = r]
          PROVE  JobKept(p)
      BY <1>1, <1>2, <1>3, <1>4, <2>1, <3>2 DEF Proc, ClaimPcs
    <3> QED
      BY <2>4, <3>1, <3>2 DEF ClaimInsert
  <2>5. ASSUME ClaimRollback(s) \/ ClaimSave(s) \/ UnclaimReopen(s) \/ SubmitMark(s) PROVE JobKept(p)
    BY <1>7, <2>1, <2>5 DEF ClaimRollback, ClaimSave, UnclaimReopen, SubmitMark
  <2>6. ASSUME SubmitSave(s) PROVE JobKept(p)
    BY <1>5, <1>7, <2>1, <2>6 DEF SubmitSave, Idle, SubmitPcs
  <2> QED
    BY <1>13, <2>2, <2>3, <2>4, <2>5, <2>6 DEF ClaimRequest
<1>14. ASSUME NEW s \in Slots, SettlementRequest(s) PROVE JobKept(p)
  <2>1. s \in Procs
    BY DEF Procs
  <2>0. ASSUME NEW r \in ClaimIds, claims[r].status = "submitted", NEW pr \in merged, NEW hook,
               Begin(s, Settling(r, pr, hook))
        PROVE  JobKept(p)
    <3>1. /\ Settling(r, pr, hook).bounty = claims[r].bounty
          /\ Settling(r, pr, hook).hunter = claims[r].hunter
          /\ Settling(r, pr, hook).pr = pr
      BY DEF Settling, Idle
    <3> QED
      BY <1>8, <2>0, <2>1, <3>1 DEF Begin
  <2>2. ASSUME NEW pr \in PRs, WebhookSettles(s, pr) PROVE JobKept(p)
    BY <2>0, <2>2 DEF WebhookSettles, Submitted
  <2>3. ASSUME NEW b \in Bounties, ManualRelease(s, b) PROVE JobKept(p)
    BY <2>0, <2>3 DEF ManualRelease, Rows
  <2>4. ASSUME SettleArm(s) PROVE JobKept(p)
    BY <1>7, <1>10, <2>1, <2>4 DEF SettleArm, At, ReleasePcs, SettlePcs
  <2>5. ASSUME SettleStamp(s) PROVE JobKept(p)
    <3>1. CASE Finish(s)
      BY <1>7, <2>1, <3>1
    <3>2. CASE proc' = [proc EXCEPT ![s].pc = "release.send", ![s].hook = FALSE]
      BY <1>9, <2>1, <2>5, <3>2 DEF SettleStamp, At, ReleasePcs, SettlePcs
    <3> QED
      BY <2>5, <3>1, <3>2 DEF SettleStamp
  <2> QED
    BY <1>2, <1>14, <2>2, <2>3, <2>4, <2>5 DEF SettlementRequest, WebhookIgnores
<1>15. ASSUME NEW q \in Procs, ReleaseJob(q) PROVE JobKept(p)
  BY <1>7a, <1>10, <1>15 DEF ReleaseJob, ReleaseSend, ReleaseDone, ReleaseFails, At, ReleasePcs,
     SettlePcs
<1>16. ASSUME NEW i \in Indexers, Tick(i) PROVE JobKept(p)
  BY <1>5, <1>6, <1>7, <1>16 DEF Tick, TickStart, CreatedMirror, CreatedOpen, ReleasedBounty,
     ReleasedClaim, ReleasedLedger, ReleasedAggregate, ReleasedCounters, RefundedBounty,
     Checkpoint, Advance, Begin, Idle, Procs
<1>17. ASSUME NEW i \in Indexers, Reconcile(i) PROVE JobKept(p)
  <2>1. i \in Procs
    BY DEF Procs
  <2>2. ASSUME NEW rest, proc' = [proc EXCEPT ![i] = GoOn(rest)] PROVE JobKept(p)
    BY <1>1, <1>2, <1>3, <1>4, <2>1, <2>2, GoOnPc
  <2>3. ASSUME ReconcileList(i) PROVE JobKept(p)
    BY <2>2, <2>3 DEF ReconcileList, Begin
  <2>4. ASSUME ReconcileClaim(i) PROVE JobKept(p)
    <3>1. ASSUME NEW b, NEW r \in Rows(b, "submitted"), claims[r].prCommitSha # Nil, NEW rest,
                 proc' = [proc EXCEPT ![i] = Retrying(r, rest)]
          PROVE  JobKept(p)
      <4>1. /\ Retrying(r, rest).bounty = claims[r].bounty
            /\ Retrying(r, rest).hunter = claims[r].hunter
            /\ Retrying(r, rest).pr = claims[r].prCommitSha
        BY DEF Retrying, Idle
      <4>2. r \in ClaimIds /\ claims[r].status = "submitted" /\ claims[r].prCommitSha \in merged
        BY <1>1, <3>1 DEF Rows, RowsHonest, RowHonest
      <4> QED
        BY <1>8, <2>1, <3>1, <4>1, <4>2
    <3> QED
      BY <2>2, <2>4, <3>1 DEF ReconcileClaim
  <2>5. ASSUME ReconcileArm(i) PROVE JobKept(p)
    BY <1>7a, <1>10, <2>1, <2>5 DEF ReconcileArm, At, ReleasePcs
  <2> QED
    BY <1>17, <2>3, <2>4, <2>5 DEF Reconcile
<1>18. CASE UNCHANGED vars
  BY <1>2, <1>18 DEF vars
<1> QED
  BY <1>11, <1>12, <1>13, <1>14, <1>15, <1>16, <1>17, <1>18 DEF Next

(* A transaction in the pool was there before, or a release at its send just *)
(* broadcast it.                                                            *)
Sent(p) == [bounty |-> proc[p].bounty, hunter |-> proc[p].hunter, sha |-> proc[p].pr]

LEMMA PoolMoves ==
  ASSUME [Next]_vars, NEW tx \in pool'
  PROVE  tx \in pool \/ (\E p \in Procs : At(p, "release.send") /\ tx = Sent(p))
<1>1. CASE pool' \subseteq pool
  BY <1>1
<1>2. ASSUME Environment PROVE pool' \subseteq pool
  BY <1>2 DEF Environment, MaintainerFunds, MaintainerRefunds, MineRelease, GithubMerges, Abort,
     world
<1>3. ASSUME NEW s \in Slots, BountyRequest(s) PROVE pool' \subseteq pool
  BY <1>3 DEF BountyRequest, DepositRead, RefundRead, CancelRead, DepositSave, RefundSave,
     CancelSave, world
<1>4. ASSUME NEW s \in Slots, ClaimRequest(s) PROVE pool' \subseteq pool
  BY <1>4 DEF ClaimRequest, ClaimRead, ClaimExpire, ClaimCheck, ClaimInsert, ClaimRecount,
     ClaimRollback, ClaimSave, Unclaim, UnclaimReopen, SubmitRead, SubmitSave, SubmitMark, world
<1>5. ASSUME NEW s \in Slots, SettlementRequest(s) PROVE pool' \subseteq pool
  BY <1>5 DEF SettlementRequest, WebhookSettles, WebhookIgnores, ManualRelease, SettleArm,
     SettleStamp, world
<1>6. ASSUME NEW p \in Procs, ReleaseJob(p)
      PROVE  \/ pool' \subseteq pool
             \/ At(p, "release.send") /\ pool' = pool \cup {Sent(p)}
  BY <1>6 DEF ReleaseJob, ReleaseSend, ReleaseDone, ReleaseFails, Sent, world
<1>7. ASSUME NEW i \in Indexers, Tick(i) \/ Reconcile(i) PROVE pool' \subseteq pool
  BY <1>7 DEF Tick, TickStart, CreatedMirror, CreatedOpen, ReleasedBounty, ReleasedClaim,
     ReleasedLedger, ReleasedAggregate, ReleasedCounters, RefundedBounty, Checkpoint,
     Reconcile, ReconcileList, ReconcileClaim, ReconcileArm, world
<1>8. CASE UNCHANGED vars
  BY <1>8 DEF vars, world
<1> QED
  BY <1>1, <1>2, <1>3, <1>4, <1>5, <1>6, <1>7, <1>8 DEF Next

(* A log entry was there before, or is no payout, or pays a transaction of    *)
(* the pool.                                                                *)
LogExtends(e) ==
  /\ Len(log') = Len(log) + 1
  /\ log'[Len(log) + 1] = e
  /\ \A k \in 1 .. Len(log) : log'[k] = log[k]

LEMMA LogMoves ==
  ASSUME IInv, [Next]_vars
  PROVE  \/ UNCHANGED log
         \/ \E e : /\ LogExtends(e)
                   /\ \/ e.kind # "BountyReleased"
                      \/ \E tx \in pool : e = Escrow!Released(tx.bounty, tx.hunter, tx.sha)
<1>1. log \in Seq(Escrow!Event) /\ pool \subseteq Tx
  BY DEF IInv, TypeOK
<1>2. ASSUME NEW b, NEW from, NEW to, NEW e \in Escrow!Event, Escrow!Move(b, from, to, e)
      PROVE  LogExtends(e)
  BY <1>1, <1>2, AppendProperties DEF Escrow!Move, LogExtends
<1>3. ASSUME NEW b \in Bounties, MaintainerFunds(b)
      PROVE  LogExtends(Escrow!Created(b)) /\ Escrow!Created(b).kind # "BountyReleased"
  <2>1. Escrow!Created(b) \in Escrow!Event /\ Escrow!Created(b).kind # "BountyReleased"
    BY DEF Escrow!Event, Escrow!Created
  <2> QED
    BY <1>2, <1>3, <2>1 DEF MaintainerFunds, Escrow!Fund
<1>4. ASSUME NEW b \in Bounties, MaintainerRefunds(b)
      PROVE  LogExtends(Escrow!Refunded(b)) /\ Escrow!Refunded(b).kind # "BountyReleased"
  <2>1. Escrow!Refunded(b) \in Escrow!Event /\ Escrow!Refunded(b).kind # "BountyReleased"
    BY DEF Escrow!Event, Escrow!Refunded
  <2> QED
    BY <1>2, <1>4, <2>1 DEF MaintainerRefunds, Escrow!GiveBack
<1>5. ASSUME NEW tx \in pool, MineRelease(tx)
      PROVE  UNCHANGED log \/ LogExtends(Escrow!Released(tx.bounty, tx.hunter, tx.sha))
  <2>1. Escrow!Released(tx.bounty, tx.hunter, tx.sha) \in Escrow!Event
    BY <1>1 DEF Tx, Escrow!Event, Escrow!Released
  <2> QED
    BY <1>2, <1>5, <2>1 DEF MineRelease, Escrow!PayOut, chain
<1>6. ASSUME NEW s \in Slots, BountyRequest(s) PROVE UNCHANGED log
  BY <1>6 DEF BountyRequest, DepositRead, DepositSave, RefundRead, RefundSave,
       CancelRead, CancelSave, world, chain
<1>7. ASSUME NEW s \in Slots, ClaimRequest(s) PROVE UNCHANGED log
  BY <1>7 DEF ClaimRequest, ClaimRead, ClaimExpire, ClaimCheck, ClaimInsert, ClaimRecount,
       ClaimRollback, ClaimSave, Unclaim, UnclaimReopen, SubmitRead, SubmitSave, SubmitMark,
       world, chain
<1>8. ASSUME NEW s \in Slots, SettlementRequest(s) PROVE UNCHANGED log
  BY <1>8 DEF SettlementRequest, WebhookSettles, WebhookIgnores, ManualRelease, SettleArm,
       SettleStamp, world, chain
<1>9. ASSUME NEW p \in Procs, ReleaseJob(p) PROVE UNCHANGED log
  BY <1>9 DEF ReleaseJob, ReleaseSend, ReleaseDone, ReleaseFails, world, chain
<1>10. ASSUME NEW i \in Indexers, Tick(i) \/ Reconcile(i) PROVE UNCHANGED log
  BY <1>10 DEF Tick, TickStart, CreatedMirror, CreatedOpen, ReleasedBounty, ReleasedClaim,
       ReleasedLedger, ReleasedAggregate, ReleasedCounters, RefundedBounty, Checkpoint,
       Reconcile, ReconcileList, ReconcileClaim, ReconcileArm, world, chain
<1>11. ASSUME NEW x, GithubMerges(x) \/ Abort(x) PROVE UNCHANGED log
  BY <1>11 DEF GithubMerges, Abort, world, chain
<1>12. CASE UNCHANGED vars
  BY <1>12 DEF vars, world, chain
<1> QED
  BY <1>3, <1>4, <1>5, <1>6, <1>7, <1>8, <1>9, <1>10, <1>11, <1>12 DEF Next, Environment

(* Every step keeps work behind every payout and every release on its way.   *)
LEMMA WorkStaysBehind == ASSUME IInv, WorkBehind, [Next]_vars PROVE WorkBehind'
<1>1. /\ merged \subseteq merged' /\ proc' \in [Procs -> Proc]
      /\ Len(log) \in Nat /\ pool \subseteq Tx
  BY WorldMoves, ProcsInvariant, LenProperties DEF WorldStep, IInv, TypeOK
<1>2. \A b, h : Backed(b, h) => Backed(b, h)'
  BY BackingStays
<1>3. RowsHonest'
  <2>1. \A row : RowHonest(row) => RowHonest(row)'
    BY <1>1 DEF RowHonest
  <2> QED
    BY <2>1, RowsAdvance DEF RowsHonest, RowAdvances
<1>4. JobsBacked'
  <2> SUFFICES ASSUME NEW p \in Procs, proc'[p].pc \in ReleasePcs
               PROVE  Backed(proc[p].bounty, proc[p].hunter)' /\ proc'[p].pr \in merged'
    BY DEF JobsBacked, ReleasePcs, SettlePcs
  <2>1. JobKept(p)
    BY JobMoves
  <2>2. Backed(proc'[p].bounty, proc'[p].hunter) /\ proc'[p].pr \in merged
    BY <2>1 DEF JobKept, WorkBehind, JobsBacked
  <2>3. PICK b, h : b = proc'[p].bounty /\ h = proc'[p].hunter
    OBVIOUS
  <2>4. Backed(b, h)'
    BY <1>2, <2>2, <2>3
  <2> QED
    BY <1>1, <2>2, <2>3, <2>4 DEF Backed
<1>5. PoolBacked'
  <2> SUFFICES ASSUME NEW tx \in pool' PROVE Backed(tx.bounty, tx.hunter)' /\ tx.sha \in merged'
    BY DEF PoolBacked
  <2>1. Backed(tx.bounty, tx.hunter) /\ tx.sha \in merged
    BY PoolMoves DEF WorkBehind, PoolBacked, JobsBacked, At, Sent, ReleasePcs, SettlePcs
  <2> QED
    BY <1>1, <1>2, <2>1
<1>6. LogBacked'
  <2> SUFFICES ASSUME NEW k \in 1 .. Len(log'), log'[k].kind = "BountyReleased"
               PROVE  Backed(log[k].id, log[k].to)' /\ log'[k].sha \in merged'
    BY DEF LogBacked
  <2>1. PICK e : e = log'[k]
    OBVIOUS
  <2>2. Backed(e.id, e.to) /\ e.sha \in merged
    BY <1>1, <2>1, LogMoves DEF LogExtends, WorkBehind, LogBacked, PoolBacked, Escrow!Released
  <2>3. Backed(e.id, e.to)'
    BY <1>2, <2>2
  <2> QED
    BY <1>1, <2>1, <2>2, <2>3 DEF Backed
<1> QED
  BY <1>3, <1>4, <1>5, <1>6 DEF WorkBehind

(* There is work behind every payout, in every reachable state.              *)
LEMMA WorkInvariant == Spec => []WorkBehind
<1>1. Init => WorkBehind
  BY DEF Init, Escrow!Init, NoClaim, Idle, WorkBehind, RowsHonest, RowHonest, JobsBacked,
     PoolBacked, LogBacked, ReleasePcs, SettlePcs
<1>2. IInv /\ WorkBehind /\ [Next]_vars => WorkBehind'
  BY WorkStaysBehind
<1> QED
  BY <1>1, <1>2, Invariant, PTL DEF Spec

(* Money only leaves for a merged pull request, to a hunter who submitted    *)
(* work for that very bounty, whatever stale claim rows, retries and crashes *)
(* lay between the submission and the payout.                               *)
THEOREM PaidForWork == Spec => []PaysASubmitter
<1>1. WorkBehind => PaysASubmitter
  BY DEF WorkBehind, LogBacked, Backed, Worked, PaysASubmitter
<1> QED
  BY <1>1, WorkInvariant, PTL

(* No maintainer is told to refund a bounty while a release of it is being    *)
(* sent or can still be mined: the submission behind the release is still in *)
(* the way, unless the cap's roll-back deleted it.                           *)
THEOREM NoRefundMidRelease == Spec => []RefundNotMidRelease
<1> SUFFICES ASSUME IInv, WorkBehind PROVE RefundNotMidRelease
  BY Invariant, WorkInvariant, PTL
<1> SUFFICES ASSUME NEW b \in Bounties, RefundEligible(b), status[b] = "Open",
                    Rows(b, "deleted") = {}
             PROVE  \A h : ~ Backed(b, h)
  BY DEF RefundNotMidRelease, WorkBehind, PoolBacked, JobsBacked, At, ReleasePcs, SettlePcs
<1> QED
  BY DEF RefundEligible, Rows, Backed, Worked, IInv, RowsSound, RowSound

-----------------------------------------------------------------------------
(* The cap on claims *)

(* No recount is cut off: a crash, or a MongoDB call that rejects, before the *)
(* recount or the roll-back has run leaves a row over the cap for good.      *)
RecountCut == \E s \in Slots : Abort(s) /\ proc[s].pc \in {"claim.recount", "claim.rollback"}

RecountsFinish == [][~ RecountCut]_vars

(* The row a request has inserted and not recounted yet is its own hunter's. *)
OwnRows ==
  \A s \in Slots : proc[s].pc \in {"claim.recount", "claim.rollback"} =>
    claims[proc[s].row].hunter = proc[s].hunter

Capped == CapHolds /\ OwnRows

(* A row becomes active only by an insert that has yet to recount.           *)
LEMMA ActiveMoves ==
  ASSUME IInv, [Next]_vars, NEW r \in ClaimIds, claims'[r].status = "active"
  PROVE  \/ claims[r].status = "active" /\ claims'[r].hunter = claims[r].hunter
         \/ \E s \in Slots : ClaimInsert(s) /\ proc'[s].pc = "claim.recount" /\ proc'[s].row = r
<1> DEFINE Goal ==
      claims[r].status = "active" \/ \E s \in Slots :
        ClaimInsert(s) /\ proc'[s].pc = "claim.recount" /\ proc'[s].row = r
<1>1. /\ claims \in [ClaimIds -> ClaimRow] /\ proc \in [Procs -> Proc]
  BY DEF IInv, TypeOK
<1>2. CASE UNCHANGED claims
  BY <1>2
<1>3. ASSUME NEW s \in Slots, ClaimExpire(s) PROVE Goal
  BY <1>1, <1>3 DEF ClaimExpire, Expire, ClaimRow
<1>4. ASSUME NEW s \in Slots, ClaimInsert(s) PROVE Goal
  BY <1>1, <1>2, <1>4 DEF ClaimInsert, Proc, Procs
<1>5. ASSUME NEW s \in Slots, ClaimRollback(s) \/ SubmitSave(s) PROVE Goal
  BY <1>1, <1>5 DEF ClaimRollback, SubmitSave, ClaimRow
<1>6. ASSUME NEW s \in Slots, NEW b \in Bounties, NEW h \in Hunters, Unclaim(s, b, h) PROVE Goal
  BY <1>1, <1>6 DEF Unclaim, ClaimRow
<1>7. ASSUME NEW s \in Slots, SettleStamp(s) PROVE Goal
  BY <1>1, <1>7 DEF SettleStamp, UpdateSubmitted, Rows, ClaimRow
<1>8. ASSUME NEW i \in Indexers, ReleasedClaim(i) PROVE Goal
  BY <1>1, <1>8 DEF ReleasedClaim, UpdateSubmitted, ClaimRow
<1>9. ASSUME Environment PROVE Goal
  BY <1>2, <1>9 DEF Environment, MaintainerFunds, MaintainerRefunds, MineRelease, GithubMerges,
     Abort
<1>10. ASSUME NEW s \in Slots, BountyRequest(s) PROVE Goal
  BY <1>2, <1>10 DEF BountyRequest, DepositRead, RefundRead, CancelRead, DepositSave, RefundSave,
     CancelSave
<1>11. ASSUME NEW s \in Slots, ClaimRequest(s) PROVE Goal
  BY <1>2, <1>3, <1>4, <1>5, <1>6, <1>11 DEF ClaimRequest, ClaimRead, ClaimCheck,
     ClaimRecount, ClaimSave, UnclaimReopen, SubmitRead, SubmitMark
<1>12. ASSUME NEW s \in Slots, SettlementRequest(s) PROVE Goal
  BY <1>2, <1>7, <1>12 DEF SettlementRequest, WebhookSettles, WebhookIgnores, ManualRelease,
     SettleArm
<1>13. ASSUME NEW p \in Procs, ReleaseJob(p) PROVE Goal
  BY <1>2, <1>13 DEF ReleaseJob, ReleaseSend, ReleaseDone, ReleaseFails
<1>14. ASSUME NEW i \in Indexers, Tick(i) \/ Reconcile(i) PROVE Goal
  BY <1>2, <1>8, <1>14 DEF Tick, TickStart, CreatedMirror, CreatedOpen, ReleasedBounty,
     ReleasedLedger, ReleasedAggregate, ReleasedCounters, RefundedBounty, Checkpoint,
     Reconcile, ReconcileList, ReconcileClaim, ReconcileArm
<1>15. Goal
  BY <1>2, <1>9, <1>10, <1>11, <1>12, <1>13, <1>14 DEF Next, vars
<1>16. RowKept(claims[r], claims'[r])
  BY ClaimMoves DEF RowsStep
<1> QED
  BY <1>15, <1>16 DEF RowKept

(* Only its own steps take a request into a recount, through it and out.     *)
Recounts(p) == proc[p].pc \in {"claim.recount", "claim.rollback"}

LEMMA RecountFrame ==
  ASSUME IInv, [Next]_vars, NEW s \in Slots
  PROVE  \/ proc'[s] = proc[s]
         \/ ~ Recounts(s) /\ ~ Recounts(s)'
         \/ Abort(s) \/ ClaimInsert(s) \/ ClaimRecount(s) \/ ClaimRollback(s)
<1> DEFINE Goal == \/ proc'[s] = proc[s]
                   \/ ~ Recounts(s) /\ ~ Recounts(s)'
                   \/ Abort(s) \/ ClaimInsert(s) \/ ClaimRecount(s) \/ ClaimRollback(s)
<1>1. proc \in [Procs -> Proc] /\ s \in Procs /\ s \notin Indexers
  BY StoreAssumption DEF IInv, TypeOK, Procs
<1>2. ASSUME NEW q \in Procs \ {s}, NEW st, proc' = [proc EXCEPT ![q] = st] PROVE Goal
  BY <1>1, <1>2
<1>3. ASSUME UNCHANGED proc PROVE Goal
  BY <1>3
<1> DEFINE In == {"claim.recount", "claim.rollback"}
<1>4. ASSUME NEW st, proc[s].pc \notin In, st.pc \notin In, proc' = [proc EXCEPT ![s] = st]
      PROVE  Goal
  BY <1>1, <1>4 DEF Recounts
<1> HIDE DEF Goal
<1>5. ASSUME NEW st, st.pc \notin In, Begin(s, st) PROVE Goal
  BY <1>4, <1>5 DEF Begin, At
<1>6. ASSUME proc[s].pc \notin In, Finish(s) PROVE Goal
  BY <1>4, <1>6 DEF Finish, Idle
<1>7. ASSUME proc[s].pc \notin In, NEW pc, pc \notin In, GoTo(s, pc) PROVE Goal
  <2> DEFINE st == [proc[s] EXCEPT !.pc = pc]
  <2>1. st.pc = pc
    BY <1>1 DEF Proc
  <2>2. proc' = [proc EXCEPT ![s] = st]
    BY <1>1, <1>7 DEF GoTo
  <2> HIDE DEF st
  <2> QED
    BY <1>4, <1>7, <2>1, <2>2
<1>8. ASSUME Environment PROVE Goal
  BY <1>2, <1>3, <1>8 DEF Environment, MaintainerFunds, MaintainerRefunds, MineRelease,
     GithubMerges, Abort, Finish, Goal
<1>9. ASSUME NEW t \in Slots, BountyRequest(t) PROVE Goal
  <2>1. CASE t # s
    BY <1>1, <1>2, <1>9, <2>1 DEF BountyRequest, DepositRead, RefundRead, CancelRead,
       DepositSave, RefundSave, CancelSave, Begin, Finish, Procs
  <2>2. \A b : \A pc : Loaded(b, pc).pc = pc
    BY DEF Loaded, Idle
  <2>3. CASE t = s
    BY <1>5, <1>6, <1>9, <2>2, <2>3 DEF BountyRequest, DepositRead, RefundRead, CancelRead,
       DepositSave, RefundSave, CancelSave, At
  <2> QED
    BY <2>1, <2>3
<1>10. ASSUME NEW t \in Slots, ClaimRequest(t) PROVE Goal
  <2>1. CASE t # s
    <3>1. ASSUME NEW pc, GoTo(t, pc) PROVE Goal
      BY <1>1, <2>1, <3>1 DEF GoTo, Procs, Goal
    <3>2. ASSUME Finish(t) PROVE Goal
      BY <1>1, <2>1, <3>2 DEF Finish, Procs, Goal
    <3>3. ASSUME NEW st, Begin(t, st) PROVE Goal
      BY <1>1, <2>1, <3>3 DEF Begin, Procs, Goal
    <3>4. ASSUME ClaimInsert(t) \/ SubmitSave(t) PROVE Goal
      BY <1>1, <2>1, <3>4 DEF ClaimInsert, SubmitSave, Finish, Procs, Goal
    <3> QED
      BY <1>10, <3>1, <3>2, <3>3, <3>4 DEF ClaimRequest, ClaimRead, ClaimExpire, ClaimCheck,
         ClaimRecount, ClaimRollback, ClaimSave, Unclaim, UnclaimReopen, SubmitRead, SubmitMark
  <2>2. CASE t = s
    <3>1. ASSUME NEW b \in Bounties, NEW h \in Hunters,
                 ClaimRead(s, b, h) \/ Unclaim(s, b, h) \/ \E pr \in PRs : SubmitRead(s, b, h, pr)
          PROVE  Goal
      BY <1>5, <3>1 DEF ClaimRead, Unclaim, SubmitRead, Idle
    <3>2. ASSUME ClaimExpire(s) \/ ClaimCheck(s) \/ ClaimSave(s) \/ UnclaimReopen(s)
                 \/ SubmitMark(s)
          PROVE  Goal
      BY <1>6, <1>7, <3>2 DEF ClaimExpire, ClaimCheck, ClaimSave, UnclaimReopen, SubmitMark, At
    <3>3. ASSUME SubmitSave(s) PROVE Goal
      BY <1>4, <1>6, <3>3 DEF SubmitSave, Idle, At
    <3> QED
      BY <1>10, <2>2, <3>1, <3>2, <3>3 DEF ClaimRequest, Goal
  <2> QED
    BY <2>1, <2>2
<1>11. ASSUME NEW t \in Slots, SettlementRequest(t) PROVE Goal
  <2>1. CASE t # s
    BY <1>1, <1>11, <2>1 DEF SettlementRequest, WebhookSettles, WebhookIgnores, ManualRelease,
       SettleArm, SettleStamp, Begin, Finish, GoTo, Procs, Goal
  <2>2. CASE t = s
    <3>1. ASSUME SettleStamp(s) PROVE Goal
      <4>1. CASE Finish(s)
        BY <1>6, <3>1, <4>1 DEF SettleStamp, At
      <4>2. CASE proc' = [proc EXCEPT ![s].pc = "release.send", ![s].hook = FALSE]
        BY <1>1, <3>1, <4>2 DEF SettleStamp, At, Recounts, Proc, Goal
      <4> QED
        BY <3>1, <4>1, <4>2 DEF SettleStamp
    <3>2. ASSUME NEW r, NEW pr, NEW hook \in BOOLEAN, Begin(s, Settling(r, pr, hook)) PROVE Goal
      BY <1>5, <3>2 DEF Settling, Idle
    <3>3. ASSUME SettleArm(s) PROVE Goal
      BY <1>6, <1>7, <3>3 DEF SettleArm, At
    <3>4. ASSUME NEW pr, WebhookSettles(s, pr) \/ WebhookIgnores(s, pr) PROVE Goal
      <4>1. CASE WebhookIgnores(s, pr)
        BY <1>3, <4>1 DEF WebhookIgnores
      <4>2. CASE WebhookSettles(s, pr)
        BY <3>2, <4>2 DEF WebhookSettles
      <4> QED
        BY <3>4, <4>1, <4>2
    <3>5. ASSUME NEW b, ManualRelease(s, b) PROVE Goal
      BY <3>2, <3>5 DEF ManualRelease
    <3> QED
      BY <1>11, <2>2, <3>1, <3>3, <3>4, <3>5 DEF SettlementRequest
  <2> QED
    BY <2>1, <2>2
<1>12. ASSUME NEW p \in Procs, ReleaseJob(p) PROVE Goal
  <2>1. CASE p # s
    BY <1>1, <1>12, <2>1 DEF ReleaseJob, ReleaseSend, ReleaseDone, ReleaseFails, Resume, GoTo, Goal
  <2>2. CASE p = s
    <3>1. ASSUME proc[s].pc \notin In, Resume(s) PROVE Goal
      BY <1>4, <3>1, GoOnPc DEF Resume
    <3> QED
      BY <1>7, <1>12, <2>2, <3>1 DEF ReleaseJob, ReleaseSend, ReleaseDone, ReleaseFails, SendFails,
         At
  <2> QED
    BY <2>1, <2>2
<1>13. ASSUME NEW i \in Indexers, Tick(i) \/ Reconcile(i) PROVE Goal
  BY <1>1, <1>13 DEF Goal, Tick, TickStart, CreatedMirror, CreatedOpen, ReleasedBounty, ReleasedClaim,
     ReleasedLedger, ReleasedAggregate, ReleasedCounters, RefundedBounty, Checkpoint,
     Reconcile, ReconcileList, ReconcileClaim, ReconcileArm, Resume, Advance, Begin, Finish, GoTo
<1> QED
  BY <1>3, <1>8, <1>9, <1>10, <1>11, <1>12, <1>13 DEF Next, vars, Goal

(* A request that leaves its recount has found no more than the cap, or has   *)
(* deleted its row.                                                         *)
LEMMA RecountMoves ==
  ASSUME IInv, OwnRows, [Next]_vars, ~ RecountCut, NEW s \in Slots, Recounts(s)
  PROVE  \/ Recounts(s)' /\ proc'[s].row = proc[s].row /\ proc'[s].hunter = proc[s].hunter
         \/ claims'[proc[s].row].status = "deleted"
         \/ UNCHANGED claims /\ Cardinality(ActiveOf(proc[s].hunter)) <= ActiveClaimCap
<1>1. /\ proc \in [Procs -> Proc] /\ claims \in [ClaimIds -> ClaimRow] /\ s \in Procs
      /\ proc[s].row \in ClaimIds
  BY DEF IInv, TypeOK, Procs, ProcsSound, LocalsSound, Recounts
<1>2. IsFiniteSet(ActiveOf(proc[s].hunter))
  BY StoreAssumption, FS_Subset DEF ActiveOf
<1>3. Cardinality(ActiveOf(proc[s].hunter)) \in Nat /\ ActiveClaimCap \in Nat
  BY <1>2, FS_CardinalityType, StoreAssumption
<1>4. CASE proc'[s] = proc[s]
  BY <1>4 DEF Recounts
<1>5. ~ Abort(s)
  BY DEF RecountCut, Recounts
<1>6. ~ ClaimInsert(s)
  BY DEF ClaimInsert, At, Recounts
<1>7. CASE ClaimRecount(s)
  BY <1>1, <1>3, <1>7 DEF ClaimRecount, GoTo, Proc, Recounts
<1>8. CASE ClaimRollback(s)
  BY <1>1, <1>8 DEF ClaimRollback, ClaimRow
<1> QED
  BY <1>4, <1>5, <1>6, <1>7, <1>8, RecountFrame DEF Recounts

(* No step lets a hunter hold more than the cap. *)
LEMMA CapStays == ASSUME IInv, Capped, [Next]_vars, ~ RecountCut PROVE Capped'
<1>1. /\ proc \in [Procs -> Proc] /\ claims \in [ClaimIds -> ClaimRow] /\ Slots \subseteq Procs
      /\ CapHolds /\ OwnRows
  BY DEF IInv, TypeOK, Procs, Capped
<1> DEFINE Held(h) == ActiveOf(h) \ Recounting
<1>2. \A h : /\ IsFiniteSet(ActiveOf(h)) /\ Cardinality(ActiveOf(h)) \in Nat
             /\ IsFiniteSet(Held(h)) /\ Cardinality(Held(h)) \in Nat
             /\ IsFiniteSet(Held(h)') /\ Cardinality(Held(h)') \in Nat
  <2>1. \A h : /\ ActiveOf(h) \subseteq ClaimIds /\ Held(h) \subseteq ClaimIds
               /\ Held(h)' \subseteq ClaimIds
    BY DEF ActiveOf
  <2> HIDE DEF Held
  <2> QED
    BY <2>1, StoreAssumption, FS_Subset, FS_CardinalityType
<1>3. ASSUME NEW h \in Hunters PROVE Cardinality(Held(h)') <= ActiveClaimCap
  <2>1. Cardinality(Held(h)) <= ActiveClaimCap /\ ActiveClaimCap \in Nat
    BY <1>1, StoreAssumption DEF CapHolds
  <2>2. CASE Held(h)' \subseteq Held(h)
    <3>1. Cardinality(Held(h)') <= Cardinality(Held(h))
      BY <1>2, <2>2, FS_Subset
    <3> HIDE DEF Held
    <3> QED
      BY <1>2, <2>1, <3>1
  <2>3. ASSUME NEW r \in Held(h)', r \notin Held(h)
        PROVE  UNCHANGED claims /\ Cardinality(ActiveOf(h)) <= ActiveClaimCap
    <3>1. /\ r \in ClaimIds /\ claims'[r].status = "active" /\ claims'[r].hunter = h
          /\ \A s \in Slots : ~ (Recounts(s)' /\ proc'[s].row = r)
      BY <2>3 DEF ActiveOf, Recounting, Recounts
    <3>2. claims[r].status = "active" /\ claims[r].hunter = h
      BY <3>1, ActiveMoves DEF Recounts
    <3>3. PICK s \in Slots : Recounts(s) /\ proc[s].row = r
      BY <2>3, <3>1, <3>2 DEF ActiveOf, Recounting, Recounts
    <3>4. proc[s].hunter = h
      BY <1>1, <3>2, <3>3 DEF OwnRows, Recounts
    <3> QED
      BY <1>1, <3>1, <3>3, <3>4, RecountMoves
  <2>4. CASE UNCHANGED claims /\ Cardinality(ActiveOf(h)) <= ActiveClaimCap
    <3>1. Held(h)' \subseteq ActiveOf(h)
      BY <2>4 DEF ActiveOf
    <3>2. Cardinality(Held(h)') <= Cardinality(ActiveOf(h))
      BY <1>2, <3>1, FS_Subset
    <3> HIDE DEF Held
    <3> QED
      BY <1>2, <2>1, <2>4, <3>2
  <2> QED
    BY <2>2, <2>3, <2>4
<1>4. CapHolds'
  BY <1>3 DEF CapHolds
<1>5. ASSUME NEW s \in Slots, Recounts(s)' PROVE claims'[proc'[s].row].hunter = proc'[s].hunter
  <2>1. CASE Recounts(s) /\ proc'[s].row = proc[s].row /\ proc'[s].hunter = proc[s].hunter
    <3>1. proc[s].row \in ClaimIds /\ claims[proc[s].row].status # "none"
      BY <1>1, <2>1 DEF IInv, ProcsSound, LocalsSound, Recounts
    <3>2. RowKept(claims[proc[s].row], claims'[proc[s].row])
      BY <3>1, ClaimMoves DEF RowsStep
    <3> QED
      BY <1>1, <2>1, <3>1, <3>2 DEF OwnRows, Recounts, RowKept
  <2>2. CASE ClaimInsert(s)
    <3>1. ~ Finish(s)
      BY <1>1, <1>5 DEF Finish, Idle, Recounts
    <3>2. PICK r \in ClaimIds :
            /\ claims' = [claims EXCEPT ![r] =
                 [NoClaim EXCEPT !.bounty = proc[s].bounty, !.hunter = proc[s].hunter,
                                 !.status = "active"]]
            /\ proc' = [proc EXCEPT ![s].pc = "claim.recount", ![s].row = r]
      BY <2>2, <3>1 DEF ClaimInsert
    <3>3. claims'[r].hunter = proc[s].hunter
      BY <1>1, <3>2 DEF NoClaim
    <3>4. proc'[s].row = r /\ proc'[s].hunter = proc[s].hunter
      BY <1>1, <3>2 DEF Proc
    <3> QED
      BY <3>3, <3>4
  <2>3. CASE Abort(s) \/ ClaimRollback(s)
    BY <1>1, <1>5, <2>3 DEF Abort, ClaimRollback, Finish, Idle, Recounts
  <2>4. CASE ClaimRecount(s)
    BY <1>1, <2>1, <2>4 DEF ClaimRecount, At, GoTo, Recounts, Proc
  <2> QED
    BY <1>5, <2>1, <2>2, <2>3, <2>4, RecountFrame DEF Recounts
<1>6. OwnRows'
  BY <1>5 DEF OwnRows, Recounts
<1> QED
  BY <1>4, <1>6 DEF Capped

(* The cap holds under any number of concurrent claims of a wallet, as long   *)
(* as no process dies, and no database call fails, between an insert and the *)
(* recount and roll-back that follow it (claims.ts:97-110).                  *)
THEOREM CapNeverExceeded == Spec /\ RecountsFinish => []CapHolds
<1>1. Init => Capped
  <2> SUFFICES ASSUME Init PROVE Capped
    OBVIOUS
  <2>1. \A h \in Hunters : ActiveOf(h) \ Recounting = {}
    BY DEF Init, NoClaim, ActiveOf
  <2>2. ActiveClaimCap \in Nat /\ Cardinality({}) = 0
    BY StoreAssumption, FS_EmptySet
  <2>3. CapHolds
    BY <2>1, <2>2 DEF CapHolds
  <2>4. OwnRows
    BY DEF Init, Idle, OwnRows, Procs
  <2> QED
    BY <2>3, <2>4 DEF Capped
<1>2. IInv /\ Capped /\ [Next]_vars /\ [~ RecountCut]_vars => Capped'
  <2>1. ASSUME IInv, Capped, UNCHANGED vars PROVE Capped'
    BY <2>1 DEF Capped, CapHolds, OwnRows, ActiveOf, Recounting, vars
  <2> QED
    BY <2>1, CapStays
<1>3. Capped => CapHolds
  BY DEF Capped
<1> QED
  BY <1>1, <1>2, <1>3, Invariant, PTL DEF Spec, RecountsFinish
-----------------------------------------------------------------------------
(* Releases on their way *)

(* What strands a bounty in 'releasing': a job dies on its way, a release() of *)
(* an open bounty reverts once it is sent, or the merge names no commit.     *)
JobLost ==
  \/ \E p \in Procs : Abort(p) /\ proc[p].pc \in Sending
  \/ \E tx \in pool : MineRelease(tx) /\ status[tx.bounty] = "Open" /\ UNCHANGED chain
  \/ \E p \in Procs : SettleStamp(p) /\ Finish(p)

JobsFinish == [][~ JobLost]_vars

(* Who waits for a receipt has a transaction that can still be mined, or     *)
(* that settled the bounty or met it settled.                               *)
WaitsFor(p) == Sent(p) \in pool \/ status[proc[p].bounty] # "Open"

WaitSound == \A p \in Procs : At(p, "release.wait") => WaitsFor(p)

Acts(q) == Abort(q) \/ SettleArm(q) \/ SettleStamp(q) \/ ReconcileArm(q) \/ ReleaseJob(q)

(* Only these steps take a process into the sending of a release, through it  *)
(* and out.                                                                 *)
LEMMA JobFrame ==
  ASSUME IInv, [Next]_vars, NEW p \in Procs
  PROVE  proc'[p] = proc[p] \/ (proc[p].pc \notin Sending /\ proc'[p].pc \notin Sending) \/ Acts(p)
<1> DEFINE Goal == \/ proc'[p] = proc[p]
                   \/ proc[p].pc \notin Sending /\ proc'[p].pc \notin Sending
                   \/ Acts(p)
<1>1. proc \in [Procs -> Proc] /\ Slots \subseteq Procs /\ Indexers \subseteq Procs
  BY DEF IInv, TypeOK, Procs
<1>2. ASSUME NEW q \in Procs, proc[q].pc \notin Sending, NEW st, st.pc \notin Sending,
             proc' = [proc EXCEPT ![q] = st]
      PROVE  Goal
  BY <1>1, <1>2
<1>3. ASSUME NEW q \in Procs, Acts(q) PROVE Goal
  <2>1. \/ \E st : proc' = [proc EXCEPT ![q] = st]
        \/ \E pc : proc' = [proc EXCEPT ![q].pc = pc]
        \/ \E pc, hook : proc' = [proc EXCEPT ![q].pc = pc, ![q].hook = hook]
    BY <1>3 DEF Acts, Abort, SettleArm, SettleStamp, ReconcileArm, ReleaseJob, ReleaseSend,
       ReleaseDone, ReleaseFails, Finish, GoTo, Resume
  <2> QED
    BY <1>1, <1>3, <2>1
<1>4. ASSUME UNCHANGED proc PROVE Goal
  BY <1>4
<1> HIDE DEF Goal
<1>5. ASSUME NEW q \in Procs, NEW st, st.pc \notin Sending, Begin(q, st) PROVE Goal
  BY <1>2, <1>5 DEF Begin, At, Sending, SettlePcs
<1>6. ASSUME NEW q \in Procs, proc[q].pc \notin Sending, Finish(q) PROVE Goal
  BY <1>2, <1>6 DEF Finish, Idle, Sending, SettlePcs
<1>7. ASSUME NEW q \in Procs, proc[q].pc \notin Sending, NEW pc, pc \notin Sending, GoTo(q, pc)
      PROVE  Goal
  <2> DEFINE st == [proc[q] EXCEPT !.pc = pc]
  <2>1. st.pc = pc
    BY <1>1 DEF Proc
  <2>2. proc' = [proc EXCEPT ![q] = st]
    BY <1>1, <1>7 DEF GoTo
  <2> HIDE DEF st
  <2> QED
    BY <1>2, <1>7, <2>1, <2>2
<1>8. ASSUME Environment PROVE Goal
  BY <1>3, <1>4, <1>8 DEF Environment, MaintainerFunds, MaintainerRefunds, MineRelease,
     GithubMerges, Acts
<1>9. ASSUME NEW s \in Slots, BountyRequest(s) PROVE Goal
  <2>1. \A b : \A pc : Loaded(b, pc).pc = pc
    BY DEF Loaded, Idle
  <2> QED
    BY <1>1, <1>5, <1>6, <1>9, <2>1 DEF BountyRequest, DepositRead, RefundRead, CancelRead,
       DepositSave, RefundSave, CancelSave, At, Sending, SettlePcs
<1>10. ASSUME NEW s \in Slots, ClaimRequest(s) PROVE Goal
  <2>1. ASSUME NEW b \in Bounties, NEW h \in Hunters,
               ClaimRead(s, b, h) \/ Unclaim(s, b, h) \/ \E pr \in PRs : SubmitRead(s, b, h, pr)
        PROVE  Goal
    BY <1>1, <1>5, <2>1 DEF ClaimRead, Unclaim, SubmitRead, Idle, Sending, SettlePcs
  <2>2. ASSUME ClaimExpire(s) \/ ClaimCheck(s) \/ ClaimRecount(s) \/ ClaimRollback(s)
               \/ ClaimSave(s) \/ UnclaimReopen(s) \/ SubmitMark(s)
        PROVE  Goal
    BY <1>1, <1>6, <1>7, <2>2 DEF ClaimExpire, ClaimCheck, ClaimRecount, ClaimRollback,
       ClaimSave, UnclaimReopen, SubmitMark, At, Sending, SettlePcs
  <2>3. ASSUME ClaimInsert(s) PROVE Goal
    <3>1. ASSUME NEW r, proc' = [proc EXCEPT ![s].pc = "claim.recount", ![s].row = r] PROVE Goal
      <4> DEFINE st == [proc[s] EXCEPT !.pc = "claim.recount", !.row = r]
      <4>1. st.pc = "claim.recount"
        BY <1>1 DEF Proc
      <4>2. proc' = [proc EXCEPT ![s] = st]
        BY <1>1, <3>1
      <4> HIDE DEF st
      <4> QED
        BY <1>1, <1>2, <2>3, <4>1, <4>2 DEF ClaimInsert, At, Sending, SettlePcs
    <3> QED
      BY <1>1, <1>6, <2>3, <3>1 DEF ClaimInsert, At, Sending, SettlePcs
  <2>4. ASSUME SubmitSave(s) PROVE Goal
    BY <1>1, <1>2, <1>6, <2>4 DEF SubmitSave, Idle, At, Sending, SettlePcs
  <2> QED
    BY <1>10, <2>1, <2>2, <2>3, <2>4 DEF ClaimRequest
<1>11. ASSUME NEW s \in Slots, SettlementRequest(s) PROVE Goal
  <2>1. \A r, pr, hook : Settling(r, pr, hook).pc \notin Sending
    BY DEF Settling, Idle, Sending
  <2> QED
    BY <1>1, <1>3, <1>4, <1>5, <1>11, <2>1 DEF SettlementRequest, WebhookSettles, WebhookIgnores,
       ManualRelease, Acts
<1>12. ASSUME NEW q \in Procs, ReleaseJob(q) PROVE Goal
  BY <1>3, <1>12 DEF Acts
<1>13. ASSUME NEW i \in Indexers, Tick(i) PROVE Goal
  <2>1. ASSUME NEW to, TickStart(i, to) PROVE Goal
    BY <1>1, <1>5, <2>1 DEF TickStart, Idle, Sending, SettlePcs
  <2> QED
    BY <1>1, <1>6, <1>7, <1>13, <2>1 DEF Tick, CreatedMirror, CreatedOpen, ReleasedBounty,
       ReleasedClaim, ReleasedLedger, ReleasedAggregate, ReleasedCounters, RefundedBounty,
       Checkpoint, Advance, Handles, At, Sending, SettlePcs
<1>14. ASSUME NEW i \in Indexers, Reconcile(i) PROVE Goal
  <2>1. \A rest : GoOn(rest).pc \notin Sending
    BY GoOnPc DEF Sending, SettlePcs
  <2>2. \A r, rest : Retrying(r, rest).pc \notin Sending
    BY DEF Retrying, Idle, Sending, SettlePcs
  <2>3. ASSUME ReconcileList(i) PROVE Goal
    BY <1>1, <1>5, <2>1, <2>3 DEF ReconcileList
  <2>4. ASSUME ReconcileClaim(i) PROVE Goal
    BY <1>1, <1>2, <2>1, <2>2, <2>4 DEF ReconcileClaim, At, Sending, SettlePcs
  <2> QED
    BY <1>1, <1>3, <1>14, <2>3, <2>4 DEF Reconcile, Acts
<1> QED
  BY <1>4, <1>8, <1>9, <1>10, <1>11, <1>12, <1>13, <1>14 DEF Next, vars, Goal

(* Only an arming sets a bounty releasing, with a process about to send or    *)
(* stamp its release.                                                       *)
LEMMA ReleasingIsArmed ==
  ASSUME IInv, [Next]_vars, NEW b \in Bounties,
         lifecycleStatus[b] # "releasing", lifecycleStatus'[b] = "releasing"
  PROVE  \E p \in Procs : proc'[p].bounty = b /\ proc'[p].pc \in Sending
<1> DEFINE Goal == \E p \in Procs : proc'[p].bounty = b /\ proc'[p].pc \in Sending
<1>1. /\ proc \in [Procs -> Proc] /\ lifecycleStatus \in [Bounties -> Lifecycle]
      /\ Slots \subseteq Procs /\ Indexers \subseteq Procs
  BY DEF IInv, TypeOK, Procs
<1>2. CASE UNCHANGED lifecycleStatus
  BY <1>2
<1>3. ASSUME NEW d, NEW v, v # "releasing", SetLifecycle(d, v) PROVE Goal
  BY <1>1, <1>3 DEF SetLifecycle
<1>4. ASSUME NEW p \in Procs, SettleArm(p) \/ ReconcileArm(p) PROVE Goal
  <2>1. CASE UNCHANGED lifecycleStatus
    BY <1>2, <2>1
  <2>2. ASSUME NEW pc \in Sending, GoTo(p, pc), SetLifecycle(proc[p].bounty, "releasing")
        PROVE  Goal
    <3>1. proc[p].bounty = b
      BY <1>1, <2>2 DEF SetLifecycle
    <3>2. proc'[p].bounty = b /\ proc'[p].pc = pc
      BY <1>1, <2>2, <3>1 DEF GoTo, Proc
    <3> QED
      BY <2>2, <3>2
  <2> QED
    BY <1>4, <2>1, <2>2 DEF SettleArm, ReconcileArm, Sending, SettlePcs
<1> HIDE DEF Goal
<1>5. CASE Environment
  BY <1>2, <1>5 DEF Environment, MaintainerFunds, MaintainerRefunds, MineRelease,
     GithubMerges, Abort, bounty
<1>6. ASSUME NEW s \in Slots, BountyRequest(s) PROVE Goal
  BY <1>2, <1>3, <1>6 DEF BountyRequest, DepositRead, DepositSave, RefundRead, RefundSave,
     CancelRead, CancelSave, SaveLifecycle, bounty
<1>7. ASSUME NEW s \in Slots, ClaimRequest(s) PROVE Goal
  BY <1>2, <1>3, <1>7 DEF ClaimRequest, ClaimRead, ClaimExpire, ClaimCheck, ClaimInsert,
     ClaimRecount, ClaimRollback, ClaimSave, Unclaim, UnclaimReopen, SubmitRead, SubmitSave,
     SubmitMark, bounty
<1>8. ASSUME NEW s \in Slots, SettlementRequest(s) PROVE Goal
  BY <1>1, <1>2, <1>4, <1>8 DEF SettlementRequest, WebhookSettles, WebhookIgnores,
     ManualRelease, SettleStamp, bounty
<1>9. ASSUME NEW p \in Procs, ReleaseJob(p) PROVE Goal
  BY <1>2, <1>3, <1>9 DEF ReleaseJob, ReleaseSend, ReleaseDone, ReleaseFails, bounty
<1>10. ASSUME NEW i \in Indexers, Tick(i) PROVE Goal
  BY <1>2, <1>3, <1>10 DEF Tick, TickStart, CreatedMirror, CreatedOpen, ReleasedBounty,
     ReleasedClaim, ReleasedLedger, ReleasedAggregate, ReleasedCounters, RefundedBounty,
     Checkpoint, bounty
<1>11. ASSUME NEW i \in Indexers, Reconcile(i) PROVE Goal
  BY <1>1, <1>2, <1>4, <1>11 DEF Reconcile, ReconcileList, ReconcileClaim, bounty
<1> QED
  BY <1>2, <1>5, <1>6, <1>7, <1>8, <1>9, <1>10, <1>11 DEF Next, vars, bounty, Goal

(* A broadcast release() stays one until it is mined. *)
LEMMA PoolKeeps == ASSUME [Next]_vars, NEW tx \in pool PROVE tx \in pool' \/ MineRelease(tx)
<1>1. ASSUME NEW s \in Slots, BountyRequest(s) \/ ClaimRequest(s) \/ SettlementRequest(s)
      PROVE  pool' = pool
  <2>1. CASE BountyRequest(s)
    BY <2>1 DEF BountyRequest, DepositRead, DepositSave, RefundRead, RefundSave,
       CancelRead, CancelSave, world
  <2>2. CASE ClaimRequest(s)
    BY <2>2 DEF ClaimRequest, ClaimRead, ClaimExpire, ClaimCheck, ClaimInsert, ClaimRecount,
       ClaimRollback, ClaimSave, Unclaim, UnclaimReopen, SubmitRead, SubmitSave, SubmitMark, world
  <2>3. CASE SettlementRequest(s)
    BY <2>3 DEF SettlementRequest, WebhookSettles, WebhookIgnores, ManualRelease, SettleArm,
       SettleStamp, world
  <2> QED
    BY <1>1, <2>1, <2>2, <2>3
<1>2. ASSUME NEW p \in Procs, ReleaseJob(p) PROVE pool \subseteq pool'
  BY <1>2 DEF ReleaseJob, ReleaseSend, ReleaseDone, ReleaseFails, world
<1>3. ASSUME NEW i \in Indexers, Tick(i) \/ Reconcile(i) PROVE pool' = pool
  BY <1>3 DEF Tick, TickStart, CreatedMirror, CreatedOpen, ReleasedBounty, ReleasedClaim,
     ReleasedLedger, ReleasedAggregate, ReleasedCounters, RefundedBounty, Checkpoint,
     Reconcile, ReconcileList, ReconcileClaim, ReconcileArm, world
<1>4. ASSUME Environment PROVE tx \in pool' \/ MineRelease(tx)
  <2>1. ASSUME NEW t \in pool, MineRelease(t) PROVE tx \in pool' \/ MineRelease(tx)
    BY <2>1 DEF MineRelease
  <2> QED
    BY <1>4, <2>1 DEF Environment, MaintainerFunds, MaintainerRefunds, GithubMerges, Abort, world
<1> QED
  BY <1>1, <1>2, <1>3, <1>4 DEF Next, vars, world

(* Unless it reverts, what is sent for a bounty can still be mined, or the   *)
(* bounty is settled.                                                       *)
LEMMA SentCounts ==
  ASSUME IInv, [Next]_vars, ~ JobLost, NEW tx \in pool
  PROVE  tx \in pool' \/ status'[tx.bounty] # "Open"
<1>1. tx.bounty \in Bounties /\ status \in [Bounties -> Escrow!Statuses]
  BY DEF IInv, TypeOK, Tx
<1>2. CASE MineRelease(tx)
  <2>1. CASE UNCHANGED chain
    BY <1>2, <2>1 DEF JobLost, chain
  <2>2. CASE Escrow!PayOut(tx.bounty, tx.hunter, tx.sha)
    BY <1>1, <2>2 DEF Escrow!PayOut, Escrow!Move
  <2> QED
    BY <1>2, <2>1, <2>2 DEF MineRelease
<1> QED
  BY <1>2, PoolKeeps

LEMMA ReleasesFlow ==
  ASSUME IInv, WaitSound, NoneStranded, [Next]_vars, ~ JobLost
  PROVE  WaitSound' /\ NoneStranded'
<1>1. /\ proc \in [Procs -> Proc] /\ ProcsSound /\ NeverAheadOfChain
      /\ status \in [Bounties -> Escrow!Statuses] /\ lifecycleStatus \in [Bounties -> Lifecycle]
  BY DEF IInv, TypeOK
<1>2. \A b \in Bounties : status[b] \notin {"None", "Open"} => status'[b] # "Open"
  BY <1>1, ChainInvariant DEF ChainGrows, IInv, Escrow!Statuses
<1>3. \A p \in Procs : proc[p].pc \in Sending =>
        proc[p].bounty \in Bounties /\ status[proc[p].bounty] # "None"
  BY <1>1 DEF ProcsSound, LocalsSound, Sending, ReleasePcs
<1>4. ASSUME NEW p \in Procs, At(p, "release.wait")' PROVE WaitsFor(p)'
  <2>1. CASE proc'[p] = proc[p]
    <3>1. WaitsFor(p) /\ proc[p].bounty \in Bounties /\ status[proc[p].bounty] # "None"
      BY <1>3, <1>4, <2>1 DEF WaitSound, At, Sending, SettlePcs
    <3>2. CASE Sent(p) \in pool
      <4>1. Sent(p) \in pool' \/ status'[Sent(p).bounty] # "Open"
        BY <3>2, SentCounts
      <4> QED
        BY <2>1, <4>1 DEF WaitsFor, Sent
    <3> QED
      BY <1>2, <2>1, <3>1, <3>2 DEF WaitsFor
  <2>2. CASE Acts(p)
    <3>1. ReleaseSend(p)
      <4>1. \A rest : GoOn(rest).pc # "release.wait"
        BY GoOnPc
      <4> QED
        BY <1>1, <1>4, <2>2, <4>1 DEF Acts, Abort, SettleArm, SettleStamp, ReconcileArm,
           ReleaseJob, ReleaseDone, ReleaseFails, Finish, GoTo, Resume, Idle, At, Proc
    <3>2. Sent(p) \in pool' /\ Sent(p)' = Sent(p)
      BY <1>1, <3>1 DEF ReleaseSend, GoTo, Sent, Proc
    <3> QED
      BY <3>2 DEF WaitsFor
  <2> QED
    BY <1>4, <2>1, <2>2, JobFrame DEF At, Sending, SettlePcs
<1>5. ASSUME NEW b \in Bounties, lifecycleStatus'[b] = "releasing" PROVE Releasing(b)'
  <2>1. CASE lifecycleStatus[b] # "releasing"
    BY <1>5, <2>1, ReleasingIsArmed DEF Releasing
  <2>2. CASE lifecycleStatus[b] = "releasing"
    <3>1. Releasing(b) /\ status[b] # "None"
      BY <1>1, <2>2 DEF NoneStranded, NeverAheadOfChain, Board
    <3>2. CASE status[b] # "Open"
      BY <1>2, <3>1, <3>2 DEF Releasing
    <3>3. ASSUME NEW tx \in pool, tx.bounty = b PROVE Releasing(b)'
      BY <3>3, SentCounts DEF Releasing
    <3>4. ASSUME NEW p \in Procs, proc[p].bounty = b, proc[p].pc \in Sending
          PROVE  Releasing(b)'
      <4>1. CASE proc'[p] = proc[p]
        BY <3>4, <4>1 DEF Releasing
      <4>2. CASE SettleStamp(p)
        <5>1. proc'[p].bounty = b /\ proc'[p].pc = "release.send"
          BY <1>1, <3>4, <4>2 DEF SettleStamp, JobLost, Proc
        <5> QED
          BY <5>1 DEF Releasing, Sending, SettlePcs
      <4>3. CASE ReleaseSend(p)
        <5>1. proc'[p].bounty = b /\ proc'[p].pc = "release.wait"
          BY <1>1, <3>4, <4>3 DEF ReleaseSend, GoTo, Proc
        <5> QED
          BY <5>1 DEF Releasing, Sending, SettlePcs
      <4>4. CASE ReleaseDone(p)
        <5>1. status[b] # "Open"
          BY <3>4, <4>4 DEF ReleaseDone, WaitSound, WaitsFor, Sent
        <5> QED
          BY <3>2, <5>1
      <4>5. ~ ReleaseFails(p)
        BY <1>1, <1>5, <3>4 DEF ReleaseFails, SetLifecycle
      <4>6. ~ (Abort(p) \/ SettleArm(p) \/ ReconcileArm(p))
        BY <3>4 DEF JobLost, SettleArm, ReconcileArm, At, Sending, SettlePcs
      <4> QED
        BY <3>4, <4>1, <4>2, <4>3, <4>4, <4>5, <4>6, JobFrame DEF Acts, ReleaseJob
    <3> QED
      BY <3>1, <3>2, <3>3, <3>4 DEF Releasing
  <2> QED
    BY <2>1, <2>2
<1> QED
  BY <1>4, <1>5 DEF WaitSound, NoneStranded

(* No bounty is left 'releasing' with nobody to move it (settleMerge.ts:18): *)
(* calls may reject and waits time out anywhere and stale saves come, as     *)
(* long as no job dies on its way, no release() of an open bounty reverts    *)
(* once sent, and merges name their commit.                                 *)
THEOREM NoReleaseLost == Spec /\ JobsFinish => []NoneStranded
<1>1. Init => WaitSound /\ NoneStranded
  BY DEF Init, Idle, WaitSound, NoneStranded, At, Procs
<1>2. IInv /\ WaitSound /\ NoneStranded /\ [Next]_vars /\ [~ JobLost]_vars
        => WaitSound' /\ NoneStranded'
  <2>1. ASSUME WaitSound, NoneStranded, UNCHANGED vars PROVE WaitSound' /\ NoneStranded'
    BY <2>1 DEF WaitSound, WaitsFor, Sent, NoneStranded, Releasing, At, vars, world, chain, bounty
  <2> QED
    BY <2>1, ReleasesFlow
<1> QED
  BY <1>1, <1>2, Invariant, PTL DEF Spec, JobsFinish

=============================================================================

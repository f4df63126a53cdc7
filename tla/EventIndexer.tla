---------------------------- MODULE EventIndexer -----------------------------
(***************************************************************************)
(* api/src/indexer: the poll loop's tick (index.ts) and the three event      *)
(* handlers (handlers.ts).  Every log entry counts as a block of its own;    *)
(* confirmations and the range cap only decide how far a tick goes, so any   *)
(* end is allowed.  Confirmed blocks are final.                             *)
(***************************************************************************)
EXTENDS DevBountyStore

Event(i) == log[scan[i].pos + 1]

Advance(i) ==
  /\ scan' = [scan EXCEPT ![i].pos = @ + 1, ![i].count = 0]
  /\ GoTo(i, "scan")

(* seeded fault: the scan starts after the first unread block *)
FaultTickSkipsOne(i, to) ==
  /\ Begin(i, [Idle EXCEPT !.pc = "scan"])
  /\ scan' = [scan EXCEPT ![i] = [NoRange EXCEPT !.pos = lastBlock + 1, !.to = to + 1]]
  /\ UNCHANGED <<world, bounty, claims, processed, lastBlock, ledger, payoutCount>>

TickStart(i, to) ==
  /\ Begin(i, [Idle EXCEPT !.pc = "scan"])
  /\ scan' = [scan EXCEPT ![i] = [NoRange EXCEPT !.pos = lastBlock, !.to = to]]
  /\ UNCHANGED <<world, bounty, claims, processed, lastBlock, ledger, payoutCount>>

(* scanRange: the handler of the next event is called *)
Handles(i, kind) ==
  At(i, "scan") /\ scan[i].pos < scan[i].to /\ Event(i).kind = kind

CreatedMirror(i) ==
  /\ Handles(i, "BountyCreated")
  /\ SetMirror(Event(i).id, "Open")
  /\ GoTo(i, "created.open")
  /\ UNCHANGED <<world, lifecycleStatus, releaseAttempts, claims, processed, index>>

CreatedOpen(i) ==
  LET b == Event(i).id IN
  /\ At(i, "created.open")
  /\ IF lifecycleStatus[b] = "pending_deposit" THEN SetLifecycle(b, "open")
     ELSE UNCHANGED lifecycleStatus
  /\ Advance(i)
  /\ UNCHANGED <<world, onChainStatus, releaseAttempts, claims, processed,
                 lastBlock, ledger, payoutCount>>

ReleasedBounty(i) ==
  /\ Handles(i, "BountyReleased")
  /\ SetMirror(Event(i).id, "Paid")
  /\ SetLifecycle(Event(i).id, "paid")
  /\ GoTo(i, "released.claim")
  /\ UNCHANGED <<world, releaseAttempts, claims, processed, index>>

ReleasedClaim(i) ==
  LET paid == [r \in ClaimIds |->
                 [claims[r] EXCEPT !.status = "paid", !.prCommitSha = Event(i).sha]] IN
  /\ At(i, "released.claim")
  /\ UpdateSubmitted(Event(i).id, paid)
  /\ GoTo(i, "released.ledger")
  /\ UNCHANGED <<world, bounty, processed, index>>

Entered(pos) == \E k \in 1 .. Len(ledger) : ledger[k] = pos

(* seeded fault: reputation_events has no unique index on txHash *)
FaultNoUniqueTx(i) ==
  /\ At(i, "released.ledger")
  /\ ledger' = Append(ledger, scan[i].pos + 1)
  /\ GoTo(i, "released.aggregate")
  /\ UNCHANGED <<world, bounty, claims, processed, scan, lastBlock, payoutCount>>

(* seeded fault: the counter is incremented in place for every handled event *)
FaultCountInPlace(i) ==
  LET pos == scan[i].pos + 1 IN
  /\ At(i, "released.ledger")
  /\ ledger' = IF Entered(pos) THEN ledger ELSE Append(ledger, pos)
  /\ payoutCount' = [payoutCount EXCEPT ![Event(i).to] = @ + 1]
  /\ Advance(i)
  /\ UNCHANGED <<world, bounty, claims, processed, lastBlock>>

(* seeded fault: the counters are recomputed before the row is inserted *)
FaultRecomputeFirst(i) ==
  LET pos == scan[i].pos + 1 IN
  /\ At(i, "released.ledger")
  /\ payoutCount' = [payoutCount EXCEPT
       ![Event(i).to] = Cardinality({k \in 1 .. Len(ledger) : log[ledger[k]].to = Event(i).to})]
  /\ ledger' = IF Entered(pos) THEN ledger ELSE Append(ledger, pos)
  /\ Advance(i)
  /\ UNCHANGED <<world, bounty, claims, processed, lastBlock>>

(* the unique txHash refuses a second row, and then the recompute is skipped *)
ReleasedLedger(i) ==
  LET pos == scan[i].pos + 1 IN
  /\ At(i, "released.ledger")
  /\ \/ /\ ~ Entered(pos)
        /\ ledger' = Append(ledger, pos)
        /\ GoTo(i, "released.aggregate")
        /\ UNCHANGED scan
     \/ /\ Entered(pos)
        /\ Advance(i)
        /\ UNCHANGED ledger
  /\ UNCHANGED <<world, bounty, claims, processed, lastBlock, payoutCount>>

Earned(h) == {k \in 1 .. Len(ledger) : log[ledger[k]].to = h}

(* recomputeHunter: the counters are replaced by an aggregate of the ledger *)
ReleasedAggregate(i) ==
  /\ At(i, "released.aggregate")
  /\ scan' = [scan EXCEPT ![i].count = Cardinality(Earned(Event(i).to))]
  /\ GoTo(i, "released.counters")
  /\ UNCHANGED <<world, bounty, claims, processed, lastBlock, ledger, payoutCount>>

ReleasedCounters(i) ==
  /\ At(i, "released.counters")
  /\ payoutCount' = [payoutCount EXCEPT ![Event(i).to] = scan[i].count]
  /\ Advance(i)
  /\ UNCHANGED <<world, bounty, claims, processed, lastBlock, ledger>>

(* seeded fault: the refund moves the lifecycle and not the mirrored status *)
FaultRefundNotMirrored(i) ==
  /\ Handles(i, "BountyRefunded")
  /\ SetLifecycle(Event(i).id, "refunded")
  /\ Advance(i)
  /\ UNCHANGED <<world, onChainStatus, releaseAttempts, claims, processed,
                 lastBlock, ledger, payoutCount>>

RefundedBounty(i) ==
  /\ Handles(i, "BountyRefunded")
  /\ SetMirror(Event(i).id, "Refunded")
  /\ SetLifecycle(Event(i).id, "refunded")
  /\ Advance(i)
  /\ UNCHANGED <<world, releaseAttempts, claims, processed, lastBlock, ledger, payoutCount>>

(* seeded fault: the range is checkpointed before it has been handled *)
FaultCheckpointFirst(i) ==
  /\ At(i, "scan")
  /\ lastBlock' = IF scan[i].to > lastBlock THEN scan[i].to ELSE lastBlock
  /\ scan' = [scan EXCEPT ![i] = NoRange]
  /\ Finish(i)
  /\ UNCHANGED <<world, bounty, claims, processed, ledger, payoutCount>>

(* saveLastBlock: $max, after the whole range *)
Checkpoint(i) ==
  /\ At(i, "scan")
  /\ scan[i].pos = scan[i].to
  /\ lastBlock' = IF scan[i].to > lastBlock THEN scan[i].to ELSE lastBlock
  /\ scan' = [scan EXCEPT ![i] = NoRange]
  /\ Finish(i)
  /\ UNCHANGED <<world, bounty, claims, processed, ledger, payoutCount>>

Tick(i) ==
  \/ \E to \in lastBlock + 1 .. Len(log) : TickStart(i, to)
  \/ CreatedMirror(i)
  \/ CreatedOpen(i)
  \/ ReleasedBounty(i)
  \/ ReleasedClaim(i)
  \/ ReleasedLedger(i)
  \/ ReleasedAggregate(i)
  \/ ReleasedCounters(i)
  \/ RefundedBounty(i)
  \/ Checkpoint(i)
=============================================================================

------------------------ MODULE DevBounty_convergence -------------------------
(***************************************************************************)
(* The indexer "remains the canonical source and converges to the same       *)
(* state": proofs, for any number of bounties, hunters, requests and        *)
(* crashes, that once a sole indexer has read everything, the mirrored      *)
(* statuses are the contract's and the counters of the profiles show every  *)
(* payout.                                                                  *)
(***************************************************************************)
EXTENDS DevBounty_proofs

OneIndexer == \A i, j \in Indexers : i = j

(* What the latest event of a bounty tells of its status *)
Tells(kind, st) ==
  /\ kind = "BountyCreated"  => st = "Open"
  /\ kind = "BountyReleased" => st = "Paid"
  /\ kind = "BountyRefunded" => st = "Refunded"

EventAfter(b, n) == \E k \in n + 1 .. Len(log) : log[k].id = b

LastEventTells ==
  \A k \in 1 .. Len(log) : ~ EventAfter(log[k].id, k) => Tells(log[k].kind, status[log[k].id])

(* The mirror is right for every bounty nothing happened to after n. *)
Mirrored(n) == \A b \in Bounties : ~ EventAfter(b, n) => onChainStatus[b] = status[b]

(* How far the mirror is right, at each await of an indexer: up to its       *)
(* cursor, and inside a handler, which starts with the mirror, one further. *)
Handling == {"created.open"} \cup ReleasedPcs

CursorMirrored(i) ==
  /\ proc[i].pc \in {"scan"} \cup Handling => lastBlock <= scan[i].pos
  /\ At(i, "scan") => Mirrored(scan[i].pos)
  /\ proc[i].pc \in Handling => Mirrored(scan[i].pos + 1)

MirrorInv ==
  /\ LastEventTells
  /\ Mirrored(lastBlock)
  /\ \A i \in Indexers : CursorMirrored(i)

(* A deposit save that comes after the mirror shows the bounty's end: the     *)
(* one write that takes the mirror back, and for good                       *)
LateDeposit ==
  \E s \in Slots : DepositSave(s) /\ onChainStatus[proc[s].bounty] \in {"Paid", "Refunded"}

NoLateDeposits == [][~ LateDeposit]_vars

-----------------------------------------------------------------------------
(* What a step does to the chain: it leaves it alone, or appends one event    *)
(* and gives its bounty the status the event tells.                         *)
LEMMA ChainTells ==
  ASSUME IInv, [Next]_vars
  PROVE  \/ UNCHANGED <<status, log>>
         \/ \E b \in Bounties : \E e, st :
              /\ e.id = b /\ Tells(e.kind, st)
              /\ status' = [status EXCEPT ![b] = st]
              /\ Len(log') = Len(log) + 1 /\ log'[Len(log) + 1] = e
              /\ \A k \in 1 .. Len(log) : log'[k] = log[k]
<1> DEFINE Grows(b, e, st) ==
      /\ e.id = b /\ Tells(e.kind, st)
      /\ status' = [status EXCEPT ![b] = st]
      /\ Len(log') = Len(log) + 1 /\ log'[Len(log) + 1] = e
      /\ \A k \in 1 .. Len(log) : log'[k] = log[k]
<1>1. ASSUME NEW b \in Bounties, NEW from, NEW st, NEW e \in Escrow!Event,
             Escrow!Move(b, from, st, e), e.id = b, Tells(e.kind, st)
      PROVE  Grows(b, e, st)
  BY <1>1, AppendProperties DEF Escrow!Move, IInv, TypeOK
<1>2. \A b \in Bounties :
        /\ Escrow!Created(b) \in Escrow!Event
        /\ Escrow!Created(b).id = b /\ Tells(Escrow!Created(b).kind, "Open")
  BY DEF Escrow!Event, Escrow!Created, Tells
<1>3. \A b \in Bounties :
        /\ Escrow!Refunded(b) \in Escrow!Event
        /\ Escrow!Refunded(b).id = b /\ Tells(Escrow!Refunded(b).kind, "Refunded")
  BY DEF Escrow!Event, Escrow!Refunded, Tells
<1>4. \A b \in Bounties, h \in Hunters, c \in PRs :
        /\ Escrow!Released(b, h, c) \in Escrow!Event
        /\ Escrow!Released(b, h, c).id = b /\ Tells(Escrow!Released(b, h, c).kind, "Paid")
  BY DEF Escrow!Event, Escrow!Released, Tells
<1> HIDE DEF Grows
<1>5. ASSUME NEW b \in Bounties, Escrow!Fund(b) PROVE Grows(b, Escrow!Created(b), "Open")
  BY <1>1, <1>2, <1>5 DEF Escrow!Fund
<1>6. ASSUME NEW b \in Bounties, Escrow!GiveBack(b)
      PROVE  Grows(b, Escrow!Refunded(b), "Refunded")
  BY <1>1, <1>3, <1>6 DEF Escrow!GiveBack
<1>7. ASSUME NEW b \in Bounties, NEW h \in Hunters, NEW c \in PRs, Escrow!PayOut(b, h, c)
      PROVE  Grows(b, Escrow!Released(b, h, c), "Paid")
  BY <1>1, <1>4, <1>7 DEF Escrow!PayOut
<1> QED
  BY <1>5, <1>6, <1>7, ChainStep DEF ChainMove, chain, Grows, IInv

(* An event is followed by another of its bounty for good. *)
LEMMA EventStaysAfter ==
  ASSUME IInv, [Next]_vars, NEW b, NEW n \in Nat, EventAfter(b, n)
  PROVE  EventAfter(b, n)'
<1>1. Len(log) \in Nat /\ Len(log') \in Nat /\ ChainGrows
  BY ChainInvariant, LenProperties DEF IInv, TypeOK
<1> QED
  BY <1>1 DEF EventAfter, ChainGrows

LEMMA LastEventKeepsTelling ==
  ASSUME IInv, LastEventTells, [Next]_vars PROVE LastEventTells'
<1>1. /\ Len(log) \in Nat /\ log \in Seq(Escrow!Event) /\ status \in [Bounties -> Escrow!Statuses]
  BY LenProperties DEF IInv, TypeOK
<1>2. CASE UNCHANGED <<status, log>>
  BY <1>2 DEF LastEventTells, EventAfter
<1>3. ASSUME NEW b \in Bounties, NEW e, NEW st, e.id = b, Tells(e.kind, st),
             status' = [status EXCEPT ![b] = st],
             Len(log') = Len(log) + 1, log'[Len(log) + 1] = e,
             \A k \in 1 .. Len(log) : log'[k] = log[k]
      PROVE  LastEventTells'
  <2> SUFFICES ASSUME NEW k \in 1 .. Len(log'), ~ EventAfter(log[k].id, k)'
               PROVE  Tells(log'[k].kind, status'[log'[k].id])
    BY DEF LastEventTells, Tells
  <2>1. CASE k = Len(log) + 1
    BY <1>1, <1>3, <2>1
  <2>2. CASE k \in 1 .. Len(log)
    <3>1. log'[k] = log[k] /\ log[k].id # b
      BY <1>1, <1>3, <2>2 DEF EventAfter
    <3>2. ~ EventAfter(log[k].id, k)
      <4>1. \A j \in k + 1 .. Len(log) : j \in k + 1 .. Len(log') /\ log'[j] = log[j]
        BY <1>1, <1>3
      <4> QED
        BY <3>1, <4>1 DEF EventAfter
    <3> QED
      BY <1>1, <1>3, <2>2, <3>1, <3>2 DEF LastEventTells
  <2> QED
    BY <1>1, <1>3, <2>1, <2>2
<1> QED
  BY <1>2, <1>3, ChainTells

(* An event handler's write to the mirror, at the event of the cursor *)
Mirrors(i) == CreatedMirror(i) \/ ReleasedBounty(i) \/ RefundedBounty(i)

(* Whoever writes the mirror leaves the chain alone, and writes its status    *)
(* or to a bounty the mirror is not right about, unless it is an indexer     *)
(* that handles an event.                                                   *)
LEMMA MirrorMoves ==
  ASSUME IInv, [Next]_vars, ~ LateDeposit
  PROVE  \/ UNCHANGED onChainStatus
         \/ /\ UNCHANGED <<status, log>>
            /\ \E b \in Bounties : \E v :
                 /\ onChainStatus' = [onChainStatus EXCEPT ![b] = v]
                 /\ v = status[b] \/ onChainStatus[b] # status[b]
         \/ \E i \in Indexers : Mirrors(i)
<1> DEFINE Goal ==
      \/ UNCHANGED onChainStatus
      \/ /\ UNCHANGED <<status, log>>
         /\ \E b \in Bounties : \E v :
              /\ onChainStatus' = [onChainStatus EXCEPT ![b] = v]
              /\ v = status[b] \/ onChainStatus[b] # status[b]
      \/ \E i \in Indexers : Mirrors(i)
<1>1. /\ onChainStatus \in [Bounties -> Escrow!Statuses]
      /\ status \in [Bounties -> Escrow!Statuses]
      /\ ProcsSound
  BY DEF IInv, TypeOK
<1>2. ASSUME NEW s \in Slots, DepositSave(s) PROVE Goal
  <2>1. proc[s].bounty \in Bounties
    BY <1>1, <1>2 DEF DepositSave, At, ProcsSound, LocalsSound, SavePcs, Procs
  <2>2. Verified(proc[s].bounty, "BountyCreated") => status[proc[s].bounty] # "None"
    BY <2>1, VerifiedIsTrue
  <2>3. onChainStatus[proc[s].bounty] \notin {"Paid", "Refunded"}
    BY <1>2 DEF LateDeposit
  <2>4. status[proc[s].bounty] \in {"None", "Open", "Paid", "Refunded"}
    BY <1>1, <2>1 DEF Escrow!Statuses
  <2> QED
    BY <1>2, <2>1, <2>2, <2>3, <2>4 DEF DepositSave, SaveMirror, SetMirror, world, chain
<1>3. ASSUME NEW s \in Slots, RefundSave(s) PROVE Goal
  <2>1. proc[s].bounty \in Bounties
    BY <1>1, <1>3 DEF RefundSave, At, ProcsSound, LocalsSound, SavePcs, Procs
  <2>2. Verified(proc[s].bounty, "BountyRefunded") => status[proc[s].bounty] = "Refunded"
    BY <2>1, VerifiedIsTrue
  <2> QED
    BY <1>3, <2>1, <2>2 DEF RefundSave, SaveMirror, SetMirror, world, chain
<1>4. ASSUME Environment PROVE Goal
  BY <1>4 DEF Environment, MaintainerFunds, MaintainerRefunds, MineRelease, GithubMerges, Abort,
     bounty
<1>5. ASSUME NEW s \in Slots, BountyRequest(s) PROVE Goal
  BY <1>2, <1>3, <1>5 DEF BountyRequest, DepositRead, RefundRead, CancelRead, CancelSave, bounty
<1>6. ASSUME NEW s \in Slots, ClaimRequest(s) PROVE Goal
  BY <1>6 DEF ClaimRequest, ClaimRead, ClaimExpire, ClaimCheck, ClaimInsert, ClaimRecount,
     ClaimRollback, ClaimSave, Unclaim, UnclaimReopen, SubmitRead, SubmitSave, SubmitMark, bounty
<1>7. ASSUME NEW s \in Slots, SettlementRequest(s) PROVE Goal
  BY <1>7 DEF SettlementRequest, WebhookSettles, WebhookIgnores, ManualRelease, SettleArm,
     SettleStamp, bounty
<1>8. ASSUME NEW p \in Procs, ReleaseJob(p) PROVE Goal
  BY <1>8 DEF ReleaseJob, ReleaseSend, ReleaseDone, ReleaseFails, bounty
<1>9. ASSUME NEW i \in Indexers, Tick(i) \/ Reconcile(i) PROVE Goal
  BY <1>9 DEF Tick, TickStart, CreatedOpen, ReleasedClaim, ReleasedLedger, ReleasedAggregate,
     ReleasedCounters, Checkpoint, Reconcile, ReconcileList, ReconcileClaim, ReconcileArm, Mirrors, bounty
<1>10. CASE UNCHANGED vars
  BY <1>10 DEF vars, bounty
<1> QED
  BY <1>4, <1>5, <1>6, <1>7, <1>8, <1>9, <1>10 DEF Next

(* The mirror stays right where it is: new events come after any position of  *)
(* the log, and the routes write what the chain says.                       *)
LEMMA MirroredStays ==
  ASSUME IInv, [Next]_vars, ~ LateDeposit, \A i \in Indexers : ~ Mirrors(i),
         NEW n \in 0 .. Len(log), Mirrored(n)
  PROVE  Mirrored(n)'
<1>1. /\ onChainStatus \in [Bounties -> Escrow!Statuses]
      /\ status \in [Bounties -> Escrow!Statuses] /\ Len(log) \in Nat
  BY LenProperties DEF IInv, TypeOK
<1>2. CASE UNCHANGED onChainStatus
  <2>1. CASE UNCHANGED <<status, log>>
    BY <1>2, <2>1 DEF Mirrored, EventAfter
  <2>2. ASSUME NEW b \in Bounties, NEW e, NEW st, e.id = b,
               status' = [status EXCEPT ![b] = st],
               Len(log') = Len(log) + 1, log'[Len(log) + 1] = e
        PROVE  Mirrored(n)'
    <3>1. EventAfter(b, n)'
      BY <1>1, <2>2 DEF EventAfter
    <3>2. ASSUME NEW c \in Bounties, ~ EventAfter(c, n)' PROVE onChainStatus'[c] = status'[c]
      <4>1. c # b /\ ~ EventAfter(c, n)
        BY <3>1, <3>2, EventStaysAfter
      <4> QED
        BY <1>1, <1>2, <2>2, <4>1 DEF Mirrored
    <3> QED
      BY <3>2 DEF Mirrored
  <2> QED
    BY <2>1, <2>2, ChainTells
<1>3. ASSUME UNCHANGED <<status, log>>, NEW b \in Bounties, NEW v,
             onChainStatus' = [onChainStatus EXCEPT ![b] = v],
             v = status[b] \/ onChainStatus[b] # status[b]
      PROVE  Mirrored(n)'
  BY <1>1, <1>3 DEF Mirrored, EventAfter
<1> QED
  BY <1>2, <1>3, MirrorMoves

(* A handler's write takes the mirror one event further.                     *)
LEMMA MirroredGrows ==
  ASSUME IInv, LastEventTells, NEW i \in Indexers, Mirrors(i)
  PROVE  /\ At(i, "scan") /\ scan[i].pos < scan[i].to
         /\ \A n \in 0 .. scan[i].pos : Mirrored(n) => Mirrored(n)'
         /\ Mirrored(scan[i].pos) =>
              \A n \in Nat : n = scan[i].pos + 1 => Mirrored(n)'
<1>1. /\ onChainStatus \in [Bounties -> Escrow!Statuses] /\ Len(log) \in Nat
      /\ scan[i].pos \in Nat /\ scan[i].to \in Nat /\ scan[i].to <= Len(log)
  BY LenProperties DEF IInv, TypeOK, ScanRange
<1>2. At(i, "scan") /\ scan[i].pos < scan[i].to
  BY DEF Mirrors, CreatedMirror, ReleasedBounty, RefundedBounty, Handles
<1>3. UNCHANGED <<status, log>>
  BY DEF Mirrors, CreatedMirror, ReleasedBounty, RefundedBounty, world, chain
<1>4. PICK v, kind : /\ Event(i).kind = kind /\ Tells(kind, v) /\ v \in Escrow!Statuses
                     /\ kind \in {"BountyCreated", "BountyReleased", "BountyRefunded"}
                     /\ onChainStatus' = [onChainStatus EXCEPT ![Event(i).id] = v]
  BY DEF Mirrors, CreatedMirror, ReleasedBounty, RefundedBounty, Handles, SetMirror, Tells,
     Escrow!Statuses
<1>5. Event(i).id \in Bounties /\ scan[i].pos + 1 \in 1 .. Len(log)
  BY <1>2, EventIsTrue
<1>6. ASSUME NEW n \in 0 .. scan[i].pos, Mirrored(n) PROVE Mirrored(n)'
  <2>1. EventAfter(Event(i).id, n)
    BY <1>1, <1>5, <1>6 DEF EventAfter, Event
  <2> QED
    BY <1>1, <1>3, <1>4, <1>6, <2>1 DEF Mirrored, EventAfter
<1>7. ASSUME Mirrored(scan[i].pos), NEW n \in Nat, n = scan[i].pos + 1 PROVE Mirrored(n)'
  <2> SUFFICES ASSUME NEW b \in Bounties, ~ EventAfter(b, n)
               PROVE  onChainStatus'[b] = status[b]
    BY <1>3 DEF Mirrored, EventAfter
  <2>1. CASE b = Event(i).id
    <3>1. Tells(kind, status[b])
      BY <1>4, <1>5, <1>7, <2>1 DEF LastEventTells, Event
    <3> QED
      BY <1>1, <1>4, <2>1, <3>1 DEF Tells
  <2>2. CASE b # Event(i).id
    <3>1. \A k \in scan[i].pos + 1 .. Len(log) : k = n \/ k \in n + 1 .. Len(log)
      BY <1>1, <1>7
    <3>2. ~ EventAfter(b, scan[i].pos)
      BY <1>7, <2>2, <3>1 DEF EventAfter, Event
    <3> QED
      BY <1>1, <1>4, <1>7, <2>2, <3>2 DEF Mirrored
  <2> QED
    BY <2>1, <2>2
<1> QED
  BY <1>2, <1>6, <1>7

(* No step of a system with one indexer takes the mirror back. *)
LEMMA MirrorKeepsUp ==
  ASSUME OneIndexer, IInv, MirrorInv, [Next]_vars, ~ LateDeposit
  PROVE  MirrorInv'
<1>1. /\ proc \in [Procs -> Proc] /\ scan \in [Indexers -> ScanRange]
      /\ lastBlock \in 0 .. Len(log) /\ Len(log) \in Nat
      /\ \A i \in Indexers : scan[i].pos \in 0 .. Len(log)
      /\ Indexers \subseteq Procs
      /\ LastEventTells /\ Mirrored(lastBlock)
      /\ ScanSound
  BY LenProperties DEF IInv, TypeOK, ScanRange, Procs, MirrorInv
<1>2. LastEventTells'
  BY LastEventKeepsTelling DEF MirrorInv
<1>3. PICK last \in 0 .. Len(log) : last = lastBlock
  BY <1>1
<1>4. ASSUME \A i \in Indexers : ~ Tick(i) PROVE MirrorInv'
  <2>1. \A i \in Indexers : ~ Mirrors(i) /\ ~ Checkpoint(i)
    BY <1>4 DEF Mirrors, Tick
  <2>2. lastBlock' = lastBlock
    BY <2>1, CheckpointMoves
  <2>3. \A n \in 0 .. Len(log) : Mirrored(n) => Mirrored(n)'
    BY <2>1, MirroredStays
  <2>4. Mirrored(lastBlock)'
    BY <1>1, <1>3, <2>2, <2>3 DEF Mirrored
  <2>5. ASSUME NEW i \in Indexers PROVE CursorMirrored(i)'
    <3>1. CASE Leaves(i)
      BY <3>1 DEF Leaves, CursorMirrored, Handling, At
    <3>2. CASE Untouched(i)
      <4>1. PICK pos \in 0 .. Len(log) : pos = scan[i].pos
        BY <1>1
      <4>2. proc[i].pc \in Handling => pos + 1 \in 0 .. Len(log)
        BY <1>1, <4>1, EventIsTrue DEF Handling, ScanSound, Unread, At
      <4>3. PICK next \in Nat : next = pos + 1
        BY <4>1
      <4>4. Mirrored(pos) => Mirrored(pos)'
        BY <2>3
      <4>5. proc[i].pc \in Handling /\ Mirrored(next) => Mirrored(next)'
        BY <2>3, <4>2, <4>3
      <4>6. CursorMirrored(i)
        BY DEF MirrorInv
      <4> QED
        BY <2>2, <3>2, <4>1, <4>3, <4>4, <4>5, <4>6
        DEF CursorMirrored, Untouched, At, Mirrored
    <3> QED
      BY <1>4, <3>1, <3>2, IndexerFrame
  <2> QED
    BY <1>2, <2>4, <2>5 DEF MirrorInv
<1>5. ASSUME NEW i \in Indexers, Tick(i) PROVE MirrorInv'
  <2>1. \A j \in Indexers : j = i
    BY DEF OneIndexer
  <2>2. PICK pos \in 0 .. Len(log) : pos = scan[i].pos
    BY <1>1
  <2>3. PICK next \in Nat : next = pos + 1
    BY <2>2
  <2>4. scan[i].pos < scan[i].to => next \in 0 .. Len(log)
    BY <1>1, <2>2, <2>3, EventIsTrue
  <2>5. ASSUME ~ Mirrors(i), NEW n \in 0 .. Len(log), Mirrored(n) PROVE Mirrored(n)'
    BY <2>1, <2>5, MirroredStays
  <2>6. CursorMirrored(i)
    BY DEF MirrorInv
  <2>7. ASSUME Mirrored(last)', lastBlock' = lastBlock, CursorMirrored(i)' PROVE MirrorInv'
    <3>1. Mirrored(lastBlock)'
      BY <1>3, <2>7 DEF Mirrored
    <3> QED
      BY <1>2, <2>1, <2>7, <3>1 DEF MirrorInv
  <2>8. ASSUME NEW pc, GoTo(i, pc) PROVE proc'[i].pc = pc
    BY <1>1, <2>8 DEF GoTo, Proc
  <2>9. ASSUME Advance(i) PROVE proc'[i].pc = "scan" /\ scan'[i].pos = next
    BY <1>1, <2>2, <2>3, <2>8, <2>9 DEF Advance, ScanRange
  <2>10. ASSUME NEW to, TickStart(i, to) PROVE MirrorInv'
    <3>1. /\ proc'[i].pc = "scan" /\ scan'[i].pos = lastBlock /\ lastBlock' = lastBlock
          /\ ~ Mirrors(i)
      BY <1>1, <2>10 DEF TickStart, Begin, Idle, NoRange, At, Mirrors, CreatedMirror,
         ReleasedBounty, RefundedBounty, Handles
    <3>2. Mirrored(last)'
      BY <1>1, <1>3, <2>5, <3>1
    <3>3. CursorMirrored(i)'
      BY <1>1, <1>3, <3>1, <3>2 DEF CursorMirrored, Handling, ReleasedPcs, At, Mirrored
    <3> QED
      BY <2>7, <3>1, <3>2, <3>3
  <2>11. ASSUME Mirrors(i) PROVE MirrorInv'
    <3> At(i, "scan")
      BY <2>11, MirroredGrows DEF MirrorInv
    <3>1. Mirrored(pos) /\ last <= pos
      BY <1>3, <2>2, <2>6 DEF CursorMirrored, At
    <3>2. Mirrored(last)' /\ Mirrored(next)'
      BY <1>1, <1>3, <2>2, <2>3, <2>11, <3>1, MirroredGrows
    <3>3. lastBlock' = lastBlock
      BY <2>11 DEF Mirrors, CreatedMirror, ReleasedBounty, RefundedBounty, index
    <3>4. \/ proc'[i].pc \in Handling /\ scan'[i].pos = pos
          \/ proc'[i].pc = "scan" /\ scan'[i].pos = next
      BY <2>2, <2>8, <2>9, <2>11 DEF Mirrors, CreatedMirror, ReleasedBounty, RefundedBounty,
         Handling, ReleasedPcs, index
    <3>5. CursorMirrored(i)'
      BY <1>3, <2>3, <3>1, <3>2, <3>3, <3>4 DEF CursorMirrored, Handling, ReleasedPcs, At, Mirrored
    <3> QED
      BY <2>7, <3>2, <3>3, <3>5
  <2>12. ASSUME CreatedOpen(i) \/ ReleasedClaim(i) \/ ReleasedLedger(i) \/ ReleasedAggregate(i)
                \/ ReleasedCounters(i)
         PROVE  MirrorInv'
    <3>1. proc[i].pc \in Handling /\ ~ At(i, "scan")
      BY <2>12 DEF CreatedOpen, ReleasedClaim, ReleasedLedger, ReleasedAggregate,
         ReleasedCounters, At, Handling, ReleasedPcs
    <3>2. ~ Mirrors(i) /\ next \in 0 .. Len(log)
      BY <1>1, <2>4, <3>1 DEF Mirrors, CreatedMirror, ReleasedBounty, RefundedBounty, Handles,
         Handling, ScanSound, Unread, At
    <3>3. Mirrored(next) /\ last <= pos
      BY <1>3, <2>2, <2>3, <2>6, <3>1 DEF CursorMirrored, Mirrored
    <3>4. Mirrored(last)' /\ Mirrored(next)'
      BY <1>1, <1>3, <2>5, <3>2, <3>3
    <3>5. lastBlock' = lastBlock
      BY <2>12 DEF CreatedOpen, ReleasedClaim, ReleasedLedger, ReleasedAggregate,
         ReleasedCounters, index
    <3>6. \/ proc'[i].pc \in Handling /\ scan'[i].pos = pos
          \/ proc'[i].pc = "scan" /\ scan'[i].pos = next
      BY <1>1, <2>2, <2>8, <2>9, <2>12 DEF CreatedOpen, ReleasedClaim, ReleasedLedger,
         ReleasedAggregate, ReleasedCounters, Handling, ReleasedPcs, ScanRange, index
    <3>7. CursorMirrored(i)'
      BY <1>3, <2>3, <3>3, <3>4, <3>5, <3>6 DEF CursorMirrored, Handling, ReleasedPcs, At, Mirrored
    <3> QED
      BY <2>7, <3>4, <3>5, <3>7
  <2>13. ASSUME Checkpoint(i) PROVE MirrorInv'
    <3>1. /\ proc'[i].pc = "idle" /\ lastBlock' \in {lastBlock, pos} /\ At(i, "scan")
          /\ ~ Mirrors(i)
      BY <1>1, <2>2, <2>13 DEF Checkpoint, Finish, Idle, Mirrors, CreatedMirror,
         ReleasedBounty, RefundedBounty, Handles, ScanRange
    <3>2. Mirrored(last) /\ Mirrored(pos)
      BY <1>1, <1>3, <2>2, <2>6, <3>1 DEF CursorMirrored
    <3>3. Mirrored(last)' /\ Mirrored(pos)'
      BY <2>5, <3>1, <3>2
    <3>4. Mirrored(lastBlock)'
      BY <1>3, <3>1, <3>3 DEF Mirrored
    <3>5. CursorMirrored(i)'
      BY <3>1 DEF CursorMirrored, Handling, ReleasedPcs, At
    <3> QED
      BY <1>2, <2>1, <3>4, <3>5 DEF MirrorInv
  <2> QED
    BY <1>5, <2>10, <2>11, <2>12, <2>13 DEF Tick, Mirrors
<1> QED
  BY <1>4, <1>5

(* One indexer that has read everything mirrors the contract's statuses,      *)
(* whatever crashed and was replayed, as long as no deposit save comes after *)
(* the mirror has shown the end of its bounty.                               *)
THEOREM MirrorIsRight ==
  ASSUME OneIndexer
  PROVE  Spec /\ NoLateDeposits => []MirrorConverges
<1>1. Init => MirrorInv
  BY DEF Init, Escrow!Init, MirrorInv, LastEventTells, Mirrored, CursorMirrored, Handling,
     ReleasedPcs, At, Idle, Procs
<1>2. IInv /\ MirrorInv /\ [Next]_vars /\ [~ LateDeposit]_vars => MirrorInv'
  <2>1. ASSUME MirrorInv, UNCHANGED vars PROVE MirrorInv'
    <3>1. UNCHANGED <<status, log, onChainStatus, proc, scan, lastBlock>>
      BY <2>1 DEF vars, world, chain, bounty, index
    <3> QED
      BY <2>1, <3>1 DEF MirrorInv, LastEventTells, Mirrored, EventAfter, CursorMirrored, At
  <2> QED
    BY <2>1, MirrorKeepsUp
<1>3. IInv /\ MirrorInv => MirrorConverges
  <2> SUFFICES ASSUME IInv, MirrorInv, lastBlock = Len(log), NEW b \in Bounties
               PROVE  onChainStatus[b] = status[b]
    BY DEF MirrorConverges, CaughtUp
  <2>1. Len(log) \in Nat
    BY LenProperties DEF IInv, TypeOK
  <2> QED
    BY <2>1 DEF MirrorInv, Mirrored, EventAfter
<1> QED
  BY <1>1, <1>2, <1>3, Invariant, PTL DEF Spec, NoLateDeposits

-----------------------------------------------------------------------------
(* The counters *)

Recomputing(i) == proc[i].pc \in {"released.aggregate", "released.counters"}

(* The counter of a hunter shows the ledger, unless a recompute is under way, *)
(* and that one holds the count of the ledger.                              *)
CountInv ==
  /\ \A h \in Hunters :
       (\A i \in Indexers : Recomputing(i) => Event(i).to # h) =>
         payoutCount[h] = Cardinality(Earned(h))
  /\ \A i \in Indexers :
       At(i, "released.counters") => scan[i].count = Cardinality(Earned(Event(i).to))

(* A recompute that is cut off leaves its counters stale: the replay finds    *)
(* the payout entered and skips the recompute (handlers.ts:80-93).           *)
RecomputeCut == \E i \in Indexers : Abort(i) /\ Recomputing(i)

RecomputesFinish == [][~ RecomputeCut]_vars

(* Only the ticks of indexers write to the ledger and the counters. *)
LEMMA OnlyTicksCount ==
  ASSUME [Next]_vars, \A i \in Indexers : ~ Tick(i)
  PROVE  ledger' = ledger /\ payoutCount' = payoutCount
<1>1. ASSUME Environment PROVE ledger' = ledger /\ payoutCount' = payoutCount
  BY <1>1 DEF Environment, MaintainerFunds, MaintainerRefunds, MineRelease, GithubMerges, Abort,
     index
<1>2. ASSUME NEW s \in Slots, BountyRequest(s)
      PROVE  ledger' = ledger /\ payoutCount' = payoutCount
  BY <1>2 DEF BountyRequest, DepositRead, RefundRead, CancelRead, DepositSave, RefundSave,
     CancelSave, index
<1>3. ASSUME NEW s \in Slots, ClaimRequest(s)
      PROVE  ledger' = ledger /\ payoutCount' = payoutCount
  BY <1>3 DEF ClaimRequest, ClaimRead, ClaimExpire, ClaimCheck, ClaimInsert, ClaimRecount,
     ClaimRollback, ClaimSave, Unclaim, UnclaimReopen, SubmitRead, SubmitSave, SubmitMark, index
<1>4. ASSUME NEW s \in Slots, SettlementRequest(s)
      PROVE  ledger' = ledger /\ payoutCount' = payoutCount
  BY <1>4 DEF SettlementRequest, WebhookSettles, WebhookIgnores, ManualRelease, SettleArm,
     SettleStamp, index
<1>5. ASSUME NEW p \in Procs, ReleaseJob(p)
      PROVE  ledger' = ledger /\ payoutCount' = payoutCount
  BY <1>5 DEF ReleaseJob, ReleaseSend, ReleaseDone, ReleaseFails, index
<1>6. ASSUME NEW i \in Indexers, Reconcile(i)
      PROVE  ledger' = ledger /\ payoutCount' = payoutCount
  BY <1>6 DEF Reconcile, ReconcileList, ReconcileClaim, ReconcileArm, index
<1>7. CASE UNCHANGED vars
  BY <1>7 DEF vars, index
<1> QED
  BY <1>1, <1>2, <1>3, <1>4, <1>5, <1>6, <1>7 DEF Next

(* What a hunter has earned changes only with the hunter's own payouts.       *)
LEMMA EarnedStays ==
  ASSUME IInv, [Next]_vars, NEW h
  PROVE  /\ ledger' = ledger => Earned(h)' = Earned(h)
         /\ \A pos \in 1 .. Len(log) :
              ledger' = Append(ledger, pos) /\ log[pos].to # h => Earned(h)' = Earned(h)
<1>1. /\ Len(ledger) \in Nat /\ ChainGrows /\ ledger \in Seq(1 .. Len(log))
      /\ \A k \in 1 .. Len(ledger) : ledger[k] \in 1 .. Len(log)
  BY LedgerGrows, ChainInvariant DEF IInv, TypeOK
<1>2. CASE ledger' = ledger
  BY <1>1, <1>2 DEF Earned, ChainGrows
<1>3. ASSUME NEW pos \in 1 .. Len(log), ledger' = Append(ledger, pos), log[pos].to # h
      PROVE  Earned(h)' = Earned(h)
  <2>1. /\ Len(ledger') = Len(ledger) + 1 /\ ledger'[Len(ledger) + 1] = pos
        /\ \A k \in 1 .. Len(ledger) : ledger'[k] = ledger[k]
    BY <1>1, <1>3, AppendProperties
  <2>2. log'[pos] = log[pos]
    BY <1>1 DEF ChainGrows
  <2>3. \A k \in 1 .. Len(ledger') : k \in 1 .. Len(ledger) \/ k = Len(ledger) + 1
    BY <1>1, <2>1
  <2>4. \A k \in 1 .. Len(ledger) : k \in 1 .. Len(ledger') /\ log'[ledger[k]] = log[ledger[k]]
    BY <1>1, <2>1 DEF ChainGrows
  <2> QED
    BY <1>3, <2>1, <2>2, <2>3, <2>4 DEF Earned
<1> QED
  BY <1>2, <1>3

(* With one indexer, a ledger entry is followed by its recompute. *)
LEMMA CountsKeepUp ==
  ASSUME OneIndexer, IInv, CountInv, [Next]_vars, ~ RecomputeCut
  PROVE  CountInv'
<1>1. /\ proc \in [Procs -> Proc] /\ scan \in [Indexers -> ScanRange]
      /\ payoutCount \in [Hunters -> Nat] /\ Indexers \subseteq Procs
      /\ ScanSound /\ ChainGrows
  BY ChainInvariant DEF IInv, TypeOK, Procs
<1>2. ASSUME NEW i \in Indexers, proc[i].pc \in ReleasedPcs
      PROVE  /\ scan[i].pos + 1 \in 1 .. Len(log) /\ Event(i).to \in Hunters
             /\ scan'[i].pos = scan[i].pos => Event(i)' = Event(i)
  <2>1. Unread(i, "BountyReleased")
    BY <1>1, <1>2 DEF ScanSound
  <2>2. scan[i].pos + 1 \in 1 .. Len(log) /\ Event(i).to \in Hunters
    BY <2>1, EventIsTrue DEF Unread
  <2> QED
    BY <1>1, <2>2 DEF Event, ChainGrows
<1>3. ASSUME ledger' = ledger, NEW h PROVE Earned(h)' = Earned(h)
  BY <1>3, EarnedStays
<1>4. ASSUME \A i \in Indexers : ~ Tick(i) PROVE CountInv'
  <2>1. ledger' = ledger /\ payoutCount' = payoutCount
    BY <1>4, OnlyTicksCount
  <2>2. \A h : Earned(h)' = Earned(h)
    BY <1>3, <2>1
  <2>3. ASSUME NEW i \in Indexers, Recomputing(i) \/ Recomputing(i)'
        PROVE  /\ Recomputing(i) /\ Event(i)' = Event(i)
               /\ proc'[i] = proc[i] /\ scan'[i] = scan[i]
    <3>1. Untouched(i)
      BY <1>4, <2>3, IndexerFrame DEF Leaves, Recomputing, ReleasedPcs, RecomputeCut
    <3> QED
      BY <1>2, <2>3, <3>1 DEF Untouched, Recomputing, ReleasedPcs
  <2>4. ASSUME NEW h \in Hunters, \A i \in Indexers : Recomputing(i)' => Event(i).to' # h
        PROVE  payoutCount'[h] = Cardinality(Earned(h))'
    <3>1. \A i \in Indexers : Recomputing(i) => Event(i).to # h
      BY <2>3, <2>4 DEF Recomputing
    <3> QED
      BY <2>1, <2>2, <3>1 DEF CountInv
  <2>5. ASSUME NEW i \in Indexers, At(i, "released.counters")'
        PROVE  scan'[i].count = Cardinality(Earned(Event(i).to))'
    <3>1. At(i, "released.counters") /\ Event(i)' = Event(i) /\ scan'[i] = scan[i]
      BY <2>3, <2>5 DEF Recomputing, At
    <3> QED
      BY <2>2, <3>1 DEF CountInv
  <2> QED
    BY <2>4, <2>5 DEF CountInv
<1>5. ASSUME NEW i \in Indexers, Tick(i) PROVE CountInv'
  <2>1. \A j \in Indexers : j = i
    BY DEF OneIndexer
  <2>2. ASSUME NEW pc, GoTo(i, pc) PROVE proc'[i].pc = pc
    BY <1>1, <2>2 DEF GoTo, Proc
  <2>3. ASSUME Advance(i) PROVE proc'[i].pc = "scan"
    BY <2>2, <2>3 DEF Advance
  <2>4. ASSUME proc'[i].pc \notin {"released.aggregate", "released.counters"},
               \A h \in Hunters : payoutCount'[h] = Cardinality(Earned(h)')
        PROVE  CountInv'
    BY <2>1, <2>4 DEF CountInv, At
  <2>5. ASSUME ~ Recomputing(i), NEW h \in Hunters
        PROVE  payoutCount[h] = Cardinality(Earned(h))
    BY <2>1, <2>5 DEF CountInv
  <2>6. CASE ReleasedLedger(i)
    <3>1. ~ Recomputing(i) /\ proc[i].pc \in ReleasedPcs /\ payoutCount' = payoutCount
      BY <2>6 DEF ReleasedLedger, At, Recomputing, ReleasedPcs
    <3>2. CASE Advance(i) /\ ledger' = ledger
      <4>1. \A h : Earned(h)' = Earned(h)
        BY <1>3, <3>2
      <4> QED
        BY <2>3, <2>4, <2>5, <3>1, <3>2, <4>1
    <3>3. ASSUME ledger' = Append(ledger, scan[i].pos + 1), GoTo(i, "released.aggregate"),
                 scan' = scan
          PROVE  CountInv'
      <4>1. /\ proc'[i].pc = "released.aggregate" /\ Event(i)' = Event(i)
            /\ scan[i].pos + 1 \in 1 .. Len(log)
        BY <1>2, <2>2, <3>1, <3>3
      <4>2. ASSUME NEW h \in Hunters, Event(i).to # h
            PROVE  payoutCount'[h] = Cardinality(Earned(h)')
        <5>1. Earned(h)' = Earned(h)
          BY <3>3, <4>1, <4>2, EarnedStays DEF Event
        <5> QED
          BY <2>5, <3>1, <5>1
      <4> QED
        BY <2>1, <4>1, <4>2 DEF CountInv, Recomputing, At
    <3> QED
      BY <2>6, <3>2, <3>3 DEF ReleasedLedger
  <2>7. CASE ReleasedAggregate(i)
    <3>1. /\ Recomputing(i) /\ proc[i].pc \in ReleasedPcs /\ ledger' = ledger
          /\ payoutCount' = payoutCount
      BY <2>7 DEF ReleasedAggregate, At, Recomputing, ReleasedPcs
    <3>2. /\ proc'[i].pc = "released.counters" /\ scan'[i].pos = scan[i].pos
          /\ scan'[i].count = Cardinality(Earned(Event(i).to))
      BY <1>1, <2>2, <2>7 DEF ReleasedAggregate, ScanRange
    <3>3. Event(i)' = Event(i) /\ \A h : Earned(h)' = Earned(h)
      BY <1>2, <1>3, <3>1, <3>2
    <3>4. \A h \in Hunters : Event(i).to # h => payoutCount'[h] = Cardinality(Earned(h)')
      BY <2>1, <3>1, <3>3 DEF CountInv
    <3>5. scan'[i].count = Cardinality(Earned(Event(i).to)')
      BY <3>2, <3>3
    <3> QED
      BY <2>1, <3>2, <3>3, <3>4, <3>5 DEF CountInv, Recomputing, At
  <2>8. CASE ReleasedCounters(i)
    <3>1. /\ Recomputing(i) /\ At(i, "released.counters") /\ proc[i].pc \in ReleasedPcs
          /\ ledger' = ledger /\ payoutCount' = [payoutCount EXCEPT ![Event(i).to] = scan[i].count]
          /\ proc'[i].pc = "scan"
      BY <2>3, <2>8 DEF ReleasedCounters, At, Recomputing, ReleasedPcs
    <3>2. \A h : Earned(h)' = Earned(h)
      BY <1>3, <3>1
    <3>3. scan[i].count = Cardinality(Earned(Event(i).to))
      BY <3>1 DEF CountInv
    <3>4. \A h \in Hunters : Event(i).to # h => payoutCount[h] = Cardinality(Earned(h))
      BY <2>1 DEF CountInv
    <3>5. \A h \in Hunters : payoutCount'[h] = Cardinality(Earned(h)')
      BY <1>1, <3>1, <3>2, <3>3, <3>4
    <3> QED
      BY <2>4, <3>1, <3>5
  <2>9. ASSUME \/ \E to \in lastBlock + 1 .. Len(log) : TickStart(i, to)
               \/ CreatedMirror(i) \/ CreatedOpen(i) \/ ReleasedBounty(i) \/ ReleasedClaim(i)
               \/ RefundedBounty(i) \/ Checkpoint(i)
        PROVE  CountInv'
    <3>1. /\ ~ Recomputing(i) /\ ledger' = ledger /\ payoutCount' = payoutCount
      BY <2>9 DEF TickStart, CreatedMirror, CreatedOpen, ReleasedBounty, ReleasedClaim,
         RefundedBounty, Checkpoint, Begin, Handles, At, Recomputing, index
    <3>2. proc'[i].pc \in {"scan", "created.open", "released.claim", "released.ledger", "idle"}
      <4>1. ASSUME NEW to, TickStart(i, to) PROVE proc'[i].pc = "scan"
        BY <1>1, <4>1 DEF TickStart, Begin, Idle
      <4>2. ASSUME Checkpoint(i) PROVE proc'[i].pc = "idle"
        BY <1>1, <4>2 DEF Checkpoint, Finish, Idle
      <4>3. CASE CreatedMirror(i) \/ ReleasedBounty(i) \/ ReleasedClaim(i)
        BY <2>2, <4>3 DEF CreatedMirror, ReleasedBounty, ReleasedClaim
      <4>4. CASE CreatedOpen(i) \/ RefundedBounty(i)
        BY <2>3, <4>4 DEF CreatedOpen, RefundedBounty
      <4> QED
        BY <2>9, <4>1, <4>2, <4>3, <4>4
    <3>3. \A h : Earned(h)' = Earned(h)
      BY <1>3, <3>1
    <3> QED
      BY <2>4, <2>5, <3>1, <3>2, <3>3
  <2> QED
    BY <1>5, <2>6, <2>7, <2>8, <2>9 DEF Tick
<1> QED
  BY <1>4, <1>5

(* The payouts to a hunter that the log holds *)
PayoutsTo(h) == {k \in 1 .. Len(log) : log[k].kind = "BountyReleased" /\ log[k].to = h}

(* Once every payout is in the ledger, and each once, the entries of a hunter *)
(* are as many as the payouts.                                              *)
LEMMA LedgerShowsPayouts ==
  ASSUME IInv, NoPayoutSkipped, LedgerExact, lastBlock = Len(log), NEW h \in Hunters
  PROVE  Cardinality(PayoutsTo(h)) = Cardinality(Earned(h))
<1> DEFINE entry == [j \in Earned(h) |-> ledger[j]]
<1>1. /\ ledger \in Seq(1 .. Len(log)) /\ Len(ledger) \in Nat /\ Len(log) \in Nat
      /\ \A k \in 1 .. Len(ledger) : ledger[k] \in 1 .. Len(log)
  BY LenProperties, ElementOfSeq DEF IInv, TypeOK
<1>2. \A j \in Earned(h) : j \in 1 .. Len(ledger) /\ ledger[j] \in PayoutsTo(h)
  BY <1>1 DEF Earned, PayoutsTo, LedgerExact
<1>3. \A j, k \in Earned(h) : ledger[j] = ledger[k] => j = k
  BY <1>2 DEF LedgerExact
<1>4. ASSUME NEW k \in PayoutsTo(h) PROVE \E j \in Earned(h) : ledger[j] = k
  BY <1>1, <1>4 DEF NoPayoutSkipped, Entered, Earned, PayoutsTo
<1>5. entry \in Bijection(Earned(h), PayoutsTo(h))
  BY <1>2, <1>3, <1>4 DEF Bijection, Injection, Surjection, IsInjective
<1>6. IsFiniteSet(Earned(h))
  BY EarnedFinite DEF IInv
<1> QED
  BY <1>5, <1>6, FS_Bijection DEF ExistsBijection

(* One indexer that has read everything shows every payout of every hunter,   *)
(* and no more, unless a recompute was cut off.                             *)
THEOREM CountersAreRight ==
  ASSUME OneIndexer
  PROVE  Spec /\ RecomputesFinish => []CountersConverge
<1>1. Init => CountInv
  <2> SUFFICES ASSUME Init PROVE CountInv
    OBVIOUS
  <2>1. /\ ledger = << >> /\ payoutCount = [h \in Hunters |-> 0]
        /\ \A i \in Indexers : ~ Recomputing(i) /\ ~ At(i, "released.counters")
    BY DEF Init, Recomputing, At, Idle, Procs
  <2>2. \A h : Earned(h) = {}
    BY <2>1 DEF Earned
  <2> QED
    BY <2>1, <2>2, FS_EmptySet DEF CountInv
<1>2. IInv /\ CountInv /\ [Next]_vars /\ [~ RecomputeCut]_vars => CountInv'
  <2>1. ASSUME CountInv, UNCHANGED vars PROVE CountInv'
    <3>1. UNCHANGED <<log, proc, scan, ledger, payoutCount>>
      BY <2>1 DEF vars, world, chain, index
    <3>2. \A h : Earned(h)' = Earned(h)
      BY <3>1 DEF Earned
    <3> QED
      BY <2>1, <3>1, <3>2 DEF CountInv, Recomputing, At, Event
  <2> QED
    BY <2>1, CountsKeepUp
<1>3. IInv /\ CountInv /\ NoPayoutSkipped /\ LedgerExact => CountersConverge
  <2> SUFFICES ASSUME IInv, CountInv, NoPayoutSkipped, LedgerExact, CaughtUp, NEW h \in Hunters
               PROVE  payoutCount[h] = Cardinality(PayoutsTo(h))
    BY DEF CountersConverge, PayoutsTo
  <2>1. \A i \in Indexers : ~ Recomputing(i)
    BY DEF CaughtUp, Recomputing, At
  <2> QED
    BY <2>1, LedgerShowsPayouts DEF CountInv, CaughtUp
<1> QED
  BY <1>1, <1>2, <1>3, Invariant, NothingSkipped, CountedOnce, PTL DEF Spec, RecomputesFinish
=============================================================================

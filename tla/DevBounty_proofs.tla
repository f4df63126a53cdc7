-------------------------- MODULE DevBounty_proofs ---------------------------
(***************************************************************************)
(* Proofs about the backend, for any number of bounties, hunters, pull      *)
(* requests, concurrent requests and indexers, with or without crashes.     *)
(*                                                                         *)
(* The inductive invariant joins TypeOK and NeverAheadOfChain with what      *)
(* makes them stable: the log agrees with the contract's storage, claim rows *)
(* only exist for funded bounties, a suspended handler holds locals that     *)
(* still justify the write it is about to make, and an indexer inside a      *)
(* handler is at an unread event of that handler's kind.                    *)
(***************************************************************************)
EXTENDS DevBounty, SequenceTheorems, FiniteSetTheorems, TLAPS

(* The log agrees with the contract's storage. *)
LogTruthful ==
  \A k \in 1 .. Len(log) :
    /\ log[k].kind = "BountyCreated"  => status[log[k].id] # "None"
    /\ log[k].kind = "BountyReleased" => status[log[k].id] = "Paid"
    /\ log[k].kind = "BountyRefunded" => status[log[k].id] = "Refunded"

(* What may be written to a bounty of this status on chain *)
LifeAllowed(b, v) ==
  /\ v \notin {"pending_deposit", "cancelled"} => status[b] # "None"
  /\ v = "paid" => status[b] = "Paid"
  /\ v = "refunded" => status[b] = "Refunded"

MirrorAllowed(b, v) ==
  /\ v # "None" => status[b] # "None"
  /\ v \in {"Paid", "Refunded"} => v = status[b]

(* A row in use names a hunter and a funded bounty, paid if the row is. *)
RowSound(row) ==
  row.status # "none" =>
    /\ row.bounty \in Bounties
    /\ row.hunter \in Hunters
    /\ status[row.bounty] # "None"
    /\ row.status = "paid" => status[row.bounty] = "Paid"

RowsSound == \A r \in ClaimIds : RowSound(claims[r])

(* The awaits of handlers that act on a funded bounty *)
ClaimPcs   == {"claim.expire", "claim.check", "claim.insert", "claim.recount",
               "claim.rollback", "claim.save"}
SubmitPcs  == {"unclaim.reopen", "submit.save", "submit.mark"}
ReleasePcs == SettlePcs \cup {"reconcile.arm"}
SavePcs    == {"deposit.save", "refund.save", "cancel.save"}

(* What a suspended handler may rely on its locals for *)
LocalsSound(st) ==
  /\ st.pc \in ClaimPcs \cup SubmitPcs \cup ReleasePcs =>
       st.bounty \in Bounties /\ status[st.bounty] # "None"
  /\ st.pc \in SavePcs => st.bounty \in Bounties
  /\ st.pc \in ClaimPcs => st.hunter \in Hunters
  /\ st.pc \in {"claim.recount", "claim.rollback", "submit.save"} =>
       st.row \in ClaimIds /\ claims[st.row].status # "none"
  /\ st.pc = "submit.save" => st.pr \in PRs
  /\ st.pc \in ReleasePcs => st.hunter \in Hunters /\ st.pr \in PRs
  /\ st.hook => st.pr \in merged

ProcsSound == \A p \in Procs : LocalsSound(proc[p])

(* An indexer inside a handler is at an unread event of the handler's kind. *)
ReleasedPcs == {"released.claim", "released.ledger", "released.aggregate",
                "released.counters"}

Unread(i, kind) == scan[i].pos < scan[i].to /\ Event(i).kind = kind

ScanSound ==
  \A i \in Indexers :
    /\ At(i, "created.open") => Unread(i, "BountyCreated")
    /\ proc[i].pc \in ReleasedPcs => Unread(i, "BountyReleased")

IInv == TypeOK /\ NeverAheadOfChain /\ LogTruthful /\ RowsSound /\ ProcsSound /\ ScanSound

(* A payout an indexer has passed is in the ledger. *)
Passed ==
  \A i \in Indexers :
    /\ \A k \in 1 .. scan[i].pos : log[k].kind = "BountyReleased" => Entered(k)
    /\ proc[i].pc \in {"released.aggregate", "released.counters"} => Entered(scan[i].pos + 1)

(* No recompute holds a count the ledger has not reached. *)
CountsSound ==
  \A i \in Indexers :
    At(i, "released.counters") => scan[i].count <= Cardinality(Earned(Event(i).to))

-----------------------------------------------------------------------------
(* The chain *)

ChainMove ==
  \/ \E b \in Bounties : Escrow!Fund(b) \/ Escrow!GiveBack(b)
  \/ \E b \in Bounties, h \in Hunters, c \in PRs : Escrow!PayOut(b, h, c)

(* Only the environment writes to the chain, and only as the contract allows. *)
LEMMA ChainStep == ASSUME TypeOK, [Next]_vars PROVE ChainMove \/ UNCHANGED chain
<1>1. ASSUME Environment PROVE ChainMove \/ UNCHANGED chain
  BY <1>1 DEF Environment, MaintainerFunds, MaintainerRefunds, MineRelease, GithubMerges,
       Abort, TypeOK, Tx, ChainMove, world
<1>2. ASSUME NEW s \in Slots, BountyRequest(s) PROVE UNCHANGED chain
  BY <1>2 DEF BountyRequest, DepositRead, DepositSave, RefundRead, RefundSave,
       CancelRead, CancelSave, world
<1>3. ASSUME NEW s \in Slots, ClaimRequest(s) PROVE UNCHANGED chain
  BY <1>3 DEF ClaimRequest, ClaimRead, ClaimExpire, ClaimCheck, ClaimInsert, ClaimRecount,
       ClaimRollback, ClaimSave, Unclaim, UnclaimReopen, SubmitRead, SubmitSave, SubmitMark, world
<1>4. ASSUME NEW s \in Slots, SettlementRequest(s) PROVE UNCHANGED chain
  BY <1>4 DEF SettlementRequest, WebhookSettles, WebhookIgnores, ManualRelease, SettleArm,
       SettleStamp, world
<1>5. ASSUME NEW p \in Procs, ReleaseJob(p) PROVE UNCHANGED chain
  BY <1>5 DEF ReleaseJob, ReleaseSend, ReleaseDone, ReleaseFails, world
<1>6. ASSUME NEW i \in Indexers, Tick(i) \/ Reconcile(i) PROVE UNCHANGED chain
  BY <1>6 DEF Tick, TickStart, CreatedMirror, CreatedOpen, ReleasedBounty, ReleasedClaim,
       ReleasedLedger, ReleasedAggregate, ReleasedCounters, RefundedBounty, Checkpoint,
       Reconcile, ReconcileList, ReconcileClaim, ReconcileArm, world
<1> QED
  BY <1>1, <1>2, <1>3, <1>4, <1>5, <1>6 DEF Next, vars, world

(* The log grows at its end, and no status goes back. *)
ChainGrows ==
  /\ Len(log) <= Len(log')
  /\ \A k \in 1 .. Len(log) : log'[k] = log[k]
  /\ \A b \in Bounties :
       /\ status[b] # "None" => status'[b] # "None"
       /\ status[b] \in {"Paid", "Refunded"} => status'[b] = status[b]

(* One move of the contract keeps the log truthful and advances one status. *)
LEMMA MoveGrows ==
  ASSUME TypeOK, LogTruthful,
         NEW b \in Bounties, NEW from, NEW to \in Escrow!Statuses, NEW e \in Escrow!Event,
         Escrow!Move(b, from, to, e), e.id = b,
         \/ from = "None" /\ to = "Open" /\ e.kind = "BountyCreated"
         \/ from = "Open" /\ to = "Paid" /\ e.kind = "BountyReleased"
         \/ from = "Open" /\ to = "Refunded" /\ e.kind = "BountyRefunded"
  PROVE  /\ ChainGrows
         /\ status' \in [Bounties -> Escrow!Statuses]
         /\ log' \in Seq(Escrow!Event)
         /\ LogTruthful'
<1>1. /\ status \in [Bounties -> Escrow!Statuses]
      /\ log \in Seq(Escrow!Event)
      /\ status[b] = from
      /\ status' = [status EXCEPT ![b] = to]
      /\ log' = Append(log, e)
  BY DEF TypeOK, Escrow!Move
<1>2. /\ log' \in Seq(Escrow!Event)
      /\ Len(log') = Len(log) + 1
      /\ \A k \in 1 .. Len(log) : log'[k] = log[k]
      /\ log'[Len(log) + 1] = e
  BY <1>1, AppendProperties
<1>3. Len(log) \in Nat
  BY <1>1, LenProperties
<1>4. status' \in [Bounties -> Escrow!Statuses]
  BY <1>1
<1>5. ChainGrows
  BY <1>1, <1>2, <1>3 DEF ChainGrows
<1>6. LogTruthful'
  <2> SUFFICES ASSUME NEW k \in 1 .. Len(log')
               PROVE  /\ log'[k].kind = "BountyCreated"  => status'[log'[k].id] # "None"
                      /\ log'[k].kind = "BountyReleased" => status'[log'[k].id] = "Paid"
                      /\ log'[k].kind = "BountyRefunded" => status'[log'[k].id] = "Refunded"
    BY DEF LogTruthful
  <2>1. CASE k \in 1 .. Len(log)
    <3>1. log[k] \in Escrow!Event
      BY <1>1, <2>1, ElementOfSeq
    <3>2. log[k].id \in Bounties
      BY <3>1 DEF Escrow!Event
    <3> QED
      BY <1>1, <1>2, <2>1, <3>2 DEF LogTruthful
  <2>2. CASE k = Len(log) + 1
    BY <1>1, <1>2, <2>2
  <2> QED
    BY <1>2, <1>3, <2>1, <2>2
<1> QED
  BY <1>2, <1>4, <1>5, <1>6

(* Every step leaves the chain well-typed, truthful and grown. *)
LEMMA ChainInvariant ==
  ASSUME TypeOK, LogTruthful, [Next]_vars
  PROVE  /\ ChainGrows
         /\ status' \in [Bounties -> Escrow!Statuses]
         /\ log' \in Seq(Escrow!Event)
         /\ LogTruthful'
<1>1. CASE UNCHANGED chain
  <2>1. /\ status' = status /\ log' = log
        /\ log \in Seq(Escrow!Event) /\ status \in [Bounties -> Escrow!Statuses]
    BY <1>1 DEF chain, TypeOK
  <2>2. Len(log) \in Nat
    BY <2>1, LenProperties
  <2> QED
    BY <2>1, <2>2 DEF ChainGrows, LogTruthful
<1>2. ASSUME NEW b \in Bounties, Escrow!Fund(b) PROVE Escrow!Move(b, "None", "Open", Escrow!Created(b))
  BY <1>2 DEF Escrow!Fund
<1>3. ASSUME NEW b \in Bounties, Escrow!GiveBack(b) PROVE Escrow!Move(b, "Open", "Refunded", Escrow!Refunded(b))
  BY <1>3 DEF Escrow!GiveBack
<1>4. ASSUME NEW b \in Bounties, NEW h \in Hunters, NEW c \in PRs, Escrow!PayOut(b, h, c)
      PROVE  Escrow!Move(b, "Open", "Paid", Escrow!Released(b, h, c))
  BY <1>4 DEF Escrow!PayOut
<1>5. \A b \in Bounties :
        /\ Escrow!Created(b) \in Escrow!Event
        /\ Escrow!Created(b).id = b /\ Escrow!Created(b).kind = "BountyCreated"
  BY DEF Escrow!Event, Escrow!Created
<1>6. \A b \in Bounties :
        /\ Escrow!Refunded(b) \in Escrow!Event
        /\ Escrow!Refunded(b).id = b /\ Escrow!Refunded(b).kind = "BountyRefunded"
  BY DEF Escrow!Event, Escrow!Refunded
<1>7. \A b \in Bounties, h \in Hunters, c \in PRs :
        /\ Escrow!Released(b, h, c) \in Escrow!Event
        /\ Escrow!Released(b, h, c).id = b /\ Escrow!Released(b, h, c).kind = "BountyReleased"
  BY DEF Escrow!Event, Escrow!Released
<1>8. {"None", "Open", "Paid", "Refunded"} = Escrow!Statuses
  BY DEF Escrow!Statuses
<1>9. CASE ChainMove
  <2>1. ASSUME NEW b \in Bounties, Escrow!Fund(b)
        PROVE  ChainGrows /\ status' \in [Bounties -> Escrow!Statuses]
               /\ log' \in Seq(Escrow!Event) /\ LogTruthful'
    BY <2>1, <1>2, <1>5, <1>8, MoveGrows
  <2>2. ASSUME NEW b \in Bounties, Escrow!GiveBack(b)
        PROVE  ChainGrows /\ status' \in [Bounties -> Escrow!Statuses]
               /\ log' \in Seq(Escrow!Event) /\ LogTruthful'
    BY <2>2, <1>3, <1>6, <1>8, MoveGrows
  <2>3. ASSUME NEW b \in Bounties, NEW h \in Hunters, NEW c \in PRs, Escrow!PayOut(b, h, c)
        PROVE  ChainGrows /\ status' \in [Bounties -> Escrow!Statuses]
               /\ log' \in Seq(Escrow!Event) /\ LogTruthful'
    BY <2>3, <1>4, <1>7, <1>8, MoveGrows
  <2> QED
    BY <1>9, <2>1, <2>2, <2>3 DEF ChainMove
<1> QED
  BY <1>1, <1>9, ChainStep

-----------------------------------------------------------------------------
(* The bounty documents *)

LifeStep ==
  \/ UNCHANGED lifecycleStatus
  \/ \E b \in Bounties, v \in Lifecycle : LifeAllowed(b, v) /\ SetLifecycle(b, v)

MirrorStep ==
  \/ UNCHANGED onChainStatus
  \/ \E b \in Bounties, v \in Escrow!Statuses : MirrorAllowed(b, v) /\ SetMirror(b, v)

AttemptsStep ==
  \/ UNCHANGED releaseAttempts
  \/ \E b \in Bounties : releaseAttempts' = [releaseAttempts EXCEPT ![b] = @ + 1]

BountyStep == LifeStep /\ MirrorStep /\ AttemptsStep

(* A log entry that names a bounty justifies what its handler writes. *)
LEMMA VerifiedIsTrue ==
  ASSUME IInv, NEW b \in Bounties
  PROVE  /\ Verified(b, "BountyCreated") => status[b] # "None"
         /\ Verified(b, "BountyRefunded") => status[b] = "Refunded"
  BY DEF IInv, LogTruthful, Verified

LEMMA EventIsTrue ==
  ASSUME IInv, NEW i \in Indexers, scan[i].pos < scan[i].to
  PROVE  /\ scan[i].pos + 1 \in 1 .. Len(log)
         /\ Event(i) \in Escrow!Event
         /\ Event(i).id \in Bounties
         /\ Event(i).kind = "BountyCreated"  => status[Event(i).id] # "None"
         /\ Event(i).kind = "BountyReleased" => status[Event(i).id] = "Paid"
         /\ Event(i).kind = "BountyRefunded" => status[Event(i).id] = "Refunded"
         /\ Event(i).kind = "BountyReleased" => Event(i).to \in Hunters /\ Event(i).sha \in PRs
<1>1. /\ scan[i].pos \in Nat /\ scan[i].to \in Nat /\ scan[i].to <= Len(log)
      /\ log \in Seq(Escrow!Event) /\ Len(log) \in Nat
  BY LenProperties DEF IInv, TypeOK, ScanRange
<1>2. scan[i].pos + 1 \in 1 .. Len(log)
  BY <1>1
<1>3. Event(i) \in Escrow!Event
  BY <1>1, <1>2, ElementOfSeq DEF Event
<1>4. /\ Event(i).id \in Bounties
      /\ Event(i).kind = "BountyReleased" => Event(i).to \in Hunters /\ Event(i).sha \in PRs
  BY <1>3 DEF Escrow!Event
<1> QED
  BY <1>2, <1>3, <1>4 DEF IInv, LogTruthful, Event

(* Every write to a bounty document is one the chain allows, though the     *)
(* handler may have loaded the document many steps ago.                     *)
LEMMA BountyMoves == ASSUME IInv, [Next]_vars PROVE BountyStep
<1>1. TypeOK /\ NeverAheadOfChain /\ RowsSound /\ ProcsSound /\ ScanSound
  BY DEF IInv
<1>2. CASE UNCHANGED bounty
  BY <1>2 DEF bounty, BountyStep, LifeStep, MirrorStep, AttemptsStep
<1>3. ASSUME NEW s \in Slots, DepositSave(s) PROVE BountyStep
  <2>1. proc[s].bounty \in Bounties /\ At(s, "deposit.save")
    BY <1>1, <1>3 DEF DepositSave, At, ProcsSound, LocalsSound, SavePcs, Procs
  <2> QED
    BY <1>3, <2>1, VerifiedIsTrue DEF DepositSave, SaveMirror, SaveLifecycle, BountyStep,
         LifeStep, MirrorStep, AttemptsStep, LifeAllowed, MirrorAllowed, Lifecycle, Escrow!Statuses
<1>4. ASSUME NEW s \in Slots, RefundSave(s) PROVE BountyStep
  <2>1. proc[s].bounty \in Bounties
    BY <1>1, <1>4 DEF RefundSave, At, ProcsSound, LocalsSound, SavePcs, Procs
  <2> QED
    BY <1>4, <2>1, VerifiedIsTrue DEF RefundSave, SaveMirror, SaveLifecycle, BountyStep,
         LifeStep, MirrorStep, AttemptsStep, LifeAllowed, MirrorAllowed, Lifecycle, Escrow!Statuses
<1>5. ASSUME NEW s \in Slots, CancelSave(s) PROVE BountyStep
  <2>1. proc[s].bounty \in Bounties
    BY <1>1, <1>5 DEF CancelSave, At, ProcsSound, LocalsSound, SavePcs, Procs
  <2> QED
    BY <1>5, <2>1 DEF CancelSave, SaveLifecycle, BountyStep,
         LifeStep, MirrorStep, AttemptsStep, LifeAllowed, Lifecycle
<1>6. ASSUME NEW s \in Slots, ClaimSave(s) \/ UnclaimReopen(s) \/ SubmitMark(s) \/ SettleArm(s)
      PROVE  BountyStep
  <2>1. proc[s].bounty \in Bounties /\ status[proc[s].bounty] # "None"
    BY <1>1, <1>6 DEF ClaimSave, UnclaimReopen, SubmitMark, SettleArm, At, ProcsSound,
         LocalsSound, ClaimPcs, SubmitPcs, ReleasePcs, SettlePcs, Procs
  <2> QED
    BY <1>6, <2>1 DEF ClaimSave, UnclaimReopen, SubmitMark, SettleArm, BountyStep,
         LifeStep, MirrorStep, AttemptsStep, LifeAllowed, Lifecycle
<1>7. ASSUME NEW p \in Procs, ReleaseFails(p) \/ ReconcileArm(p) PROVE BountyStep
  <2>1. proc[p].bounty \in Bounties /\ status[proc[p].bounty] # "None"
    BY <1>1, <1>7 DEF ReleaseFails, SendFails, ReconcileArm, At, ProcsSound, LocalsSound,
         ReleasePcs, SettlePcs
  <2> QED
    BY <1>7, <2>1 DEF ReleaseFails, ReconcileArm, BountyStep,
         LifeStep, MirrorStep, AttemptsStep, LifeAllowed, Lifecycle
<1>8. ASSUME NEW i \in Indexers, CreatedMirror(i) \/ ReleasedBounty(i) \/ RefundedBounty(i)
      PROVE  BountyStep
  <2>1. CASE CreatedMirror(i)
    BY <2>1, EventIsTrue DEF CreatedMirror, Handles, BountyStep, LifeStep, MirrorStep,
         AttemptsStep, MirrorAllowed, Escrow!Statuses
  <2>2. CASE ReleasedBounty(i)
    BY <2>2, EventIsTrue DEF ReleasedBounty, Handles, BountyStep, LifeStep, MirrorStep,
         AttemptsStep, LifeAllowed, MirrorAllowed, Lifecycle, Escrow!Statuses
  <2>3. CASE RefundedBounty(i)
    BY <2>3, EventIsTrue DEF RefundedBounty, Handles, BountyStep, LifeStep, MirrorStep,
         AttemptsStep, LifeAllowed, MirrorAllowed, Lifecycle, Escrow!Statuses
  <2> QED
    BY <1>8, <2>1, <2>2, <2>3
<1>9. ASSUME NEW i \in Indexers, CreatedOpen(i) PROVE BountyStep
  <2>1. scan[i].pos < scan[i].to /\ Event(i).kind = "BountyCreated"
    BY <1>1, <1>9 DEF CreatedOpen, ScanSound, Unread
  <2> QED
    BY <1>9, <2>1, EventIsTrue DEF CreatedOpen, BountyStep, LifeStep, MirrorStep,
         AttemptsStep, LifeAllowed, Lifecycle
<1>10. ASSUME Environment PROVE UNCHANGED bounty
  BY <1>10 DEF Environment, MaintainerFunds, MaintainerRefunds, MineRelease, GithubMerges,
       Abort, bounty
<1>11. ASSUME NEW s \in Slots, BountyRequest(s) PROVE BountyStep
  BY <1>2, <1>3, <1>4, <1>5, <1>11 DEF BountyRequest, DepositRead, RefundRead, CancelRead
<1>12. ASSUME NEW s \in Slots, ClaimRequest(s) PROVE BountyStep
  BY <1>2, <1>6, <1>12 DEF ClaimRequest, ClaimRead, ClaimExpire, ClaimCheck, ClaimInsert,
       ClaimRecount, ClaimRollback, Unclaim, SubmitRead, SubmitSave
<1>13. ASSUME NEW s \in Slots, SettlementRequest(s) PROVE BountyStep
  BY <1>2, <1>6, <1>13 DEF SettlementRequest, WebhookSettles, WebhookIgnores, ManualRelease,
       SettleStamp
<1>14. ASSUME NEW p \in Procs, ReleaseJob(p) PROVE BountyStep
  BY <1>2, <1>7, <1>14 DEF ReleaseJob, ReleaseSend, ReleaseDone
<1>15. ASSUME NEW i \in Indexers, Tick(i) \/ Reconcile(i) PROVE BountyStep
  BY <1>2, <1>7, <1>8, <1>9, <1>15 DEF Tick, TickStart, ReleasedClaim, ReleasedLedger,
       ReleasedAggregate, ReleasedCounters, Checkpoint, Reconcile, ReconcileList, ReconcileClaim, Procs
<1>16. CASE UNCHANGED vars
  BY <1>2, <1>16 DEF vars
<1> QED
  BY <1>2, <1>10, <1>11, <1>12, <1>13, <1>14, <1>15, <1>16 DEF Next

(* What the moves of the chain and of the bounty documents preserve *)
BountyOK ==
  /\ lifecycleStatus \in [Bounties -> Lifecycle]
  /\ onChainStatus \in [Bounties -> Escrow!Statuses]
  /\ releaseAttempts \in [Bounties -> Nat]
  /\ \A b \in Bounties : LifeAllowed(b, lifecycleStatus[b]) /\ MirrorAllowed(b, onChainStatus[b])

(* Allowed writes keep every bounty document allowed. *)
LEMMA BountyInvariant == ASSUME IInv, BountyStep, ChainGrows PROVE BountyOK'
<1>1. BountyOK
  BY DEF IInv, TypeOK, NeverAheadOfChain, Board, Shown, BountyOK, LifeAllowed, MirrorAllowed
<1>2. \A b \in Bounties, v \in Lifecycle : LifeAllowed(b, v) => LifeAllowed(b, v)'
  BY DEF LifeAllowed, ChainGrows
<1>3. \A b \in Bounties, v \in Escrow!Statuses : MirrorAllowed(b, v) => MirrorAllowed(b, v)'
  BY DEF MirrorAllowed, ChainGrows
<1>4. /\ lifecycleStatus' \in [Bounties -> Lifecycle]
      /\ \A b \in Bounties : LifeAllowed(b, lifecycleStatus'[b])
  BY <1>1 DEF BountyStep, LifeStep, SetLifecycle, BountyOK
<1>5. /\ onChainStatus' \in [Bounties -> Escrow!Statuses]
      /\ \A b \in Bounties : MirrorAllowed(b, onChainStatus'[b])
  BY <1>1 DEF BountyStep, MirrorStep, SetMirror, BountyOK
<1>6. releaseAttempts' \in [Bounties -> Nat]
  BY <1>1 DEF BountyStep, AttemptsStep, BountyOK
<1>7. \A b \in Bounties : LifeAllowed(b, lifecycleStatus[b])'
  BY <1>2, <1>4
<1>8. \A b \in Bounties : MirrorAllowed(b, onChainStatus[b])'
  BY <1>3, <1>5
<1> QED
  BY <1>4, <1>5, <1>6, <1>7, <1>8 DEF BountyOK

-----------------------------------------------------------------------------
(* The claim rows *)

(* What a write to a row may leave: a sound row, with its identity kept *)
RowKept(old, new) ==
  old.status # "none" =>
    new.status # "none" /\ new.bounty = old.bounty /\ new.hunter = old.hunter

RowsStep ==
  /\ claims' \in [ClaimIds -> ClaimRow]
  /\ \A r \in ClaimIds : RowKept(claims[r], claims'[r]) /\ RowSound(claims'[r])

(* An updateOne of the submitted row of a bounty, which keeps its identity, *)
(* and pays it only if the bounty is paid on chain                         *)
LEMMA UpdateKeeps ==
  ASSUME claims \in [ClaimIds -> ClaimRow], RowsSound,
         NEW b \in Bounties, NEW updated \in [ClaimIds -> ClaimRow],
         \A r \in ClaimIds :
           /\ updated[r].bounty = claims[r].bounty /\ updated[r].hunter = claims[r].hunter
           /\ updated[r].status \in {claims[r].status, "paid"}
           /\ updated[r].status = "paid" /\ claims[r].bounty = b =>
                claims[r].status = "paid" \/ status[b] = "Paid",
         UpdateSubmitted(b, updated)
  PROVE  RowsStep
  BY DEF UpdateSubmitted, Rows, RowsStep, RowKept, RowSound, RowsSound

(* Every write to a claim row keeps its identity and its soundness. *)
LEMMA ClaimMoves == ASSUME IInv, [Next]_vars PROVE RowsStep
<1>1. /\ claims \in [ClaimIds -> ClaimRow] /\ RowsSound /\ ProcsSound /\ ScanSound
      /\ proc \in [Procs -> Proc]
  BY DEF IInv, TypeOK
<1>2. CASE UNCHANGED claims
  BY <1>1, <1>2 DEF RowsStep, RowKept, RowsSound
<1>3. ASSUME NEW s \in Slots, ClaimExpire(s) PROVE RowsStep
  BY <1>1, <1>3 DEF ClaimExpire, Expire, ClaimRow, ClaimStatus, RowsStep, RowKept, RowSound,
     RowsSound
<1>4. ASSUME NEW s \in Slots, ClaimInsert(s) PROVE RowsStep
  <2>1. proc[s].bounty \in Bounties /\ proc[s].hunter \in Hunters /\ status[proc[s].bounty] # "None"
    BY <1>1, <1>4 DEF ClaimInsert, At, ProcsSound, LocalsSound, ClaimPcs, Procs
  <2> DEFINE row == [NoClaim EXCEPT !.bounty = proc[s].bounty, !.hunter = proc[s].hunter,
                                    !.status = "active"]
  <2>2. row \in ClaimRow /\ RowSound(row)
    BY <2>1 DEF ClaimRow, ClaimStatus, NoClaim, RowSound
  <2> QED
    BY <1>1, <1>2, <1>4, <2>2 DEF ClaimInsert, RowsStep, RowKept, RowsSound
<1>5. ASSUME NEW s \in Slots, ClaimRollback(s) PROVE RowsStep
  <2>1. proc[s].row \in ClaimIds /\ claims[proc[s].row].status # "none"
    BY <1>1, <1>5 DEF ClaimRollback, At, ProcsSound, LocalsSound, Procs
  <2> QED
    BY <1>1, <1>5, <2>1 DEF ClaimRollback, ClaimRow, ClaimStatus, RowsStep, RowKept, RowSound,
       RowsSound
<1>6. ASSUME NEW s \in Slots, NEW b \in Bounties, NEW h \in Hunters, Unclaim(s, b, h)
      PROVE  RowsStep
  BY <1>1, <1>6 DEF Unclaim, Rows, ClaimRow, ClaimStatus, RowsStep, RowKept, RowSound, RowsSound
<1>7. ASSUME NEW s \in Slots, SubmitSave(s) PROVE RowsStep
  <2>1. proc[s].row \in ClaimIds /\ proc[s].pr \in PRs /\ claims[proc[s].row].status # "none"
    BY <1>1, <1>7 DEF SubmitSave, At, ProcsSound, LocalsSound, Procs
  <2> QED
    BY <1>1, <1>2, <1>7, <2>1 DEF SubmitSave, ClaimRow, ClaimStatus, RowsStep, RowKept,
       RowSound, RowsSound
<1>8. ASSUME NEW s \in Slots, SettleStamp(s) PROVE RowsStep
  <2> DEFINE stamped == [r \in ClaimIds |-> [claims[r] EXCEPT !.prCommitSha = proc[s].pr]]
  <2>1. proc[s].bounty \in Bounties /\ proc[s].pr \in PRs
    BY <1>1, <1>8 DEF SettleStamp, At, ProcsSound, LocalsSound, ReleasePcs, SettlePcs, Procs
  <2>2. /\ stamped \in [ClaimIds -> ClaimRow]
        /\ \A r \in ClaimIds :
             /\ stamped[r].bounty = claims[r].bounty /\ stamped[r].hunter = claims[r].hunter
             /\ stamped[r].status = claims[r].status
    BY <1>1, <2>1 DEF ClaimRow
  <2>3. UpdateSubmitted(proc[s].bounty, stamped) \/ UNCHANGED claims
    BY <1>8 DEF SettleStamp
  <2> QED
    BY <1>1, <1>2, <2>1, <2>2, <2>3, UpdateKeeps
<1>9. ASSUME NEW i \in Indexers, ReleasedClaim(i) PROVE RowsStep
  <2> DEFINE paid == [r \in ClaimIds |->
                        [claims[r] EXCEPT !.status = "paid", !.prCommitSha = Event(i).sha]]
  <2>1. scan[i].pos < scan[i].to /\ Event(i).kind = "BountyReleased"
    BY <1>1, <1>9 DEF ReleasedClaim, ScanSound, ReleasedPcs, At, Unread
  <2>2. Event(i).id \in Bounties /\ status[Event(i).id] = "Paid" /\ Event(i).sha \in PRs
    BY <2>1, EventIsTrue
  <2> DEFINE new(row) == [row EXCEPT !.status = "paid", !.prCommitSha = Event(i).sha]
  <2>3. ASSUME NEW row \in ClaimRow
        PROVE  /\ new(row) \in ClaimRow /\ new(row).status = "paid"
               /\ new(row).bounty = row.bounty /\ new(row).hunter = row.hunter
    BY <2>2, <2>3 DEF ClaimRow, ClaimStatus
  <2>4. /\ paid \in [ClaimIds -> ClaimRow]
        /\ \A r \in ClaimIds :
             /\ paid[r].bounty = claims[r].bounty /\ paid[r].hunter = claims[r].hunter
             /\ paid[r].status = "paid"
    <3>1. paid = [r \in ClaimIds |-> new(claims[r])]
      OBVIOUS
    <3> HIDE DEF new, paid
    <3> QED
      BY <1>1, <2>3, <3>1
  <2>5. UpdateSubmitted(Event(i).id, paid)
    BY <1>9 DEF ReleasedClaim
  <2> HIDE DEF paid
  <2> QED
    BY <1>1, <2>2, <2>4, <2>5, UpdateKeeps
<1>10. ASSUME Environment PROVE UNCHANGED claims
  BY <1>10 DEF Environment, MaintainerFunds, MaintainerRefunds, MineRelease, GithubMerges, Abort
<1>11. ASSUME NEW s \in Slots, BountyRequest(s) PROVE UNCHANGED claims
  BY <1>11 DEF BountyRequest, DepositRead, RefundRead, CancelRead, DepositSave, RefundSave,
     CancelSave
<1>12. ASSUME NEW s \in Slots, ClaimRequest(s) PROVE RowsStep
  BY <1>2, <1>3, <1>4, <1>5, <1>6, <1>7, <1>12 DEF ClaimRequest, ClaimRead, ClaimCheck,
     ClaimRecount, ClaimSave, UnclaimReopen, SubmitRead, SubmitMark
<1>13. ASSUME NEW s \in Slots, SettlementRequest(s) PROVE RowsStep
  BY <1>2, <1>8, <1>13 DEF SettlementRequest, WebhookSettles, WebhookIgnores, ManualRelease,
     SettleArm
<1>14. ASSUME NEW p \in Procs, ReleaseJob(p) PROVE UNCHANGED claims
  BY <1>14 DEF ReleaseJob, ReleaseSend, ReleaseDone, ReleaseFails
<1>15. ASSUME NEW i \in Indexers, Tick(i) \/ Reconcile(i) PROVE RowsStep
  BY <1>2, <1>9, <1>15 DEF Tick, TickStart, CreatedMirror, CreatedOpen, ReleasedBounty,
     ReleasedLedger, ReleasedAggregate, ReleasedCounters, RefundedBounty, Checkpoint,
     Reconcile, ReconcileList, ReconcileClaim, ReconcileArm
<1>16. CASE UNCHANGED vars
  BY <1>2, <1>16 DEF vars
<1> QED
  BY <1>2, <1>10, <1>11, <1>12, <1>13, <1>14, <1>15, <1>16 DEF Next

(* Row soundness survives the moves of the chain. *)
LEMMA RowsInvariant == ASSUME RowsStep, ChainGrows PROVE RowsSound'
  BY DEF RowsStep, RowsSound, RowSound, ChainGrows

-----------------------------------------------------------------------------
(* Merges, deliveries and broadcast transactions *)

WorldStep ==
  /\ merged \subseteq merged' /\ merged' \subseteq PRs
  /\ processed' \subseteq merged'
  /\ pool' \subseteq Tx

(* Deliveries are only marked for merged pull requests, and only typed       *)
(* transactions are broadcast.                                              *)
LEMMA WorldMoves == ASSUME IInv, [Next]_vars PROVE WorldStep
<1>1. /\ merged \subseteq PRs /\ processed \subseteq merged /\ pool \subseteq Tx
      /\ ProcsSound /\ proc \in [Procs -> Proc]
  BY DEF IInv, TypeOK
<1>2. CASE UNCHANGED <<merged, pool, processed>>
  BY <1>1, <1>2 DEF WorldStep
<1>3. ASSUME Environment PROVE WorldStep
  BY <1>1, <1>3 DEF Environment, MaintainerFunds, MaintainerRefunds, MineRelease, GithubMerges,
     Abort, WorldStep, world
<1>4. ASSUME NEW s \in Slots, BountyRequest(s) PROVE WorldStep
  BY <1>2, <1>4 DEF BountyRequest, DepositRead, RefundRead, CancelRead, DepositSave, RefundSave,
     CancelSave, world
<1>5. ASSUME NEW s \in Slots, ClaimRequest(s) PROVE WorldStep
  BY <1>2, <1>5 DEF ClaimRequest, ClaimRead, ClaimExpire, ClaimCheck, ClaimInsert, ClaimRecount,
     ClaimRollback, ClaimSave, Unclaim, UnclaimReopen, SubmitRead, SubmitSave, SubmitMark, world
<1>6. ASSUME NEW s \in Slots, SettlementRequest(s) PROVE WorldStep
  <2>1. MarkProcessed(s) => processed' \subseteq merged
    BY <1>1 DEF MarkProcessed, ProcsSound, LocalsSound, Procs
  <2> QED
    BY <1>1, <1>2, <1>6, <2>1 DEF SettlementRequest, WebhookSettles, WebhookIgnores,
       ManualRelease, SettleArm, SettleStamp, WorldStep, world
<1>7. ASSUME NEW p \in Procs, ReleaseJob(p) PROVE WorldStep
  <2>1. At(p, "release.send") =>
          proc[p].bounty \in Bounties /\ proc[p].hunter \in Hunters /\ proc[p].pr \in PRs
    BY <1>1 DEF At, ProcsSound, LocalsSound, ReleasePcs, SettlePcs
  <2> QED
    BY <1>1, <1>2, <1>7, <2>1 DEF ReleaseJob, ReleaseSend, ReleaseDone, ReleaseFails, WorldStep,
       Tx, world
<1>8. ASSUME NEW i \in Indexers, Tick(i) \/ Reconcile(i) PROVE WorldStep
  BY <1>2, <1>8 DEF Tick, TickStart, CreatedMirror, CreatedOpen, ReleasedBounty, ReleasedClaim,
     ReleasedLedger, ReleasedAggregate, ReleasedCounters, RefundedBounty, Checkpoint,
     Reconcile, ReconcileList, ReconcileClaim, ReconcileArm, world
<1>9. CASE UNCHANGED vars
  BY <1>2, <1>9 DEF vars, world
<1> QED
  BY <1>3, <1>4, <1>5, <1>6, <1>7, <1>8, <1>9 DEF Next

-----------------------------------------------------------------------------
(* The suspended handlers *)

ProcStep ==
  \/ UNCHANGED proc
  \/ \E p \in Procs, st \in Proc : LocalsSound(st)' /\ proc' = [proc EXCEPT ![p] = st]

(* Sound locals stay sound: a chain status, a row and a merge only advance. *)
LEMMA LocalsStaySound ==
  ASSUME ChainGrows, RowsStep, merged \subseteq merged', NEW st \in Proc, LocalsSound(st)
  PROVE  LocalsSound(st)'
  BY DEF ChainGrows, RowsStep, RowKept, LocalsSound

(* An idle process has nothing to justify. *)
LEMMA IdleSound == Idle \in Proc /\ LocalsSound(Idle)
  BY DEF Idle, Proc, Pcs, LocalsSound, ClaimPcs, SubmitPcs, ReleasePcs, SettlePcs, SavePcs

(* Nor has a reconciler between two bounties of its list. *)
LEMMA GoOnSound ==
  ASSUME NEW rest \in SUBSET Bounties PROVE GoOn(rest) \in Proc /\ LocalsSound(GoOn(rest))
<1>1. GoOn(rest) \in Proc
  BY DEF GoOn, Idle, Proc, Pcs, IndexerPcs
<1> QED
  BY <1>1 DEF GoOn, Idle, LocalsSound, ClaimPcs, SubmitPcs, ReleasePcs, SettlePcs, SavePcs

(* Where whoever awaited a release goes *)
LEMMA GoOnPc ==
  /\ \A rest : GoOn(rest).pc \in {"idle", "reconcile.claim"}
  /\ \A p \in Procs : proc \in [Procs -> Proc] /\ Resume(p) =>
       proc'[p].pc \in {"idle", "reconcile.claim"} /\ \A q \in Procs \ {p} : proc'[q] = proc[q]
<1>1. \A rest : GoOn(rest).pc \in {"idle", "reconcile.claim"}
  BY DEF GoOn, Idle
<1> HIDE DEF GoOn
<1> QED
  BY <1>1 DEF Resume

(* Every step that suspends a handler leaves it locals it may rely on. *)
LEMMA ProcMoves == ASSUME IInv, [Next]_vars PROVE ProcStep
<1>1. /\ proc \in [Procs -> Proc] /\ claims \in [ClaimIds -> ClaimRow]
      /\ lifecycleStatus \in [Bounties -> Lifecycle]
      /\ onChainStatus \in [Bounties -> Escrow!Statuses]
      /\ merged \subseteq PRs
      /\ ProcsSound /\ RowsSound /\ NeverAheadOfChain
  BY DEF IInv, TypeOK
<1> DEFINE Sets(p, st) == proc' = [proc EXCEPT ![p] = st]
<1>2. ASSUME NEW p \in Procs, NEW st \in Proc, LocalsSound(st), Sets(p, st) PROVE ProcStep
  <2>1. LocalsSound(st)'
    BY <1>2, LocalsStaySound, ChainInvariant, ClaimMoves, WorldMoves DEF IInv, WorldStep
  <2> QED
    BY <1>2, <2>1 DEF ProcStep
<1>3. CASE UNCHANGED proc
  BY <1>3 DEF ProcStep
<1>4. ASSUME NEW p \in Procs, Finish(p) PROVE ProcStep
  BY <1>2, <1>4, IdleSound DEF Finish
<1> DEFINE Moved(p, pc) == [proc[p] EXCEPT !.pc = pc]
<1>5. ASSUME NEW p \in Procs, NEW pc \in Pcs, LocalsSound(Moved(p, pc)), GoTo(p, pc) PROVE ProcStep
  <2>1. Moved(p, pc) \in Proc
    BY <1>1 DEF Proc
  <2>2. Sets(p, Moved(p, pc))
    BY <1>1, <1>5 DEF GoTo
  <2> QED
    BY <1>2, <1>5, <2>1, <2>2
<1>5a. ASSUME NEW p \in Procs, Resume(p) PROVE ProcStep
  <2>1. proc[p].list \in SUBSET Bounties
    BY <1>1 DEF Proc
  <2> QED
    BY <1>2, <1>5a, <2>1, GoOnSound DEF Resume
<1> HIDE DEF Sets
<1>6. ASSUME NEW p \in Procs, NEW st \in Proc, LocalsSound(st), Begin(p, st) PROVE ProcStep
  BY <1>2, <1>6 DEF Begin, Sets
<1>7. ASSUME Environment PROVE ProcStep
  BY <1>3, <1>4, <1>7 DEF Environment, MaintainerFunds, MaintainerRefunds, MineRelease,
     GithubMerges, Abort
<1>8. ASSUME NEW s \in Slots, BountyRequest(s) PROVE ProcStep
  <2>1. ASSUME NEW b \in Bounties, NEW pc \in SavePcs
        PROVE  Loaded(b, pc) \in Proc /\ LocalsSound(Loaded(b, pc))
    BY <1>1, <2>1 DEF Loaded, SavePcs, Idle, Proc, Pcs, RequestPcs, LocalsSound, ClaimPcs,
       SubmitPcs, ReleasePcs, SettlePcs
  <2>2. {"deposit.save", "refund.save", "cancel.save"} \subseteq SavePcs
    BY DEF SavePcs
  <2> QED
    BY <1>4, <1>6, <1>8, <2>1, <2>2 DEF BountyRequest, DepositRead, RefundRead, CancelRead,
       DepositSave, RefundSave, CancelSave, Procs
<1>9. ASSUME NEW s \in Slots, ClaimRequest(s) PROVE ProcStep
  <2> s \in Procs
    BY DEF Procs
  <2>1. ASSUME NEW b \in Bounties, NEW h \in Hunters, ClaimRead(s, b, h) PROVE ProcStep
    <3> DEFINE st == [Idle EXCEPT !.pc = "claim.expire", !.bounty = b, !.hunter = h,
                                  !.life = lifecycleStatus[b]]
    <3>1. st \in Proc
      BY <1>1 DEF Idle, Proc, Pcs, RequestPcs
    <3>2. status[b] # "None"
      BY <1>1, <2>1 DEF ClaimRead, NotClaimable, NeverAheadOfChain, Board, Shown
    <3>3. LocalsSound(st)
      BY <3>2 DEF Idle, LocalsSound, ClaimPcs, SubmitPcs, ReleasePcs, SettlePcs, SavePcs
    <3>4. Begin(s, st)
      BY <2>1 DEF ClaimRead
    <3> QED
      BY <1>6, <3>1, <3>3, <3>4
  <2>2. ASSUME NEW b \in Bounties, NEW h \in Hunters, Unclaim(s, b, h) PROVE ProcStep
    <3> DEFINE st == [Idle EXCEPT !.pc = "unclaim.reopen", !.bounty = b]
    <3>1. st \in Proc
      BY DEF Idle, Proc, Pcs, RequestPcs
    <3>2. status[b] # "None"
      BY <1>1, <2>2 DEF Unclaim, Rows, RowsSound, RowSound
    <3>3. LocalsSound(st)
      BY <3>2 DEF Idle, LocalsSound, ClaimPcs, SubmitPcs, ReleasePcs, SettlePcs, SavePcs
    <3>4. Begin(s, st)
      BY <2>2 DEF Unclaim
    <3> QED
      BY <1>6, <3>1, <3>3, <3>4
  <2>3. ASSUME NEW b \in Bounties, NEW h \in Hunters, NEW pr \in PRs, SubmitRead(s, b, h, pr)
        PROVE  ProcStep
    <3>1. PICK r \in Rows(b, "active") \cap ActiveOf(h) :
            Begin(s, [Idle EXCEPT !.pc = "submit.save", !.bounty = b, !.row = r, !.pr = pr])
      BY <2>3 DEF SubmitRead
    <3> DEFINE st == [Idle EXCEPT !.pc = "submit.save", !.bounty = b, !.row = r, !.pr = pr]
    <3>2. /\ r \in ClaimIds /\ claims[r].bounty = b /\ claims[r].status = "active"
          /\ status[b] # "None"
      BY <1>1 DEF Rows, RowsSound, RowSound
    <3>3. st \in Proc
      BY <3>2 DEF Idle, Proc, Pcs, RequestPcs
    <3>4. LocalsSound(st)
      BY <3>2 DEF Idle, LocalsSound, ClaimPcs, SubmitPcs, ReleasePcs, SettlePcs, SavePcs
    <3> QED
      BY <1>6, <3>1, <3>3, <3>4
  <2>4. ASSUME NEW pc \in ClaimPcs, proc[s].pc \in ClaimPcs,
               pc \in {"claim.recount", "claim.rollback"} =>
                 proc[s].pc \in {"claim.recount", "claim.rollback"},
               GoTo(s, pc)
        PROVE  ProcStep
    <3>1. LocalsSound(Moved(s, pc))
      BY <1>1, <2>4 DEF Moved, Proc, ProcsSound, LocalsSound, ClaimPcs, SubmitPcs, ReleasePcs,
         SettlePcs, SavePcs
    <3>2. pc \in Pcs
      BY DEF ClaimPcs, Pcs, RequestPcs
    <3> QED
      BY <1>5, <2>4, <3>1, <3>2
  <2>5. ASSUME ClaimExpire(s) \/ ClaimCheck(s) \/ ClaimRecount(s) PROVE ProcStep
    BY <1>4, <2>4, <2>5 DEF ClaimExpire, ClaimCheck, ClaimRecount, At, ClaimPcs
  <2>6. ASSUME ClaimInsert(s) PROVE ProcStep
    <3>1. CASE Finish(s)
      BY <1>4, <3>1
    <3>2. ASSUME NEW r \in ClaimIds,
                 claims' = [claims EXCEPT ![r] =
                   [NoClaim EXCEPT !.bounty = proc[s].bounty, !.hunter = proc[s].hunter,
                                   !.status = "active"]],
                 proc' = [proc EXCEPT ![s].pc = "claim.recount", ![s].row = r]
          PROVE  ProcStep
      <4>1. PICK old \in Proc : old = proc[s] /\ LocalsSound(old) /\ old.pc = "claim.insert"
        BY <1>1, <2>6 DEF ClaimInsert, At, ProcsSound
      <4>2. claims'[r].status = "active"
        BY <1>1, <3>2 DEF NoClaim
      <4>3. LocalsSound(old)'
        BY <4>1, LocalsStaySound, ChainInvariant, ClaimMoves, WorldMoves DEF IInv, WorldStep
      <4>4. PICK st \in Proc : st = [old EXCEPT !.pc = "claim.recount", !.row = r]
        BY DEF Proc, Pcs, RequestPcs
      <4>5. LocalsSound(st)'
        BY <4>1, <4>2, <4>3, <4>4 DEF Proc, LocalsSound, ClaimPcs, SubmitPcs, ReleasePcs,
           SettlePcs, SavePcs
      <4>6. proc' = [proc EXCEPT ![s] = st]
        BY <1>1, <3>2, <4>1, <4>4
      <4> QED
        BY <4>5, <4>6 DEF ProcStep
    <3> QED
      BY <2>6, <3>1, <3>2 DEF ClaimInsert
  <2>7. ASSUME SubmitSave(s) PROVE ProcStep
    <3> DEFINE st == [Idle EXCEPT !.pc = "submit.mark", !.bounty = proc[s].bounty]
    <3>1. proc[s].bounty \in Bounties /\ status[proc[s].bounty] # "None"
      BY <1>1, <2>7 DEF SubmitSave, At, ProcsSound, LocalsSound, SubmitPcs
    <3>2. st \in Proc
      BY <3>1 DEF Idle, Proc, Pcs, RequestPcs
    <3>3. LocalsSound(st)
      BY <3>1 DEF Idle, LocalsSound, ClaimPcs, SubmitPcs, ReleasePcs, SettlePcs, SavePcs
    <3>4. Finish(s) \/ Sets(s, st)
      BY <2>7 DEF SubmitSave, Sets
    <3> QED
      BY <1>2, <1>4, <3>2, <3>3, <3>4
  <2> QED
    BY <1>4, <1>9, <2>1, <2>2, <2>3, <2>5, <2>6, <2>7 DEF ClaimRequest, ClaimRollback,
       ClaimSave, UnclaimReopen, SubmitMark
<1>10. ASSUME NEW s \in Slots, SettlementRequest(s) PROVE ProcStep
  <2> s \in Procs
    BY DEF Procs
  <2>1. ASSUME NEW r \in ClaimIds, claims[r].status = "submitted", NEW pr \in merged,
               NEW hook \in BOOLEAN, Begin(s, Settling(r, pr, hook))
        PROVE  ProcStep
    <3>1. claims[r].bounty \in Bounties /\ claims[r].hunter \in Hunters
          /\ status[claims[r].bounty] # "None"
      BY <1>1, <2>1 DEF RowsSound, RowSound
    <3>2. Settling(r, pr, hook) \in Proc
      BY <1>1, <3>1 DEF Settling, Idle, Proc, Pcs, SettlePcs
    <3>3. LocalsSound(Settling(r, pr, hook))
      BY <1>1, <3>1 DEF Settling, Idle, LocalsSound, ClaimPcs, SubmitPcs, ReleasePcs, SettlePcs,
         SavePcs
    <3> QED
      BY <1>6, <2>1, <3>2, <3>3
  <2>2. ASSUME NEW pr \in PRs, WebhookSettles(s, pr) PROVE ProcStep
    BY <2>1, <2>2 DEF WebhookSettles, Submitted
  <2>3. ASSUME NEW b \in Bounties, ManualRelease(s, b) PROVE ProcStep
    BY <2>1, <2>3 DEF ManualRelease, Rows
  <2>4. ASSUME SettleArm(s) PROVE ProcStep
    <3>1. At(s, "settle.arm") => LocalsSound(Moved(s, "settle.stamp"))
      BY <1>1 DEF At, Moved, Proc, ProcsSound, LocalsSound, ClaimPcs, SubmitPcs, ReleasePcs,
         SettlePcs, SavePcs
    <3>2. "settle.stamp" \in Pcs
      BY DEF Pcs, SettlePcs
    <3> QED
      BY <1>4, <1>5, <2>4, <3>1, <3>2 DEF SettleArm
  <2>5. ASSUME SettleStamp(s) PROVE ProcStep
    <3> DEFINE st == [proc[s] EXCEPT !.pc = "release.send", !.hook = FALSE]
    <3>1. proc[s].pc = "settle.stamp"
      BY <2>5 DEF SettleStamp, At
    <3>2. st \in Proc
      BY <1>1 DEF Proc, Pcs, SettlePcs
    <3>3. LocalsSound(st)
      BY <1>1, <3>1 DEF Proc, ProcsSound, LocalsSound, ClaimPcs, SubmitPcs, ReleasePcs,
         SettlePcs, SavePcs
    <3>4. Sets(s, st) \/ Finish(s)
      BY <1>1, <2>5 DEF SettleStamp, Sets
    <3> QED
      BY <1>2, <1>4, <3>2, <3>3, <3>4
  <2> QED
    BY <1>3, <1>10, <2>2, <2>3, <2>4, <2>5 DEF SettlementRequest, WebhookIgnores
<1>11. ASSUME NEW p \in Procs, proc[p].pc \in ReleasePcs, NEW pc \in SettlePcs, GoTo(p, pc)
       PROVE  ProcStep
  <2>1. LocalsSound(Moved(p, pc))
    BY <1>1, <1>11 DEF Moved, Proc, ProcsSound, LocalsSound, ClaimPcs, SubmitPcs, ReleasePcs,
       SettlePcs, SavePcs
  <2>2. pc \in Pcs
    BY DEF Pcs
  <2> QED
    BY <1>5, <1>11, <2>1, <2>2
<1>12. ASSUME NEW p \in Procs, ReleaseJob(p) PROVE ProcStep
  BY <1>11, <1>12, <1>5a DEF ReleaseJob, ReleaseSend, ReleaseDone, ReleaseFails, At, ReleasePcs,
     SettlePcs
<1>13. ASSUME NEW i \in Indexers, Reconcile(i) PROVE ProcStep
  <2> i \in Procs
    BY DEF Procs
  <2>1. ASSUME ReconcileList(i) PROVE ProcStep
    <3>1. Listed \in SUBSET Bounties
      BY DEF Listed, Stuck
    <3> QED
      BY <1>6, <2>1, <3>1, GoOnSound DEF ReconcileList
  <2>2. ASSUME ReconcileClaim(i) PROVE ProcStep
    <3>1. proc[i].list \in SUBSET Bounties
      BY <1>1 DEF Proc
    <3>2. PICK b \in proc[i].list :
            \/ \E r \in Rows(b, "submitted") :
                 /\ claims[r].prCommitSha # Nil
                 /\ Sets(i, Retrying(r, proc[i].list \ {b}))
            \/ Sets(i, GoOn(proc[i].list \ {b}))
      BY <2>2 DEF ReconcileClaim, Sets
    <3> DEFINE rest == proc[i].list \ {b}
    <3>3. rest \in SUBSET Bounties
      BY <3>1
    <3>4. ASSUME NEW r \in Rows(b, "submitted"), claims[r].prCommitSha # Nil,
                 Sets(i, Retrying(r, rest))
          PROVE  ProcStep
      <4>1. /\ claims[r].bounty \in Bounties /\ status[claims[r].bounty] # "None"
            /\ claims[r].hunter \in Hunters /\ claims[r].prCommitSha \in PRs
        BY <1>1, <3>4 DEF Rows, RowsSound, RowSound, ClaimRow
      <4>2. Retrying(r, rest) \in Proc
        BY <3>3, <4>1 DEF Retrying, Idle, Proc, Pcs, IndexerPcs
      <4>3. LocalsSound(Retrying(r, rest))
        BY <4>1 DEF Retrying, Idle, LocalsSound, ClaimPcs, SubmitPcs, ReleasePcs, SettlePcs,
           SavePcs
      <4> QED
        BY <1>2, <3>4, <4>2, <4>3
    <3> QED
      BY <1>2, <3>2, <3>3, <3>4, GoOnSound
  <2>3. ASSUME ReconcileArm(i) PROVE ProcStep
    BY <1>11, <1>5a, <2>3 DEF ReconcileArm, At, ReleasePcs, SettlePcs
  <2> QED
    BY <1>13, <2>1, <2>2, <2>3 DEF Reconcile
<1>14. ASSUME NEW i \in Indexers, Tick(i) PROVE ProcStep
  <2> i \in Procs
    BY DEF Procs
  <2> DEFINE TickPcs == {"scan", "created.open"} \cup ReleasedPcs
  <2>1. ASSUME NEW pc \in TickPcs, GoTo(i, pc) PROVE ProcStep
    <3>1. LocalsSound(Moved(i, pc))
      BY <1>1, <2>1 DEF Moved, Proc, ProcsSound, LocalsSound, ClaimPcs, SubmitPcs, ReleasePcs,
         SettlePcs, SavePcs, ReleasedPcs
    <3>2. pc \in Pcs
      BY <2>1 DEF Pcs, IndexerPcs, ReleasedPcs
    <3> QED
      BY <1>5, <2>1, <3>1, <3>2
  <2>2. ASSUME NEW to, TickStart(i, to) PROVE ProcStep
    <3>1. [Idle EXCEPT !.pc = "scan"] \in Proc
      BY DEF Idle, Proc, Pcs, IndexerPcs
    <3>2. LocalsSound([Idle EXCEPT !.pc = "scan"])
      BY DEF Idle, LocalsSound, ClaimPcs, SubmitPcs, ReleasePcs, SettlePcs, SavePcs
    <3> QED
      BY <1>6, <2>2, <3>1, <3>2 DEF TickStart
  <2>3. {"scan", "created.open", "released.claim", "released.ledger", "released.aggregate",
         "released.counters"} \subseteq TickPcs
    BY DEF ReleasedPcs
  <2> HIDE DEF TickPcs
  <2> QED
    BY <1>4, <1>14, <2>1, <2>2, <2>3 DEF Tick, CreatedMirror, CreatedOpen, ReleasedBounty,
       ReleasedClaim, ReleasedLedger, ReleasedAggregate, ReleasedCounters, RefundedBounty,
       Checkpoint, Advance
<1>15. CASE UNCHANGED vars
  BY <1>3, <1>15 DEF vars
<1> QED
  BY <1>7, <1>8, <1>9, <1>10, <1>12, <1>13, <1>14, <1>15 DEF Next

(* All suspended handlers keep sound locals, those that moved and those that *)
(* others ran past.                                                         *)
LEMMA ProcsInvariant ==
  ASSUME IInv, [Next]_vars PROVE proc' \in [Procs -> Proc] /\ ProcsSound'
<1>1. proc \in [Procs -> Proc] /\ ProcsSound
  BY DEF IInv, TypeOK
<1>2. ProcStep
  BY ProcMoves
<1>3. ASSUME NEW p \in Procs PROVE proc'[p] \in Proc /\ LocalsSound(proc[p])'
  <2>1. PICK old \in Proc : old = proc[p] /\ LocalsSound(old)
    BY <1>1 DEF ProcsSound
  <2>2. LocalsSound(old)'
    BY <2>1, LocalsStaySound, ChainInvariant, ClaimMoves, WorldMoves DEF IInv, WorldStep
  <2>3. CASE proc'[p] = old
    BY <2>2, <2>3
  <2>4. ASSUME NEW st \in Proc, LocalsSound(st)', proc'[p] = st
        PROVE  proc'[p] \in Proc /\ LocalsSound(proc[p])'
    BY <2>4
  <2> QED
    BY <1>1, <1>2, <2>1, <2>3, <2>4 DEF ProcStep
<1>4. proc' \in [Procs -> Proc]
  BY <1>1, <1>2 DEF ProcStep
<1> QED
  BY <1>3, <1>4 DEF ProcsSound

-----------------------------------------------------------------------------
(* The indexers *)

ScanMove ==
  \/ UNCHANGED scan
  \/ \E i \in Indexers, v \in ScanRange :
       v.pos <= v.to /\ v.to <= Len(log) /\ scan' = [scan EXCEPT ![i] = v]

LedgerMove ==
  \/ UNCHANGED ledger
  \/ \E pos \in 1 .. Len(log) :
       ledger' = Append(ledger, pos) /\ ~ Entered(pos) /\ log[pos].kind = "BountyReleased"

CountMove ==
  \/ UNCHANGED payoutCount
  \/ \E i \in Indexers :
       /\ At(i, "released.counters")
       /\ payoutCount' = [payoutCount EXCEPT ![Event(i).to] = scan[i].count]

IndexStep ==
  ScanMove /\ LedgerMove /\ CountMove /\ lastBlock' \in 0 .. Len(log)

(* A hunter's payouts in the ledger can be counted. *)
LEMMA EarnedFinite ==
  ASSUME TypeOK, NEW h PROVE IsFiniteSet(Earned(h)) /\ Cardinality(Earned(h)) \in Nat
<1>1. Len(ledger) \in Nat
  BY LenProperties DEF TypeOK
<1>2. IsFiniteSet(1 .. Len(ledger))
  BY <1>1, FS_Interval
<1>3. Earned(h) \subseteq 1 .. Len(ledger)
  BY DEF Earned
<1> QED
  BY <1>2, <1>3, FS_Subset, FS_CardinalityType

(* Every step moves a cursor within the log, appends an unentered payout to  *)
(* the ledger, or writes a recompute's count.                               *)
LEMMA IndexMoves == ASSUME IInv, [Next]_vars PROVE IndexStep
<1>1. /\ scan \in [Indexers -> ScanRange] /\ lastBlock \in 0 .. Len(log) /\ Len(log) \in Nat
      /\ \A i \in Indexers : scan[i].pos <= scan[i].to /\ scan[i].to <= Len(log)
      /\ ScanSound
  BY LenProperties DEF IInv, TypeOK
<1>2. CASE UNCHANGED index
  BY <1>1, <1>2 DEF index, IndexStep, ScanMove, LedgerMove, CountMove
<1>3. NoRange \in ScanRange /\ NoRange.pos <= NoRange.to /\ NoRange.to <= Len(log)
  BY <1>1 DEF NoRange, ScanRange
<1>4. ASSUME Environment PROVE IndexStep
  <2>1. ASSUME NEW p \in Procs, Abort(p) PROVE IndexStep
    BY <1>1, <1>3, <2>1 DEF Abort, IndexStep, ScanMove, LedgerMove, CountMove
  <2> QED
    BY <1>2, <1>4, <2>1 DEF Environment, MaintainerFunds, MaintainerRefunds, MineRelease,
       GithubMerges
<1>5. ASSUME NEW s \in Slots, BountyRequest(s) PROVE UNCHANGED index
  BY <1>5 DEF BountyRequest, DepositRead, RefundRead, CancelRead, DepositSave, RefundSave,
     CancelSave
<1>6. ASSUME NEW s \in Slots, ClaimRequest(s) PROVE UNCHANGED index
  BY <1>6 DEF ClaimRequest, ClaimRead, ClaimExpire, ClaimCheck, ClaimInsert, ClaimRecount,
     ClaimRollback, ClaimSave, Unclaim, UnclaimReopen, SubmitRead, SubmitSave, SubmitMark
<1>7. ASSUME NEW s \in Slots, SettlementRequest(s) PROVE UNCHANGED index
  BY <1>7 DEF SettlementRequest, WebhookSettles, WebhookIgnores, ManualRelease, SettleArm,
     SettleStamp
<1>8. ASSUME NEW p \in Procs, ReleaseJob(p) PROVE UNCHANGED index
  BY <1>8 DEF ReleaseJob, ReleaseSend, ReleaseDone, ReleaseFails
<1>9. ASSUME NEW i \in Indexers, Reconcile(i) PROVE UNCHANGED index
  BY <1>9 DEF Reconcile, ReconcileList, ReconcileClaim, ReconcileArm
<1>10. ASSUME NEW i \in Indexers, Tick(i) PROVE IndexStep
  <2>1. ASSUME NEW v \in ScanRange, v.pos <= v.to, v.to <= Len(log),
               scan' = [scan EXCEPT ![i] = v]
        PROVE  ScanMove
    BY <2>1 DEF ScanMove
  <2>2. ASSUME Advance(i), scan[i].pos < scan[i].to PROVE ScanMove
    <3>1. ASSUME NEW n \in Nat, NEW r \in ScanRange
          PROVE  LET v == [r EXCEPT !.pos = n, !.count = 0] IN
                 v \in ScanRange /\ v.pos = n /\ v.to = r.to
      BY <3>1 DEF ScanRange
    <3>2. PICK r \in ScanRange, n \in Nat : r = scan[i] /\ n = r.pos + 1
      BY <1>1 DEF ScanRange
    <3> DEFINE v == [r EXCEPT !.pos = n, !.count = 0]
    <3>3. scan' = [scan EXCEPT ![i] = v]
      BY <1>1, <2>2, <3>2 DEF Advance
    <3>4. v \in ScanRange /\ v.pos = n /\ v.to = r.to
      BY <3>1
    <3>5. v.pos <= v.to /\ v.to <= Len(log)
      <4> HIDE DEF v
      <4> QED
        BY <1>1, <2>2, <3>2, <3>4 DEF ScanRange
    <3> HIDE DEF v
    <3> QED
      BY <2>1, <3>3, <3>4, <3>5
  <2>3. proc[i].pc \in {"created.open"} \cup ReleasedPcs => scan[i].pos < scan[i].to
    BY <1>1 DEF ScanSound, Unread, At
  <2>4. ASSUME NEW to \in lastBlock + 1 .. Len(log), TickStart(i, to) PROVE IndexStep
    <3> DEFINE v == [NoRange EXCEPT !.pos = lastBlock, !.to = to]
    <3>1. v \in ScanRange /\ v.pos = lastBlock /\ v.to = to
      <4>1. lastBlock \in Nat /\ to \in Nat
        BY <1>1
      <4> QED
        BY <4>1 DEF ScanRange, NoRange
    <3>2. scan' = [scan EXCEPT ![i] = v] /\ lastBlock <= to /\ to <= Len(log)
      BY <1>1, <2>4 DEF TickStart
    <3> HIDE DEF v
    <3>3. ScanMove
      BY <2>1, <3>1, <3>2
    <3> QED
      BY <1>1, <2>4, <3>3 DEF TickStart, IndexStep, LedgerMove, CountMove
  <2>5. ASSUME CreatedOpen(i) \/ RefundedBounty(i) PROVE IndexStep
    BY <1>1, <2>2, <2>3, <2>5 DEF CreatedOpen, RefundedBounty, Handles, At, IndexStep, LedgerMove,
       CountMove
  <2>6. ASSUME ReleasedLedger(i) PROVE IndexStep
    <3>1. Unread(i, "BountyReleased")
      BY <1>1, <2>6 DEF ReleasedLedger, ScanSound, ReleasedPcs, At
    <3>2. scan[i].pos + 1 \in 1 .. Len(log) /\ log[scan[i].pos + 1].kind = "BountyReleased"
      BY <1>1, <3>1 DEF Unread, Event, ScanRange
    <3>3. LedgerMove
      BY <2>6, <3>2 DEF ReleasedLedger, LedgerMove
    <3>4. ScanMove
      BY <2>2, <2>6, <3>1 DEF ReleasedLedger, ScanMove, Unread
    <3> QED
      BY <1>1, <2>6, <3>3, <3>4 DEF ReleasedLedger, IndexStep, CountMove
  <2>7. ASSUME ReleasedAggregate(i) PROVE IndexStep
    <3>1. Cardinality(Earned(Event(i).to)) \in Nat
      BY EarnedFinite DEF IInv
    <3> DEFINE v == [scan[i] EXCEPT !.count = Cardinality(Earned(Event(i).to))]
    <3>2. v \in ScanRange /\ v.pos <= v.to /\ v.to <= Len(log)
      BY <1>1, <3>1 DEF ScanRange
    <3>3. scan' = [scan EXCEPT ![i] = v]
      BY <1>1, <2>7 DEF ReleasedAggregate
    <3>4. ScanMove
      BY <2>1, <3>2, <3>3
    <3> QED
      BY <1>1, <2>7, <3>4 DEF ReleasedAggregate, IndexStep, LedgerMove, CountMove
  <2>8. ASSUME ReleasedCounters(i) PROVE IndexStep
    BY <1>1, <2>2, <2>3, <2>8 DEF ReleasedCounters, ReleasedPcs, At, IndexStep, LedgerMove,
       CountMove
  <2>9. ASSUME Checkpoint(i) PROVE IndexStep
    <3>1. ScanMove
      BY <1>3, <2>1, <2>9 DEF Checkpoint
    <3>2. lastBlock' \in 0 .. Len(log)
      BY <1>1, <2>9 DEF Checkpoint, ScanRange
    <3> QED
      BY <2>9, <3>1, <3>2 DEF Checkpoint, IndexStep, LedgerMove, CountMove
  <2> QED
    BY <1>2, <1>10, <2>4, <2>5, <2>6, <2>7, <2>8, <2>9 DEF Tick, CreatedMirror, ReleasedBounty,
       ReleasedClaim
<1>11. CASE UNCHANGED vars
  BY <1>2, <1>11 DEF vars
<1> QED
  BY <1>2, <1>4, <1>5, <1>6, <1>7, <1>8, <1>9, <1>10, <1>11 DEF Next

(* The types of the indexers' state *)
IndexOK ==
  /\ scan \in [Indexers -> ScanRange]
  /\ \A i \in Indexers : scan[i].pos <= scan[i].to /\ scan[i].to <= Len(log)
  /\ lastBlock \in 0 .. Len(log)
  /\ ledger \in Seq(1 .. Len(log))
  /\ payoutCount \in [Hunters -> Nat]

(* Such moves keep the indexers' types. *)
LEMMA IndexTypes == ASSUME IInv, IndexStep, ChainGrows, log' \in Seq(Escrow!Event) PROVE IndexOK'
<1>1. /\ IndexOK /\ Len(log) \in Nat
  BY LenProperties DEF IInv, TypeOK, IndexOK
<1>2. Len(log') \in Nat /\ Len(log) <= Len(log')
  BY LenProperties DEF ChainGrows
<1>3. ledger' \in Seq(1 .. Len(log))
  <2>1. ASSUME NEW pos \in 1 .. Len(log), ledger' = Append(ledger, pos)
        PROVE  ledger' \in Seq(1 .. Len(log))
    BY <1>1, <2>1, AppendProperties DEF IndexOK
  <2> QED
    BY <1>1, <2>1 DEF IndexOK, IndexStep, LedgerMove
<1>4. ledger' \in Seq(1 .. Len(log'))
  BY <1>1, <1>2, <1>3, SeqMonotonic
<1>5. /\ scan' \in [Indexers -> ScanRange]
      /\ \A i \in Indexers : scan'[i].pos <= scan'[i].to /\ scan'[i].to <= Len(log)
  BY <1>1 DEF IndexOK, IndexStep, ScanMove
<1>6. \A i \in Indexers : scan'[i].to \in Nat
  BY <1>5 DEF ScanRange
<1>7. payoutCount' \in [Hunters -> Nat]
  BY <1>1 DEF IndexOK, IndexStep, CountMove, ScanRange
<1>8. lastBlock' \in 0 .. Len(log')
  BY <1>1, <1>2 DEF IndexStep
<1> QED
  BY <1>1, <1>2, <1>4, <1>5, <1>6, <1>7, <1>8 DEF IndexOK

(* A step other than an indexer's own tick leaves its cursor alone, or       *)
(* resets it while its process moves to where no event is being handled;    *)
(* and only a crash takes it out of a handler.                              *)
Untouched(i) == proc'[i] = proc[i] /\ scan'[i] = scan[i]

Leaves(i) ==
  /\ ~ At(i, "scan")' /\ ~ At(i, "created.open")' /\ proc'[i].pc \notin ReleasedPcs
  /\ scan'[i] \in {scan[i], NoRange}
  /\ Abort(i) \/ proc[i].pc \notin ReleasedPcs

LEMMA IndexerFrame ==
  ASSUME IInv, [Next]_vars, NEW i \in Indexers PROVE Untouched(i) \/ Leaves(i) \/ Tick(i)
<1>1. /\ proc \in [Procs -> Proc] /\ scan \in [Indexers -> ScanRange]
      /\ i \in Procs /\ i \notin Slots
  BY StoreAssumption DEF IInv, TypeOK, Procs
<1>2. ASSUME NEW pc \in {"idle", "release.wait", "release.send", "reconcile.claim",
                         "reconcile.arm"},
             proc'[i].pc = pc, scan'[i] \in {scan[i], NoRange},
             Abort(i) \/ proc[i].pc \notin ReleasedPcs
      PROVE  Leaves(i)
  BY <1>2 DEF Leaves, At, ReleasedPcs
<1>3. ASSUME Environment PROVE Untouched(i) \/ Leaves(i)
  <2>1. ASSUME NEW p \in Procs, Abort(p) PROVE Untouched(i) \/ Leaves(i)
    BY <1>1, <1>2, <2>1 DEF Abort, Finish, Idle, Untouched
  <2> QED
    BY <1>3, <2>1 DEF Environment, MaintainerFunds, MaintainerRefunds, MineRelease,
       GithubMerges, index, Untouched
<1>4. ASSUME NEW s \in Slots, BountyRequest(s) PROVE Untouched(i)
  BY <1>1, <1>4 DEF BountyRequest, DepositRead, RefundRead, CancelRead, DepositSave, RefundSave,
     CancelSave, Begin, Finish, index, Untouched
<1>5. ASSUME NEW s \in Slots, ClaimRequest(s) PROVE Untouched(i)
  BY <1>1, <1>5 DEF ClaimRequest, ClaimRead, ClaimExpire, ClaimCheck, ClaimInsert, ClaimRecount,
     ClaimRollback, ClaimSave, Unclaim, UnclaimReopen, SubmitRead, SubmitSave, SubmitMark,
     Begin, Finish, GoTo, index, Untouched
<1>6. ASSUME NEW s \in Slots, SettlementRequest(s) PROVE Untouched(i)
  BY <1>1, <1>6 DEF SettlementRequest, WebhookSettles, WebhookIgnores, ManualRelease, SettleArm,
     SettleStamp, Begin, Finish, GoTo, index, Untouched
<1>7. ASSUME NEW p \in Procs, ReleaseJob(p) PROVE Untouched(i) \/ Leaves(i)
  <2>1. CASE p = i
    <3>1. proc'[i].pc \in {"idle", "release.wait", "reconcile.claim"} /\ scan' = scan
      BY <1>1, <1>7, <2>1, GoOnPc DEF ReleaseJob, ReleaseSend, ReleaseDone, ReleaseFails, GoTo,
         Proc, index
    <3>2. proc[i].pc \notin ReleasedPcs
      BY <1>7, <2>1 DEF ReleaseJob, ReleaseSend, ReleaseDone, ReleaseFails, SendFails, At,
         ReleasedPcs
    <3> QED
      BY <1>2, <3>1, <3>2
  <2>2. CASE p # i
    BY <1>1, <1>7, <2>2 DEF ReleaseJob, ReleaseSend, ReleaseDone, ReleaseFails, Resume,
       GoTo, index, Untouched
  <2> QED
    BY <2>1, <2>2
<1>8. ASSUME NEW j \in Indexers, Tick(j) \/ Reconcile(j), j # i PROVE Untouched(i)
  BY <1>1, <1>8 DEF Tick, TickStart, CreatedMirror, CreatedOpen, ReleasedBounty, ReleasedClaim,
     ReleasedLedger, ReleasedAggregate, ReleasedCounters, RefundedBounty, Checkpoint,
     Reconcile, ReconcileList, ReconcileClaim, ReconcileArm, Resume, Advance, Begin, Finish,
     GoTo, index, Untouched
<1>9. ASSUME Reconcile(i) PROVE Leaves(i)
  <2>1. ASSUME ReconcileList(i)
        PROVE  proc'[i].pc \in {"idle", "reconcile.claim"} /\ scan' = scan
    BY <1>1, <2>1, GoOnPc DEF ReconcileList, Begin, index
  <2>2. ASSUME ReconcileClaim(i)
        PROVE  proc'[i].pc \in {"idle", "reconcile.claim", "reconcile.arm"} /\ scan' = scan
    <3>1. PICK rest : \/ proc' = [proc EXCEPT ![i] = GoOn(rest)]
                      \/ \E r : proc' = [proc EXCEPT ![i] = Retrying(r, rest)]
      BY <2>2 DEF ReconcileClaim
    <3>2. \A r : Retrying(r, rest).pc = "reconcile.arm"
      BY DEF Retrying, Idle
    <3>3. scan' = scan
      BY <2>2 DEF ReconcileClaim, index
    <3> QED
      BY <1>1, <3>1, <3>2, <3>3, GoOnPc
  <2>3. ASSUME ReconcileArm(i)
        PROVE  proc'[i].pc \in {"release.send", "idle", "reconcile.claim"} /\ scan' = scan
    BY <1>1, <2>3, GoOnPc DEF ReconcileArm, GoTo, Proc, index
  <2>4. proc[i].pc \notin ReleasedPcs
    BY <1>9 DEF Reconcile, ReconcileList, ReconcileClaim, ReconcileArm, Begin, At, ReleasedPcs
  <2> QED
    BY <1>2, <1>9, <2>1, <2>2, <2>3, <2>4 DEF Reconcile
<1>10. CASE UNCHANGED vars
  BY <1>10 DEF vars, index, Untouched
<1> QED
  BY <1>3, <1>4, <1>5, <1>6, <1>7, <1>8, <1>9, <1>10 DEF Next

(* What a step leaves an indexer: nothing to justify, or an unread event of *)
(* the kind its handler is for                                              *)
ScanKept(i) ==
  \/ ~ At(i, "created.open")' /\ proc'[i].pc \notin ReleasedPcs
  \/ \E kind \in {"BountyCreated", "BountyReleased"} :
       /\ Unread(i, kind)
       /\ scan'[i].pos = scan[i].pos /\ scan'[i].to = scan[i].to
       /\ At(i, "created.open")' => kind = "BountyCreated"
       /\ proc'[i].pc \in ReleasedPcs => kind = "BountyReleased"

(* Every step leaves an indexer inside a handler at its unread event. *)
LEMMA ScanMoves == ASSUME IInv, [Next]_vars, NEW i \in Indexers PROVE ScanKept(i)
<1>1. /\ proc \in [Procs -> Proc] /\ scan \in [Indexers -> ScanRange] /\ ScanSound
      /\ i \in Procs
  BY DEF IInv, TypeOK, Procs
<1>2. CASE Untouched(i)
  BY <1>1, <1>2 DEF Untouched, ScanKept, ScanSound, At, ReleasedPcs
<1>3. CASE Leaves(i)
  BY <1>3 DEF Leaves, ScanKept
<1>4. ASSUME NEW pc \in {"scan", "idle"}, proc'[i].pc = pc PROVE ScanKept(i)
  BY <1>4 DEF ScanKept, At, ReleasedPcs
<1>5. ASSUME GoTo(i, "scan") PROVE ScanKept(i)
  BY <1>1, <1>4, <1>5 DEF GoTo, Proc
<1>6. CASE Tick(i)
  <2>1. ASSUME NEW to, TickStart(i, to) PROVE ScanKept(i)
    BY <1>1, <1>4, <2>1 DEF TickStart, Begin, Idle
  <2>2. ASSUME CreatedMirror(i) PROVE ScanKept(i)
    BY <1>1, <2>2 DEF CreatedMirror, Handles, GoTo, Proc, ScanKept, Unread, At, ReleasedPcs, index
  <2>3. ASSUME ReleasedBounty(i) PROVE ScanKept(i)
    BY <1>1, <2>3 DEF ReleasedBounty, Handles, GoTo, Proc, ScanKept, Unread, At, ReleasedPcs, index
  <2>4. ASSUME ReleasedClaim(i) \/ ReleasedAggregate(i) PROVE ScanKept(i)
    BY <1>1, <2>4 DEF ReleasedClaim, ReleasedAggregate, GoTo, Proc, ScanRange, ScanKept, ScanSound,
       At, ReleasedPcs, index
  <2>5. ASSUME ReleasedLedger(i) PROVE ScanKept(i)
    <3>1. CASE GoTo(i, "scan")
      BY <1>5, <3>1
    <3>2. CASE GoTo(i, "released.aggregate") /\ UNCHANGED scan
      BY <1>1, <2>5, <3>2 DEF ReleasedLedger, GoTo, Proc, ScanKept, ScanSound, At, ReleasedPcs
    <3> QED
      BY <2>5, <3>1, <3>2 DEF ReleasedLedger, Advance
  <2>6. ASSUME Checkpoint(i) PROVE ScanKept(i)
    BY <1>1, <1>4, <2>6 DEF Checkpoint, Finish, Idle
  <2> QED
    BY <1>5, <1>6, <2>1, <2>2, <2>3, <2>4, <2>5, <2>6 DEF Tick, CreatedOpen, ReleasedCounters,
       RefundedBounty, Advance
<1> QED
  BY <1>2, <1>3, <1>6, IndexerFrame

(* The event is still the same one after the step. *)
LEMMA ScanInvariant == ASSUME IInv, [Next]_vars, ChainGrows PROVE ScanSound'
<1> SUFFICES ASSUME NEW i \in Indexers
             PROVE  /\ At(i, "created.open")' => Unread(i, "BountyCreated")'
                    /\ proc'[i].pc \in ReleasedPcs => Unread(i, "BountyReleased")'
  BY DEF ScanSound, ReleasedPcs
<1>1. ScanKept(i)
  BY ScanMoves
<1>2. scan[i].pos < scan[i].to => scan[i].pos + 1 \in 1 .. Len(log)
  BY EventIsTrue
<1>3. ASSUME NEW kind, Unread(i, kind), scan'[i].pos = scan[i].pos, scan'[i].to = scan[i].to
      PROVE  Unread(i, kind)'
  BY <1>2, <1>3 DEF Unread, Event, ChainGrows
<1> QED
  BY <1>1, <1>3 DEF ScanKept

-----------------------------------------------------------------------------
(* The invariant *)

(* The invariant holds before anything has happened ... *)
LEMMA InitEstablishes == ASSUME Init PROVE IInv
<1>1. /\ status = [b \in Bounties |-> "None"] /\ log = << >>
      /\ Len(log) = 0 /\ log \in Seq(Escrow!Event) /\ ledger \in Seq(1 .. Len(log))
  BY DEF Init, Escrow!Init
<1>2. \A p \in Procs : proc[p] = Idle
  BY DEF Init
<1>3. /\ status \in [Bounties -> Escrow!Statuses]
      /\ lifecycleStatus \in [Bounties -> Lifecycle]
      /\ onChainStatus \in [Bounties -> Escrow!Statuses]
      /\ releaseAttempts \in [Bounties -> Nat]
  BY <1>1 DEF Init, Escrow!Statuses, Lifecycle
<1>4. claims \in [ClaimIds -> ClaimRow]
  BY DEF Init, NoClaim, ClaimRow, ClaimStatus
<1>5. proc \in [Procs -> Proc]
  BY IdleSound DEF Init
<1>6. IndexOK
  BY <1>1 DEF Init, IndexOK, NoRange, ScanRange
<1>7. TypeOK
  BY <1>1, <1>3, <1>4, <1>5, <1>6 DEF TypeOK, Init, IndexOK
<1>8. NeverAheadOfChain /\ RowsSound
  BY DEF Init, NoClaim, NeverAheadOfChain, Board, Shown, RowsSound, RowSound
<1>9. ProcsSound
  BY <1>2, IdleSound DEF ProcsSound
<1>10. ScanSound
  BY <1>2 DEF ScanSound, At, ReleasedPcs, Idle, Procs
<1>11. LogTruthful
  BY <1>1 DEF LogTruthful
<1> QED
  BY <1>7, <1>8, <1>9, <1>10, <1>11 DEF IInv

(* ... and every step of every process preserves it. *)
LEMMA NextPreserves == ASSUME IInv, [Next]_vars PROVE IInv'
<1>1. /\ ChainGrows /\ LogTruthful'
      /\ status' \in [Bounties -> Escrow!Statuses] /\ log' \in Seq(Escrow!Event)
  BY ChainInvariant DEF IInv
<1>2. RowsStep /\ WorldStep /\ IndexStep
  BY ClaimMoves, WorldMoves, IndexMoves
<1>3. BountyOK'
  BY <1>1, BountyMoves, BountyInvariant
<1>4. RowsSound'
  BY <1>1, <1>2, RowsInvariant
<1>5. proc' \in [Procs -> Proc] /\ ProcsSound'
  BY ProcsInvariant
<1>6. IndexOK' /\ ScanSound'
  BY <1>1, <1>2, IndexTypes, ScanInvariant
<1>7. TypeOK'
  BY <1>1, <1>2, <1>3, <1>5, <1>6 DEF TypeOK, RowsStep, WorldStep, BountyOK, IndexOK
<1>8. NeverAheadOfChain'
  BY <1>3, <1>4, <1>7
  DEF NeverAheadOfChain, Board, Shown, BountyOK, LifeAllowed, MirrorAllowed, RowsSound, RowSound
<1> QED
  BY <1>1, <1>4, <1>5, <1>6, <1>7, <1>8 DEF IInv

(* The inductive invariant holds in every reachable state. *)
LEMMA Invariant == Spec => []IInv
  BY InitEstablishes, NextPreserves, PTL DEF Spec

(* Every document, local and cursor keeps its shape (TypeOK), whatever       *)
(* handlers, crashes and indexers interleave.                               *)
THEOREM TypeCorrect == Spec => []TypeOK
<1>1. IInv => TypeOK
  BY DEF IInv
<1> QED
  BY <1>1, Invariant, PTL

(* Nothing off-chain runs ahead of the chain: no handler, whatever it loaded *)
(* before others ran, writes a status the escrow has not reached.           *)
THEOREM OffChainFollows == Spec => []NeverAheadOfChain
<1>1. IInv => NeverAheadOfChain
  BY DEF IInv
<1> QED
  BY <1>1, Invariant, PTL

-----------------------------------------------------------------------------
(* The ledger *)

(* The ledger grows at its end. *)
LEMMA LedgerGrows ==
  ASSUME IInv, [Next]_vars
  PROVE  /\ Len(ledger) \in Nat /\ Len(ledger') \in Nat /\ Len(ledger) <= Len(ledger')
         /\ \A k \in 1 .. Len(ledger) : ledger'[k] = ledger[k] /\ ledger[k] \in 1 .. Len(log)
         /\ \A pos : Entered(pos) => Entered(pos)'
<1>1. ledger \in Seq(1 .. Len(log))
  BY DEF IInv, TypeOK
<1>2. LedgerMove
  BY IndexMoves DEF IndexStep
<1>3. /\ Len(ledger) \in Nat
      /\ \A k \in 1 .. Len(ledger) : ledger[k] \in 1 .. Len(log)
  BY <1>1, LenProperties, ElementOfSeq
<1>4. ASSUME NEW pos \in 1 .. Len(log), ledger' = Append(ledger, pos)
      PROVE  /\ Len(ledger') = Len(ledger) + 1
             /\ \A k \in 1 .. Len(ledger) : ledger'[k] = ledger[k]
  BY <1>1, <1>4, AppendProperties
<1>5. /\ Len(ledger') \in Nat /\ Len(ledger) <= Len(ledger')
      /\ \A k \in 1 .. Len(ledger) : ledger'[k] = ledger[k]
  BY <1>2, <1>3, <1>4 DEF LedgerMove
<1> QED
  BY <1>3, <1>5 DEF Entered

(* No step enters a payout twice. *)
LEMMA LedgerStaysExact == ASSUME IInv, LedgerExact, [Next]_vars PROVE LedgerExact'
<1>1. LedgerMove /\ ChainGrows /\ ledger \in Seq(1 .. Len(log)) /\ Len(ledger) \in Nat
  BY IndexMoves, ChainInvariant, LedgerGrows DEF IndexStep, IInv, TypeOK
<1>2. CASE UNCHANGED ledger
  BY <1>1, <1>2, LedgerGrows DEF LedgerExact, ChainGrows
<1>3. ASSUME NEW pos \in 1 .. Len(log), ledger' = Append(ledger, pos), ~ Entered(pos),
             log[pos].kind = "BountyReleased"
      PROVE  LedgerExact'
  <2>1. /\ Len(ledger') = Len(ledger) + 1 /\ ledger'[Len(ledger) + 1] = pos
        /\ \A k \in 1 .. Len(ledger) :
             ledger'[k] = ledger[k] /\ ledger[k] \in 1 .. Len(log) /\ ledger[k] # pos
    BY <1>1, <1>3, AppendProperties, LedgerGrows DEF Entered
  <2>2. \A k \in 1 .. Len(ledger') : k \in 1 .. Len(ledger) \/ k = Len(ledger) + 1
    BY <1>1, <2>1
  <2>3. ASSUME NEW j \in 1 .. Len(ledger'), NEW k \in 1 .. Len(ledger'), ledger'[j] = ledger'[k]
        PROVE  j = k
    BY <2>1, <2>2, <2>3 DEF LedgerExact
  <2>4. ASSUME NEW k \in 1 .. Len(ledger') PROVE log'[ledger'[k]].kind = "BountyReleased"
    BY <1>1, <1>3, <2>1, <2>2 DEF LedgerExact, ChainGrows
  <2> QED
    BY <2>3, <2>4 DEF LedgerExact
<1> QED
  BY <1>1, <1>2, <1>3 DEF LedgerMove

(* At most once: a payout is in the ledger once, however often its event is  *)
(* replayed and by however many indexers.                                   *)
THEOREM CountedOnce == Spec => []LedgerExact
<1>1. Init => LedgerExact
  BY DEF Init, LedgerExact
<1>2. IInv /\ LedgerExact /\ [Next]_vars => LedgerExact'
  BY LedgerStaysExact
<1> QED
  BY <1>1, <1>2, Invariant, PTL DEF Spec

(* Every payout among the first n log entries is in the ledger. *)
EnteredUpTo(n) == \A k \in 1 .. n : log[k].kind = "BountyReleased" => Entered(k)

(* Entered, after the step *)
EnteredThen(pos) == \E k \in 1 .. Len(ledger') : ledger'[k] = pos

(* What a step leaves an indexer: all it has passed is entered. *)
PassedKept(i) ==
  /\ \A k \in 1 .. scan'[i].pos : log[k].kind = "BountyReleased" => EnteredThen(k)
  /\ proc'[i].pc \in {"released.aggregate", "released.counters"} => EnteredThen(scan'[i].pos + 1)

(* No step carries an indexer past a payout that is not entered. *)
LEMMA PassedMoves ==
  ASSUME IInv, Passed, NoPayoutSkipped, [Next]_vars, NEW i \in Indexers PROVE PassedKept(i)
<1>1. /\ proc \in [Procs -> Proc] /\ scan \in [Indexers -> ScanRange] /\ ScanSound
      /\ i \in Procs /\ scan[i].pos \in Nat /\ lastBlock \in Nat
  BY LenProperties DEF IInv, TypeOK, Procs, ScanRange
<1>2. \A pos : Entered(pos) => EnteredThen(pos)
  BY LedgerGrows DEF Entered, EnteredThen
<1>3. EnteredUpTo(scan[i].pos) /\ EnteredUpTo(lastBlock)
  BY DEF Passed, NoPayoutSkipped, EnteredUpTo
<1>4. ASSUME scan'[i].pos \in {0, scan[i].pos, lastBlock},
             proc'[i].pc \notin {"released.aggregate", "released.counters"}
      PROVE  PassedKept(i)
  BY <1>1, <1>2, <1>3, <1>4 DEF PassedKept, EnteredUpTo
<1>5. ASSUME scan'[i].pos = scan[i].pos, EnteredThen(scan[i].pos + 1) PROVE PassedKept(i)
  BY <1>1, <1>2, <1>3, <1>5 DEF PassedKept, EnteredUpTo
<1>6. ASSUME Advance(i),
             Event(i).kind = "BountyReleased" => EnteredThen(scan[i].pos + 1)
      PROVE  PassedKept(i)
  <2>1. scan'[i].pos = scan[i].pos + 1 /\ proc'[i].pc = "scan"
    BY <1>1, <1>6 DEF Advance, GoTo, Proc, ScanRange
  <2>2. \A k \in 1 .. scan[i].pos + 1 : k \in 1 .. scan[i].pos \/ k = scan[i].pos + 1
    BY <1>1
  <2> QED
    BY <1>2, <1>3, <1>6, <2>1, <2>2 DEF PassedKept, EnteredUpTo, Event
<1>7. NoRange.pos = 0
  BY DEF NoRange
<1>8. CASE Untouched(i)
  <2>1. CASE proc[i].pc \in {"released.aggregate", "released.counters"}
    BY <1>2, <1>5, <1>8, <2>1 DEF Untouched, Passed
  <2>2. CASE proc[i].pc \notin {"released.aggregate", "released.counters"}
    BY <1>4, <1>8, <2>2 DEF Untouched
  <2> QED
    BY <2>1, <2>2
<1>9. CASE Leaves(i)
  BY <1>4, <1>7, <1>9 DEF Leaves, ReleasedPcs
<1>10. CASE Tick(i)
  <2>1. ASSUME NEW to, TickStart(i, to) PROVE PassedKept(i)
    <3>1. proc'[i].pc = "scan" /\ scan'[i].pos = lastBlock
      BY <1>1, <2>1 DEF TickStart, Begin, Idle, NoRange
    <3> QED
      BY <1>4, <3>1
  <2>2. ASSUME CreatedMirror(i) \/ ReleasedBounty(i) \/ ReleasedClaim(i) PROVE PassedKept(i)
    <3>1. proc'[i].pc \in {"created.open", "released.claim", "released.ledger"} /\ scan' = scan
      BY <1>1, <2>2 DEF CreatedMirror, ReleasedBounty, ReleasedClaim, GoTo, Proc, index
    <3> QED
      BY <1>4, <3>1
  <2>3. ASSUME CreatedOpen(i) PROVE PassedKept(i)
    BY <1>1, <1>6, <2>3 DEF CreatedOpen, ScanSound, Unread
  <2>4. ASSUME RefundedBounty(i) PROVE PassedKept(i)
    BY <1>6, <2>4 DEF RefundedBounty, Handles
  <2>5. ASSUME ReleasedLedger(i) PROVE PassedKept(i)
    <3> DEFINE pos == scan[i].pos + 1
    <3>1. CASE Entered(pos) /\ Advance(i)
      BY <1>2, <1>6, <3>1
    <3>2. CASE ledger' = Append(ledger, pos) /\ UNCHANGED scan
      <4>1. ledger \in Seq(1 .. Len(log)) /\ pos \in 1 .. Len(log) /\ Len(ledger) \in Nat
        BY <2>5, EventIsTrue, LedgerGrows DEF IInv, TypeOK, ScanSound, ReleasedLedger,
           ReleasedPcs, At, Unread
      <4>2. PICK new \in 1 .. Len(log) : new = pos
        BY <4>1
      <4>3. Len(ledger') = Len(ledger) + 1 /\ ledger'[Len(ledger) + 1] = new
        BY <3>2, <4>1, <4>2, AppendProperties
      <4>4. EnteredThen(new)
        BY <4>1, <4>3 DEF EnteredThen
      <4> QED
        BY <1>1, <1>2, <1>3, <3>2, <4>2, <4>4 DEF PassedKept, EnteredUpTo
    <3> QED
      BY <2>5, <3>1, <3>2 DEF ReleasedLedger
  <2>6. ASSUME ReleasedAggregate(i) PROVE PassedKept(i)
    <3>1. scan'[i].pos = scan[i].pos /\ ledger' = ledger
      BY <1>1, <2>6 DEF ReleasedAggregate, ScanRange
    <3>2. Entered(scan[i].pos + 1)
      BY <2>6 DEF ReleasedAggregate, Passed, At
    <3> QED
      BY <1>1, <1>2, <1>3, <3>1, <3>2 DEF PassedKept, EnteredUpTo
  <2>7. ASSUME ReleasedCounters(i) PROVE PassedKept(i)
    <3>1. Entered(scan[i].pos + 1)
      BY <2>7 DEF ReleasedCounters, Passed, At
    <3> QED
      BY <1>2, <1>6, <2>7, <3>1 DEF ReleasedCounters
  <2>8. ASSUME Checkpoint(i) PROVE PassedKept(i)
    <3>1. proc'[i].pc = "idle" /\ scan'[i].pos = 0
      BY <1>1, <1>7, <2>8 DEF Checkpoint, Finish, Idle
    <3> QED
      BY <1>4, <3>1
  <2> QED
    BY <1>10, <2>1, <2>2, <2>3, <2>4, <2>5, <2>6, <2>7, <2>8 DEF Tick
<1> QED
  BY <1>8, <1>9, <1>10, IndexerFrame

(* Only saveLastBlock moves the checkpoint. *)
LEMMA CheckpointMoves ==
  ASSUME IInv, [Next]_vars
  PROVE  lastBlock' = lastBlock \/ \E i \in Indexers : Checkpoint(i)
<1>1. ASSUME Environment PROVE lastBlock' = lastBlock
  BY <1>1 DEF Environment, MaintainerFunds, MaintainerRefunds, MineRelease, GithubMerges, Abort,
     index
<1>2. ASSUME NEW s \in Slots, BountyRequest(s) PROVE lastBlock' = lastBlock
  BY <1>2 DEF BountyRequest, DepositRead, RefundRead, CancelRead, DepositSave, RefundSave,
     CancelSave, index
<1>3. ASSUME NEW s \in Slots, ClaimRequest(s) PROVE lastBlock' = lastBlock
  BY <1>3 DEF ClaimRequest, ClaimRead, ClaimExpire, ClaimCheck, ClaimInsert, ClaimRecount,
     ClaimRollback, ClaimSave, Unclaim, UnclaimReopen, SubmitRead, SubmitSave, SubmitMark, index
<1>4. ASSUME NEW s \in Slots, SettlementRequest(s) PROVE lastBlock' = lastBlock
  BY <1>4 DEF SettlementRequest, WebhookSettles, WebhookIgnores, ManualRelease, SettleArm,
     SettleStamp, index
<1>5. ASSUME NEW p \in Procs, ReleaseJob(p) PROVE lastBlock' = lastBlock
  BY <1>5 DEF ReleaseJob, ReleaseSend, ReleaseDone, ReleaseFails, index
<1>6. ASSUME NEW i \in Indexers, Tick(i) \/ Reconcile(i), ~ Checkpoint(i)
      PROVE  lastBlock' = lastBlock
  BY <1>6 DEF Tick, TickStart, CreatedMirror, CreatedOpen, ReleasedBounty, ReleasedClaim,
     ReleasedLedger, ReleasedAggregate, ReleasedCounters, RefundedBounty, Reconcile,
     ReconcileList, ReconcileClaim, ReconcileArm, index
<1>7. CASE UNCHANGED vars
  BY <1>7 DEF vars, index
<1> QED
  BY <1>1, <1>2, <1>3, <1>4, <1>5, <1>6, <1>7 DEF Next

(* No step checkpoints a payout that is not entered. *)
LEMMA NothingGetsSkipped ==
  ASSUME IInv, Passed, NoPayoutSkipped, [Next]_vars PROVE Passed' /\ NoPayoutSkipped'
<1>1. /\ scan \in [Indexers -> ScanRange] /\ lastBlock \in 0 .. Len(log) /\ Len(log) \in Nat
      /\ \A i \in Indexers : scan[i].pos <= scan[i].to /\ scan[i].to <= Len(log)
      /\ ChainGrows
  BY LenProperties, ChainInvariant DEF IInv, TypeOK
<1>2. \A i \in Indexers : scan'[i].pos <= Len(log) /\ scan'[i].pos \in Nat
  <2>1. \A v \in ScanRange : v.pos \in Nat /\ v.to \in Nat
    BY DEF ScanRange
  <2>2. ASSUME NEW i \in Indexers
        PROVE  scan'[i] \in ScanRange /\ scan'[i].pos <= scan'[i].to /\ scan'[i].to <= Len(log)
    BY <1>1, IndexMoves DEF IndexStep, ScanMove
  <2> QED
    BY <1>1, <2>1, <2>2
<1>3. Passed'
  <2>1. ASSUME NEW i \in Indexers, NEW k \in 1 .. scan'[i].pos
        PROVE  log'[k] = log[k]
    BY <1>1, <1>2, <2>1 DEF ChainGrows
  <2>2. ASSUME NEW i \in Indexers PROVE PassedKept(i)
    BY <2>2, PassedMoves
  <2> QED
    BY <2>1, <2>2 DEF Passed, PassedKept, Entered, EnteredThen
<1>4. EnteredUpTo(lastBlock')
  <2>1. ASSUME NEW i \in Indexers, Checkpoint(i) PROVE lastBlock' \in {lastBlock, scan[i].pos}
    BY <2>1 DEF Checkpoint
  <2> QED
    BY <2>1, CheckpointMoves DEF EnteredUpTo, Passed, NoPayoutSkipped
<1>5. lastBlock' \in 0 .. Len(log)
  BY IndexMoves DEF IndexStep
<1>6. ASSUME NEW k \in 1 .. lastBlock', log'[k].kind = "BountyReleased" PROVE Entered(k)'
  <2>1. k \in 1 .. Len(log)
    BY <1>1, <1>5
  <2>2. Entered(k)
    BY <1>1, <1>4, <1>6, <2>1 DEF EnteredUpTo, ChainGrows
  <2> QED
    BY <2>2, LedgerGrows
<1> QED
  BY <1>3, <1>6 DEF NoPayoutSkipped

(* At least once: a payout below the checkpoint is in the ledger, wherever   *)
(* an indexer crashed and whichever of several indexers moved the checkpoint. *)
THEOREM NothingSkipped == Spec => []NoPayoutSkipped
<1>1. Init => Passed /\ NoPayoutSkipped
  BY DEF Init, Passed, NoPayoutSkipped, NoRange, Idle, Procs
<1>2. IInv /\ Passed /\ NoPayoutSkipped /\ [Next]_vars => Passed' /\ NoPayoutSkipped'
  BY NothingGetsSkipped
<1> QED
  BY <1>1, <1>2, Invariant, PTL DEF Spec

-----------------------------------------------------------------------------
(* The counters *)

(* No count, written or about to be, exceeds the ledger. *)
NeverOver == NeverDoubleCounts /\ CountsSound

(* A hunter's payouts in the ledger only grow in number. *)
LEMMA EarnedGrows ==
  ASSUME IInv, [Next]_vars, NEW h
  PROVE  /\ Cardinality(Earned(h)) \in Nat /\ Cardinality(Earned(h)') \in Nat
         /\ Cardinality(Earned(h)) <= Cardinality(Earned(h)')
<1>1. /\ Len(ledger') \in Nat /\ Len(ledger) \in Nat /\ Len(ledger) <= Len(ledger')
      /\ \A k \in 1 .. Len(ledger) : ledger'[k] = ledger[k] /\ ledger[k] \in 1 .. Len(log)
      /\ ChainGrows
  BY LedgerGrows, ChainInvariant DEF IInv
<1>2. IsFiniteSet(1 .. Len(ledger'))
  BY <1>1, FS_Interval
<1>3. Earned(h)' \subseteq 1 .. Len(ledger')
  BY DEF Earned
<1>4. Earned(h) \subseteq Earned(h)'
  BY <1>1 DEF Earned, ChainGrows
<1>5. IsFiniteSet(Earned(h)')
  BY <1>2, <1>3, FS_Subset
<1> QED
  BY <1>4, <1>5, FS_Subset, FS_CardinalityType

(* A recompute never writes a count the ledger has not reached, because it   *)
(* read the count from an earlier ledger.                                   *)
LEMMA CountsStaySound == ASSUME IInv, NeverOver, [Next]_vars PROVE NeverOver'
<1>1. /\ proc \in [Procs -> Proc] /\ scan \in [Indexers -> ScanRange] /\ ScanSound
      /\ payoutCount \in [Hunters -> Nat]
      /\ NeverDoubleCounts /\ CountsSound
  BY DEF IInv, TypeOK, NeverOver
<1>2. ASSUME NEW h \in Hunters PROVE payoutCount'[h] <= Cardinality(Earned(h)')
  <2>1. /\ Cardinality(Earned(h)) \in Nat /\ Cardinality(Earned(h)') \in Nat
        /\ Cardinality(Earned(h)) <= Cardinality(Earned(h)')
    BY EarnedGrows
  <2>2. payoutCount'[h] \in Nat /\ payoutCount'[h] <= Cardinality(Earned(h))
    <3>1. payoutCount' \in [Hunters -> Nat]
      BY ChainInvariant, IndexMoves, IndexTypes DEF IInv, IndexOK
    <3> QED
      BY <1>1, <3>1, IndexMoves DEF IndexStep, CountMove, NeverDoubleCounts, CountsSound
  <2> QED
    BY <2>1, <2>2
<1>3. ASSUME NEW i \in Indexers, At(i, "released.counters")'
      PROVE  scan'[i].count <= Cardinality(Earned(Event(i).to))'
  <2>1. CASE ReleasedAggregate(i) \/ (At(i, "released.counters") /\ scan'[i] = scan[i])
    <3>1. Unread(i, "BountyReleased")
      BY <1>1, <2>1 DEF ReleasedAggregate, ScanSound, ReleasedPcs, At
    <3>2. PICK h \in Hunters : h = Event(i).to
      BY <3>1, EventIsTrue DEF Unread
    <3>3. scan'[i].count \in Nat /\ scan'[i].pos = scan[i].pos
          /\ scan'[i].count <= Cardinality(Earned(h))
      <4>1. /\ Cardinality(Earned(h)) \in Nat
            /\ Cardinality(Earned(h)') \in Nat
            /\ Cardinality(Earned(h)) <= Cardinality(Earned(h)')
        BY EarnedGrows
      <4> QED
        BY <1>1, <2>1, <3>2, <4>1 DEF ReleasedAggregate, ScanRange, CountsSound
    <3>4. Event(i)' = Event(i)
      BY <3>1, <3>3, EventIsTrue, ChainInvariant DEF Unread, Event, ChainGrows, IInv
    <3>5. Earned(Event(i).to)' = Earned(h)'
      BY <3>2, <3>4 DEF Earned
    <3>6. /\ Cardinality(Earned(h)) \in Nat
          /\ Cardinality(Earned(h)') \in Nat
          /\ Cardinality(Earned(h)) <= Cardinality(Earned(h)')
      BY EarnedGrows
    <3> QED
      BY <3>3, <3>5, <3>6
  <2>2. CASE Untouched(i)
    BY <1>3, <2>1, <2>2 DEF Untouched, At
  <2>3. CASE Leaves(i)
    BY <1>3, <2>3 DEF Leaves, ReleasedPcs, At
  <2>4. ASSUME Tick(i), ~ ReleasedAggregate(i) PROVE proc'[i].pc # "released.counters"
    <3>1. i \in Procs
      BY DEF Procs
    <3>2. ASSUME NEW pc \in {"scan", "created.open", "released.claim", "released.ledger",
                             "released.aggregate"}, GoTo(i, pc)
          PROVE  proc'[i].pc # "released.counters"
      BY <1>1, <3>1, <3>2 DEF GoTo, Proc
    <3>3. ASSUME NEW to, TickStart(i, to) PROVE proc'[i].pc # "released.counters"
      BY <1>1, <3>1, <3>3 DEF TickStart, Begin, Idle
    <3>4. ASSUME Checkpoint(i) PROVE proc'[i].pc # "released.counters"
      BY <1>1, <3>1, <3>4 DEF Checkpoint, Finish, Idle
    <3> QED
      BY <2>4, <3>2, <3>3, <3>4 DEF Tick, CreatedMirror, CreatedOpen, ReleasedBounty,
         ReleasedClaim, ReleasedLedger, ReleasedCounters, RefundedBounty, Advance
  <2> QED
    BY <1>3, <2>1, <2>2, <2>3, <2>4, IndexerFrame DEF At
<1>4. NeverDoubleCounts'
  BY <1>2 DEF NeverDoubleCounts
<1>5. CountsSound'
  BY <1>3 DEF CountsSound
<1> QED
  BY <1>4, <1>5 DEF NeverOver

(* A profile never shows more payouts than the ledger holds, however many    *)
(* recomputes of whatever age overwrite each other.                         *)
THEOREM NeverDoubleCounted == Spec => []NeverDoubleCounts
<1>1. Init => NeverOver
  <2> SUFFICES ASSUME Init PROVE NeverOver
    OBVIOUS
  <2>1. IInv
    BY InitEstablishes
  <2>2. \A h \in Hunters : Cardinality(Earned(h)) \in Nat
    BY <2>1, EarnedFinite DEF IInv
  <2> QED
    BY <2>2 DEF Init, NeverOver, NeverDoubleCounts, CountsSound, At, Idle, Procs
<1>2. IInv /\ NeverOver /\ [Next]_vars => NeverOver'
  BY CountsStaySound
<1>3. NeverOver => NeverDoubleCounts
  BY DEF NeverOver
<1> QED
  BY <1>1, <1>2, <1>3, Invariant, PTL DEF Spec
=============================================================================

--------------------------- MODULE DevBountyStore ----------------------------
(***************************************************************************)
(* What the processes of the backend share: the MongoDB collections, the    *)
(* escrow contract (as EscrowPromise), the transactions the hot wallet has  *)
(* broadcast, and GitHub's merged pull requests; and the requests and jobs  *)
(* in flight, each at an await of its handler.                              *)
(*                                                                         *)
(* A handler is cut at its awaits: one action reads or writes one document  *)
(* atomically, and any other process may run between two of them.           *)
(* Mongoose's doc.save() writes only the fields assigned a new value, by    *)
(* _id, whatever the document holds by then.                                *)
(***************************************************************************)
EXTENDS Integers, Sequences, FiniteSets

CONSTANTS
  Bounties,           \* bounties already posted (their rows exist)
  Hunters,            \* wallets with a linked GitHub account
  PRs,                \* pull requests of the repository; also their merge commits
  Author,             \* [PRs -> Hunters], who opened it
  Refs,               \* [PRs -> SUBSET Bounties], whose issue its text references
  ClaimIds,           \* _ids of claim rows (bound)
  Slots,              \* requests and detached jobs in flight at once (bound)
  Indexers,           \* indexer processes
  ActiveClaimCap,     \* ACTIVE_CLAIM_CAP
  MaxReleaseAttempts, \* MAX_RELEASE_ATTEMPTS
  ReconcileLimit,     \* the failed releases one reconciliation looks at
  PostedAt,           \* [Bounties -> Nat], the order find() lists bounties in
  Requests,           \* which request kinds clients send (a subset of RequestKinds)
  Failures,           \* what may go wrong outside (a subset of FailureKinds)
  CutAt,              \* awaits at which a process may die or MongoDB reject the call
  Nil

BountyKinds  == {"deposit-recorded", "refund-recorded", "cancel"}
ClaimKinds   == {"claim", "unclaim", "submit", "manual-release"}
RequestKinds == BountyKinds \cup ClaimKinds

(* "rpc": a call of a release rejects (a simulation refused for another      *)
(* reason than the bounty's status included) or the wait for its receipt    *)
(* times out; "revert": a broadcast release() of an open bounty reverts,    *)
(* the hot wallet having been replaced or the transfer refused meanwhile;   *)
(* "no-commit": GitHub names no merge commit; "mark": the mark of a webhook *)
(* delivery comes late or never.                                            *)
FailureKinds == {"rpc", "revert", "no-commit", "mark"}

ASSUME StoreAssumption ==
  /\ Author \in [PRs -> Hunters]
  /\ Refs \in [PRs -> SUBSET Bounties]
  /\ Slots \cap Indexers = {}
  /\ ActiveClaimCap \in Nat \ {0} /\ MaxReleaseAttempts \in Nat
  /\ ReconcileLimit \in Nat \ {0} /\ PostedAt \in [Bounties -> Nat]
  /\ Requests \subseteq RequestKinds /\ Failures \subseteq FailureKinds
  /\ Nil \notin Bounties \cup Hunters \cup PRs \cup ClaimIds
  /\ IsFiniteSet(ClaimIds)

VARIABLES
  status, log,      \* the escrow: bounties[id].status and its events, see EscrowPromise
  pool,             \* release() transactions broadcast and not mined yet
  merged,           \* PRs GitHub has merged
  lifecycleStatus,  \* [Bounties -> Lifecycle]
  onChainStatus,    \* [Bounties -> the status mirrored in MongoDB]
  releaseAttempts,  \* [Bounties -> Nat]
  claims,           \* [ClaimIds -> ClaimRow]
  processed,        \* merged PRs whose webhook delivery has processedOk = true
  proc,             \* [Procs -> what each request, job or indexer is doing]
  scan,             \* [Indexers -> the range being scanned]
  lastBlock,        \* the indexer's checkpoint, a position of log
  ledger,           \* reputation_events rows: positions of log, in insertion order
  payoutCount       \* [Hunters -> hunters.payoutCount]

chain  == <<status, log>>
world  == <<chain, pool, merged>>
bounty == <<lifecycleStatus, onChainStatus, releaseAttempts>>
index  == <<scan, lastBlock, ledger, payoutCount>>
vars   == <<world, bounty, claims, processed, proc, index>>

Escrow == INSTANCE EscrowPromise WITH Ids <- Bounties, Payees <- Hunters, Shas <- PRs

Procs == Slots \cup Indexers

Lifecycle == {"pending_deposit", "open", "claimed", "submitted", "releasing",
              "paid", "refunded", "release_failed", "cancelled"}

(* "none": no such row yet; "deleted": the row was rolled back *)
ClaimStatus == {"none", "active", "expired", "submitted", "paid", "released", "deleted"}

ClaimRow == [bounty : Bounties \cup {Nil}, hunter : Hunters \cup {Nil},
             status : ClaimStatus, pr : PRs \cup {Nil}, prCommitSha : PRs \cup {Nil}]

NoClaim == [bounty |-> Nil, hunter |-> Nil, status |-> "none", pr |-> Nil,
            prCommitSha |-> Nil]

Tx == [bounty : Bounties, hunter : Hunters, sha : PRs]

(* Where a process is: the await it is suspended at. *)
RequestPcs == {"claim.expire", "claim.check", "claim.insert", "claim.recount",
               "claim.rollback", "claim.save", "unclaim.reopen", "submit.save",
               "submit.mark", "deposit.save", "refund.save", "cancel.save"}
SettlePcs  == {"settle.arm", "settle.stamp", "release.send", "release.wait"}
IndexerPcs == {"scan", "created.open", "released.claim", "released.ledger",
               "released.aggregate", "released.counters", "reconcile.claim",
               "reconcile.arm"}
Pcs == {"idle"} \cup RequestPcs \cup SettlePcs \cup IndexerPcs

(* The locals a handler carries across awaits: `life` and `mirror` are the  *)
(* lifecycleStatus and onChainStatus its document had when it was loaded,   *)
(* `hook` whether it serves a webhook delivery, `list` the failed releases a *)
(* reconciliation has yet to look at.                                       *)
Proc == [pc : Pcs, bounty : Bounties \cup {Nil}, hunter : Hunters \cup {Nil},
         row : ClaimIds \cup {Nil}, pr : PRs \cup {Nil},
         life : Lifecycle \cup {Nil}, mirror : Escrow!Statuses \cup {Nil},
         hook : BOOLEAN, list : SUBSET Bounties]

Idle == [pc |-> "idle", bounty |-> Nil, hunter |-> Nil, row |-> Nil, pr |-> Nil,
         life |-> Nil, mirror |-> Nil, hook |-> FALSE, list |-> {}]

(* The range of log positions an indexer is scanning, how far it got, and    *)
(* the aggregate a recompute has read but not written yet.                  *)
ScanRange == [pos : Nat, to : Nat, count : Nat]

NoRange == [pos |-> 0, to |-> 0, count |-> 0]

Init ==
  /\ Escrow!Init
  /\ pool = {}
  /\ merged = {}
  /\ lifecycleStatus = [b \in Bounties |-> "pending_deposit"]
  /\ onChainStatus = [b \in Bounties |-> "None"]
  /\ releaseAttempts = [b \in Bounties |-> 0]
  /\ claims = [r \in ClaimIds |-> NoClaim]
  /\ processed = {}
  /\ proc = [p \in Procs |-> Idle]
  /\ scan = [i \in Indexers |-> NoRange]
  /\ lastBlock = 0
  /\ ledger = << >>
  /\ payoutCount = [h \in Hunters |-> 0]

-----------------------------------------------------------------------------
(* Moves every handler is made of *)

At(p, pc) == proc[p].pc = pc

Begin(p, state) == At(p, "idle") /\ proc' = [proc EXCEPT ![p] = state]
GoTo(p, pc)     == proc' = [proc EXCEPT ![p].pc = pc]
Finish(p)       == proc' = [proc EXCEPT ![p] = Idle]

SetLifecycle(b, to) == lifecycleStatus' = [lifecycleStatus EXCEPT ![b] = to]
SetMirror(b, to)    == onChainStatus' = [onChainStatus EXCEPT ![b] = to]

Rows(b, st) == {r \in ClaimIds : claims[r].bounty = b /\ claims[r].status = st}

(* updateOne({bountyId, status: 'submitted'}, fields): one matching row, any *)
(* of them, is updated, if there is one                                     *)
UpdateSubmitted(b, updated) ==
  \/ \E r \in Rows(b, "submitted") : claims' = [claims EXCEPT ![r] = updated[r]]
  \/ Rows(b, "submitted") = {} /\ UNCHANGED claims

-----------------------------------------------------------------------------
(* The environment *)

(* the maintainer sends create() or refund() from a wallet *)
MaintainerFunds(b) ==
  Escrow!Fund(b) /\ UNCHANGED <<pool, merged, bounty, claims, processed, proc, index>>

MaintainerRefunds(b) ==
  Escrow!GiveBack(b) /\ UNCHANGED <<pool, merged, bounty, claims, processed, proc, index>>

(* A broadcast release() is mined.  It pays, or reverts: BountyNotOpen if    *)
(* the bounty is not open by then, and, open or not, NotAuthorized once the *)
(* owner has replaced authorizedCaller, or the failure of the transfer.     *)
MineRelease(tx) ==
  /\ tx \in pool
  /\ pool' = pool \ {tx}
  /\ \/ Escrow!PayOut(tx.bounty, tx.hunter, tx.sha)
     \/ (status[tx.bounty] = "Open" => "revert" \in Failures) /\ UNCHANGED chain
  /\ UNCHANGED <<merged, bounty, claims, processed, proc, index>>

GithubMerges(pr) ==
  /\ pr \notin merged
  /\ merged' = merged \cup {pr}
  /\ UNCHANGED <<chain, pool, bounty, claims, processed, proc, index>>

(* The process dies, or an awaited call rejects and the handler answers 500  *)
(* (the indexer's loop logs it and goes on): what was written stays written  *)
(* and the locals are lost.  A crash of a whole server is this step for each *)
(* of its processes in turn.                                                *)
Abort(p) ==
  /\ ~ At(p, "idle") /\ proc[p].pc \in CutAt
  /\ Finish(p)
  /\ IF p \in Indexers THEN scan' = [scan EXCEPT ![p] = NoRange] ELSE UNCHANGED scan
  /\ UNCHANGED <<world, bounty, claims, processed, lastBlock, ledger, payoutCount>>

Environment ==
  \/ \E b \in Bounties : MaintainerFunds(b) \/ MaintainerRefunds(b)
  \/ \E tx \in pool : MineRelease(tx)
  \/ \E pr \in PRs : GithubMerges(pr)
  \/ \E p \in Procs : Abort(p)
=============================================================================

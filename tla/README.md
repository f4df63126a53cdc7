# DevBounty: TLA+ models of the bounty backend

DevBounty lets a maintainer lock USDC for a GitHub issue in an escrow contract
and pays a hunter on chain when the hunter's pull request is merged.  This
directory models the escrow contract and the part of the backend that decides
who is paid, with the login, account links, webhooks, idempotent requests and indexer
lease around it; it model-checks them with TLC and proves their safety with TLAPS.

Paths below are relative to the repository; `api/` stands for `api/src/`.

## Inventory

| Component | State | Operations | Interacts with |
|---|---|---|---|
| Escrow contract (`contracts/contracts/BountyEscrow.sol`) | `bounties[id]`, the hot wallet, the default refund window, owner, USDC | `create`, `release`, `refund`, the owner's setters | read by the routes and the indexer, written by maintainers' wallets and the hot wallet |
| Bounty documents (`api/shared/models/bounty.model.ts`) | `lifecycleStatus` (9 states), `onChainStatus` (mirror), `releaseAttempts` | written by every component below | - |
| Bounty routes (`api/api/routes/bounties.ts`) | - | `deposit-recorded`, `refund-recorded`, `cancel`; reads | bounty documents, chain reads |
| Idempotency keys (`bounties.ts`, `idempotencyKey.model.ts`) | a row per key and wallet: reserved or final | reserve, finalize, replay, give back, expire | `POST /bounties` |
| Claim routes (`api/api/routes/claims.ts`) | claim rows: active, submitted, paid, expired, released | claim, give up, submit, manual release | bounty and claim documents, GitHub |
| Webhook ingestion (`api/api/routes/webhooks.ts`) | one row per delivery with `processedOk` | verify, deduplicate, authorize a merge | claim rows, settlement |
| Settlement (`api/shared/bounty/settleMerge.ts`, `api/shared/chain/`) | jobs in flight (process memory only) | arm the bounty, stamp the commit, send `release()` detached, retry failures | bounty and claim documents, contract |
| Event indexer (`api/indexer/`) | checkpoint, ledger of payouts, per-hunter counters | scan a range, mirror events, recompute counters, checkpoint, reconcile failed releases | contract log, all documents |
| Indexer lease (`indexer/index.ts`) | owner and expiry in the indexer's row | take, renew, refuse | every iteration of every indexer |
| Login (`routes/auth.ts`) | nonces, session cookies | issue and consume a nonce, start a session | hunter documents; sessions authorize every other request |
| GitHub linking (`routes/github.ts`) | OAuth grants, hunter documents | link, relink, unlink | decides who may claim, and whose pull request counts |
| Webhook installation (`routes/repos.ts`, `shared/github/webhook.ts`, `oauth.ts`) | a row per repository: owner, hook, current and previous key | install, rotate; look a delivery's hook up and verify it | sessions and GitHub links; decides which deliveries ingestion hears |
| Rate limits, leaderboard, health, audit | counters, a cache | see `PROJECT.json` | not modelled: see the last sections |

**What makes it correct.**  Contract: solvent, each bounty settled at most once
and for the deposited amount, no refund before the announced deadline.
Off-chain: the database may lag the chain but not run ahead of it; each payout
enters the ledger exactly once whatever crashes or overlaps; counters never
overcount; the cap on claims holds under concurrent claims; money goes to a
hunter who submitted, for a merge that happened; a merge is not forgotten; a
release that is begun settles, and no refund is advised meanwhile.
Around it: one key makes one bounty and one answer; a login nonce starts one
session; the two documents of an account link agree; the newest hook of a
repository is heard and the repository stays its owner's; two indexers overlap only
when one has overrun its lease, and scanning never stops for good.

**What is hard.**  Every handler is a chain of awaits on documents it loaded
earlier, and `doc.save()` writes back over whatever happened meanwhile.  The
release is detached from the request, so a crash loses it.  GitHub redelivers,
transactions are mined late or revert, two indexers may overlap, and the
reconciler works through a list it read before its first release.  Each such
point is a hazard in `PROJECT.json`, at its line, with the properties that
watch it.

## Modules

| Module | Models |
|---|---|
| `EscrowPromise` | The abstract contract: fund once, then settle at most once. No money, accounts or time. |
| `BountyEscrow` | The contract as written: every `require`, `uint96`/`uint64` widths, USDC, Ownable2Step with `renounceOwnership`, block time; the owner may name any address, the zero one included. Refines `EscrowPromise` (`KeepsPromise`). |
| `DevBountyStore` | What the backend's processes share, and the environment: wallets, the mempool, GitHub, crashes. Its chain is `EscrowPromise`. |
| `BountyRoutes`, `ClaimRoutes` | The requests of maintainers and hunters, and what the `GET` routes tell of a bounty (`Board`, `Shown`, `RefundEligible`). |
| `Settlement` | Webhook, manual release, `settleMergedClaim`, `attemptRelease`, `reconcileFailedReleases`. |
| `EventIndexer` | `tick`, `scanRange`, the handlers, the checkpoint. |
| `DevBounty` | All of them together, and the properties. |
| `IndexerLease` | `holdLease` and `runLoop`: clocks, renewals, overruns, crashes. |
| `IdempotentPosts` | `POST /bounties` and its Idempotency-Key. |
| `Accounts` | Login nonces and sessions, GitHub links. |
| `RepoHooks` | Installing and rotating a repository's hook, beside the requests of `Accounts` and in the same slots; which deliveries are accepted. |
| `MC...` | Small instances for TLC. |
| `..._proofs` | Theorems about the module of that name. |
| `DevBounty_payouts`, `DevBounty_convergence` | More theorems about `DevBounty`: who is paid and what is in the way of a refund; that a sole indexer catches up. |

These last components share no document with the workflow except what they are
there to provide (a posted bounty, a session, an accepted delivery, a single
scanner), so they are checked on their own.  `DevBounty` does not rely on them:
it assumes posted bounties and logged-in wallets, deliveries that may never
come, and any number of overlapping indexers.  `RepoHooks` does compose: an
install needs a session and a link of `Accounts`, shares its request slots, and
leaves its documents alone, so what is proved of `Accounts` holds of the whole
(`LoginsBesideHooks`).

**How code becomes actions.**  A contract call is one action.  A handler is cut
at its awaits: `proc[p]` says at which await the process `p` is suspended and
which locals it carries, and each action does one atomic read or write of one
document (or several reads, where a comment says why no interleaving is lost).
So `POST /:id/claim` is `ClaimRead`, `ClaimExpire`, `ClaimCheck`, `ClaimInsert`,
`ClaimRecount`, `ClaimRollback` or `ClaimSave`.  `save()` writes the fields the
handler changed (`SaveLifecycle`, `SaveMirror`), `updateOne` with a filter is
guarded by it, unique indexes are guards of the insert.  A slot of `Slots` is an
HTTP request and, after the response, the release job it detached.  `Abort` is a
crash of a process or a rejected await, at the awaits of `CutAt`: everywhere,
except in runs whose question needs less (below).  `Failures` says what goes
wrong outside: a call of a release rejects or its receipt does not come in time
(`rpc`), a broadcast `release()` of an open bounty reverts because the hot wallet
was replaced or the transfer refused meanwhile (`revert`), a merge names no
commit (`no-commit`), the mark of a delivery comes late or never (`mark`).  A
`release()` of a bounty that is not open fails in simulation, or reverts when it
is mined, in every run.

The reconciler reads its list once (`ReconcileList`), takes the bounties in
order (`ReconcileClaim`), and awaits each release before the next: the rest of
the list is a local of the process, stale by then, and a process that waits for
a receipt keeps it for afterwards (`Resume`).

**Abstractions.**
- Time is nondeterministic off-chain: a claim may be expired whenever it is
  looked at, the cooldown may or may not be over, a refund may be due or not.
- A log entry stands for a block; confirmations and the range limit of a tick
  become "any end"; confirmed blocks are final.
- `findOne` and `updateOne` pick any matching row.
- A pull request is also its merge commit and its webhook delivery; all are in
  the bounty's repository and on its default branch; `Refs` says which issues
  its text names.
- Amounts, names, languages, transaction hashes and audit entries are left out
  off-chain.  A signer and an escrow address are configured.
- Bounties are posted already (`PostedAt` is their order); `find().limit(5)`
  lists the first `ReconcileLimit` of them.
- Reads that change nothing are operators where a property is about them, and
  left out elsewhere.

In `IndexerLease` time is relative: what counts is how long the lease still has
to run and how long ago an instance read its clock.  Every instance may be ahead
or behind by up to `MaxSkew`, and between reading the clock and the end of the
iteration any time up to `MaxIteration` may pass.  In `IdempotentPosts` a
rejected await may or may not have written; `made` and `answered` remember, for
the life of a row, what was done and said for its key.  In `Accounts` a signed
message is its nonce and its wallet; a callback's `code` is the account behind
it; `disturbed` remembers the wallets and accounts that two link requests in
flight named at once, and the wallets whose request died between its two writes.  In `RepoHooks` every
hook has a key of its own, so its number stands for both; a verified HMAC is an
equal key; the 24 h window closes at any time; `newest`, `replaced` and `muddled`
remember what GitHub was last told, and whose installs overlapped or were cut.

## Runs

| Run | Instance | Shows |
|---|---|---|
| `escrow` | 2 bounties, 2 accounts and the zero address, 2-bit amounts and times, 2 windows | all contract properties and the refinement. The widths are small enough for `AmountTooLarge` and for a window that overflows. |
| `two_indexers` | 1 bounty, 1 hunter, 1 PR, 1 request slot, 2 indexers, all requests, all failures, crashes everywhere | `NeverAheadOfChain`, `RefundNotMidRelease`, `NoPayoutSkipped`, `LedgerExact`, `NeverDoubleCounts`. One request at a time beside two indexers is enough for every pair of writers of one document. |
| `one_indexer` | the same with 2 slots and 1 indexer, no `deposit-recorded` and no `manual-release` (it settles as the webhook does), rejected calls, crashes of the indexer that a replay repairs | `MirrorConverges`, `CountersConverge`, `NoneStranded`, and the liveness property `ReleaseSettles`. Two slots are a release job and a request that interferes; two attempts are one retry and the last one. |
| `competing_hunters` | 1 bounty, 2 hunters, 2 PRs, 2 rows, 2 slots, 1 indexer, rejected calls and so retries | `PaysASubmitter`, `RefundNotMidRelease` with another claim in the way |
| `claim_cap` | 2 bounties, 1 hunter, 2 slots, cap 1, crashes everywhere but at the recount and the roll-back | `CapHolds` |
| `indexer_lease` | 3 indexers, clocks one tick fast, right, one tick slow; lease 3, iterations up to 5 | `OverlapNeedsOverrun`, `ScanningGoesOn`. Iterations longer than the lease make overlaps happen; the bound is tight: one tick more and TLC finds it violated. |
| `idempotent_posts` | 1 key, 2 wallets, 2 requests at once, 2 bounties | the five promises of an Idempotency-Key below. Two wallets on one key string, and two requests of one wallet, are the collisions there are. |
| `accounts` | 2 wallets, 2 GitHub accounts, 2 nonces, 2 requests at once, 1 repository, 2 hooks | `OneSessionPerNonce`, `BindingAgrees`, `NewestHookHeard`, `OwnerKept`. Two hooks are an install and a rotation, by either wallet; longer chains are covered by the theorems, and repositories do not interact. |
| `first_merge_wins`, `wrong_hunter_paid`, `funded_cancelled`, `dropped_redelivery` | 1 bounty | counterexamples, see Findings. Crashes are allowed in `funded_cancelled`, anywhere, and in `dropped_redelivery`, before the stamp. |

Bounds: `ClaimIds`, `Slots`, `MaxTime` and `Supply` bound rows, concurrency,
block time and money.  `log` is bounded by itself (two events a bounty),
`releaseAttempts` by the reconciler's limit.  Symmetry is over slots, rows and
the escrow's ids; in `competing_hunters` also over the two hunters exchanged
together with their pull requests.  `MaxIteration` bounds how far an iteration
overruns, `Ids` and `Nonces` what is ever drawn.

What the keys promise: one key makes one bounty (`OneBountyPerKey`), all answers
name it (`RepliesAgree`), it is the caller's (`OwnRepliesOnly`), a reservation is
held by a request at work or was cut off (`ReservationsAreHeld`), and ends
(`ReservationsEnd`).  The first two except a bounty whose own request was
reported failed after it was created: the catch block gives the key back and a
repetition makes a second bounty (`bounties.ts:161-174`), which the code accepts.

Deadlock is checked for the lease and for the keys.  The contract may come to rest
(time stops at `MaxTime` and the owner may renounce), so may the workflow, and so may `Accounts` and `RepoHooks` when nonces and hooks are used up, so their
configurations switch it off.

**Fairness** is assumed for the three liveness properties only.
`ScanningGoesOn` needs that a live instance's loop runs on and that time passes
(weak fairness: `for (;;)` with calls that time out), and that MongoDB does not
reject one instance's upsert for ever although it would succeed again and again
(strong fairness of `TakeLease`).  Instances may crash at any time; the property
asks that one stays up.  `ReservationsEnd` needs that a handler answers,
rejects or dies, and that MongoDB's TTL monitor runs.

`ReleaseSettles` is checked under `FairSpec`: a handler that has begun goes on
(weak fairness of its next step: Node resumes it when its await resolves, and
every await resolves, rejects or times out, the wait for a receipt after viem's
default of three minutes), the indexer polls for ever (`for (;;)` with a catch,
`index.ts:130-153`), and crashes are over at some time.  Neither GitHub, the
maintainer nor the miners owe anything: a transaction may stay unmined, in which
case the wait times out.  Crashes are restricted to awaits whose work is taken
up again.  A crash between arming and the end of the release is not: finding 4
is what happens then, and with it `ReleaseSettles` is false; nor is one between
a ledger row and its recompute, which `CountersConverge` leaves out.
`ReleaseSettles` and `NoneStranded` assume two more things of the world that the
code does not check: that a `release()` of an open bounty does not revert once
it is sent, and that merges name their commit.  Add `revert` or `no-commit` to
the `Failures` of `one_indexer` and TLC finds a violation (see *Left in
releasing* below).  A stale save that writes over `releasing` ends the property's obligation; it is watched
by the safety properties.  All other properties are
safety.

Each property has a seeded fault, an operator `Fault...` beside the
definition it replaces: a plausible bug under which TLC finds the property
violated.  None is part of `Next`.

## Findings

1. **First merge does not win** (`claims.ts:22-23`).  Hunter 1 submits, hunter 2
   claims: the bounty is `claimed` again.  Hunter 1's merge arrives,
   `settleMergedClaim` requires `submitted`, nothing happens and the delivery is
   marked processed.
2. **The wrong hunter is paid** (`webhooks.ts:127-133`).  With two submitted
   claims the merge commit is stamped on either (`settleMerge.ts:114-117`).  The
   release fails once, and the reconciler pays the hunter of the stamped row.
3. **A funded bounty is cancelled** (`bounties.ts:472-476`).  The deposit lands
   between the chain read and the save.
4. **A redelivery is dropped** (`webhookDelivery.model.ts:3-6`).  A crash after
   the bounty became `releasing` and before the stamp leaves the delivery
   unprocessed.  Its redelivery matches nothing (`settleMerge.ts:112`) and is
   marked processed: no release is sent, and the reconciler only looks at
   `release_failed`.

Also seen with TLC while choosing the instances, and kept as hazards with notes:
a deposit save delayed past the bounty's end rewinds `paid` to `open`; two
overlapping indexers can rewind `onChainStatus`, against `index.ts:82-83`
(`MirrorConverges` excepts both); a crash between insert and
recount leaves a wallet above the cap; a crash between ledger insert and
recompute leaves the counters stale; a receipt timeout can put
`release_failed` over `paid`, and the release is then sent a second time and
refused by the contract; two callbacks for one GitHub account at once leave both
wallets with it, since `hunter.githubUserId` is not unique; a link request that
dies between its two writes leaves the documents out of step; a stale submission
mark over `release_failed` takes the bounty off the reconciler's list, and over
`releasing` lets it be armed again, so that it can fail more often than
`MAX_RELEASE_ATTEMPTS`; so it can when two indexers overlap, since the attempts
are read with the list (`settleMerge.ts:70-73`) and not again at the arming; the roll-back of a claim over the cap deletes a row that
was submitted and is being paid (`claims.ts:106`), and a refund is advised
meanwhile; overlapping installs give a repository to another wallet or save an
older hook over a newer one.

*Left in releasing.*  `waitForTransactionReceipt` returns for a reverted
transaction too (`payout.ts:91-93`).  If the hot wallet is replaced between the
simulation and the mining, or the transfer fails then, the bounty is still open,
the job ends as if it had paid, and nobody moves the bounty out of `releasing`.
Nor does anybody when GitHub names no merge commit: the bounty is armed, and
neither stamped nor released (`settleMerge.ts:114-122`).  A crash of the server
while it sends does the same (finding 4 is the case where a delivery is left).

*Starvation.*  `release_failed` written over `paid` leaves a bounty whose claim
is no longer `submitted`.  The reconciler lists it and skips it without counting
an attempt (`settleMerge.ts:77-78`), for ever.  The list is the first five
(`settleMerge.ts:68-75`), so five such bounties keep every other failed release
from being retried.  TLC finds it with a limit of one and two bounties;
the runs have one bounty and cannot meet it.

*The grace window is never used.*  `repos.ts:55-56` keeps the old key "so
deliveries already signed with it still verify during the window".  Such a
delivery carries the old hook's number, the row now names the new hook, and the
lookup comes before the verification (`webhooks.ts:55-62`): it is answered 404.
TLC finds it as soon as a key is rotated.  Merges are still heard, since GitHub
keeps both hooks and delivers to the new one as well: that is `NewestHookHeard`.

`index.ts:41-45` says the lease enforces "exactly one indexer".  It enforces
`OverlapNeedsOverrun`, which is less: an iteration that waits for receipts may
outlive its lease.  The workflow's theorems therefore allow overlapping indexers.

## Proofs

`tlapm` checks all proof modules; nothing is assumed but the constants'
assumptions: `EscrowAssumption` (among others, a finite set of ids),
`StoreAssumption` (who authored which pull request, disjoint slots and indexers,
a finite set of rows, `Nil` fresh), `LeaseAssumption` (clocks are within
`MaxSkew`), `PostsAssumption`, `AccountsAssumption` and `HooksAssumption` (`Nil`
is fresh).  Every safety property of a passing run is a theorem.  Four of them
have a hypothesis about the behaviour, because they are false without it; it is
part of the theorem's statement, and discussed below.

**The contract** (`BountyEscrow_proofs`): `TypeCorrect`, `PaysOnce`,
`NothingDiverted`, `HunterHasTheWindow`, `CoversDeposits`, and `ImplementsPromise`,
the refinement of `EscrowPromise`.  The last is what lets the backend's modules use
`EscrowPromise` as their chain.  The inductive invariant relates storage to the
log: every creation in the log is the record storage keeps (who paid, how much,
when, and for which window), an id without a record was never mentioned, and a
settlement in the log means that the record is no longer open.
`CoversDeposits` is about a sum over the ids.  A sum is a function here, on the
subsets of the ids (`IsSum`); that it exists, is unique, and changes by a deposit
when one record does, needs induction over a finite set.  The library's induction
theorem takes an operator and cannot be used, so it is replaced by a least
counterexample: the sets without the wanted fact, ordered by cardinality, have a
least one (`LeastSet`, from the well-foundedness of the naturals).

**The backend** (`DevBounty_proofs`, `DevBounty_payouts`,
`DevBounty_convergence`), for any number of bounties, hunters, pull requests,
requests and indexers, with or without crashes:

| Theorem | Property | Provided that |
|---|---|---|
| `TypeCorrect` | `TypeOK` | |
| `OffChainFollows` | `NeverAheadOfChain` | |
| `CountedOnce` | `LedgerExact` | |
| `NothingSkipped` | `NoPayoutSkipped` | |
| `NeverDoubleCounted` | `NeverDoubleCounts` | |
| `PaidForWork` | `PaysASubmitter` | |
| `NoRefundMidRelease` | `RefundNotMidRelease` | |
| `CapNeverExceeded` | `CapHolds` | no claim is cut between its insert and the end of its recount (`RecountsFinish`) |
| `NoReleaseLost` | `NoneStranded` | no release job is cut, no release of an open bounty reverts once sent, merges name their commit (`JobsFinish`) |
| `MirrorIsRight` | `MirrorConverges` | one indexer (`OneIndexer`), no deposit saved over a bounty's end (`NoLateDeposits`) |
| `CountersAreRight` | `CountersConverge` | one indexer, which is not cut between a ledger row and its recompute (`RecomputesFinish`) |

`NeverAheadOfChain` is not inductive: a handler that resumes writes what it
decided many steps ago.  `IInv` adds why that is still right.  A handler
suspended at an await has locals that justify its next write (`LocalsSound`:
the bounty was funded, the row exists, the pull request was merged), rows in
use belong to funded bounties (`RowsSound`), the log agrees with the contract's
storage (`LogTruthful`), and an indexer inside a handler is at an unread event
of that kind (`ScanSound`).  All of it survives other processes' steps because
the chain only advances (`ChainGrows`), rows keep their identity (`RowKept`)
and merges are not undone.  The proof therefore has one lemma per document,
saying what the writers of it may write (`BountyMoves`, `ClaimMoves`,
`WorldMoves`, `ProcMoves`, `IndexMoves`), and one on what survives
(`LocalsStaySound`).  The ledger theorems add that whatever a cursor has passed
is entered (`Passed`) and that no recompute in flight holds a count above the
ledger (`CountsSound`).  

*Payouts.*  Between a submission and the payout the row may be submitted again,
paid, or deleted by the cap's roll-back, and the release outlives the request
that began it.  `WorkBehind` follows the submission: a row that was submitted
never becomes active, expired or released again (`RowsAdvance`), and every job at
work on a release, every transaction that can still be mined and every payout has
such a row of that hunter and bounty behind it, and a merged commit.  For the refund
advice this means that the row is still `submitted` or `paid` and in the way, or
was deleted, which the property excepts.

*The cap.*  The insert comes before the count, so `CapHolds` leaves out the rows
whose request has the recount or the roll-back still to do.  A row stops being
left out when its request's count, which includes it, is within the cap, or when
it is deleted; that the row recounted belongs to the hunter counted (`OwnRows`)
is what makes this inductive (`Capped`).  A crash in between leaves an uncounted
row without a request: `RecountsFinish` says that this does not happen, and TLC
finds the cap exceeded otherwise.

*Releases on their way.*  A stale save may leave two jobs at one bounty, so
`NoneStranded` asks for something that can still move it, not for the job that
armed it.  `WaitSound` makes it inductive: who waits for a receipt has a
transaction that can still be mined, or the bounty is settled.  Only an arming
makes a bounty `releasing` (`ReleasingIsArmed`), a transaction leaves the pool by
being mined (`PoolKeeps`), and a job on its way moves only by its own steps
(`JobFrame`): it stamps, sends, waits, reports a failure, or learns that the
transaction is gone, which by then has settled the bounty.  `JobsFinish` excludes
the three steps that do otherwise (`JobLost`).

*Convergence.*  `MirrorInv`: for a bounty with no event beyond the cursor the
mirror shows the contract's status, which is what its last event tells.  A
replay after a crash first rewinds the mirror, to what an older event told, but
then the cursor is before the bounty's later events as well.  `CountInv` says the
same of counters: up to the cursor the profile shows the ledger, and between a
ledger row and the end of its recompute the indexer is about to repair it.  At the end
of the log, ledger and payouts are in bijection (`LedgerShowsPayouts`), hence
equally many.  Each hypothesis excludes one step of the code that falsifies the
property, listed above as a hazard: an overlapping indexer with an old event, the
save of `deposit-recorded` that comes after `Paid` or `Refunded` was mirrored, and
the crash that leaves a ledgered payout uncounted because the replay meets the
duplicate key.

**The lease** (`IndexerLease_proofs`): `LeaseExcludes`, for any number of
instances, clocks and lease time.  The invariant behind it (`LeaseHeld`): an
instance that scans and has not overrun still owns the lease, and the lease has
as much time left as it was taken for.  Whoever else finds it lapsed has at most
two skews of difference with the owner.

**The keys** (`IdempotentPosts_proofs`): `ActsOnce`, `RepliesAreOne`,
`RepliesAreOwn` and `NoneForgotten`, for any number of keys, wallets and
requests.  One request at a time holds a row (`HoldersSound`); a bounty made for
a key is named in its row or about to be (`MadeSound`); rows and answers only
name bounties made for the caller (`NamesSound`).

**Login and links** (`Accounts_proofs`): `NonceSpentOnce` and `LinksAgree`.  A
nonce is unused, or used by exactly one request, or used up (`SpentOnce`).  For a
wallet and an account that no two requests named at once, the invariant behind
`LinksAgree` says that at most one request is at work on them (`Alone`), that no
wallet has two grants (`OneGrant`), that the grant a callback found is still
as it was found (`FoundStands`), and that between its two writes a request has
done the first as it will do the second (`HalfDone`).

**Hooks** (`RepoHooks_proofs`): `NewestHeard` and `OwnerStays`, for any number of
repositories, wallets, hooks and requests.  What a document says is not enough:
an install decides on a document it read two awaits ago.  The invariant says
that while installs of a repository come one at a time (`OneAtATime`) what was
read still stands when it is written (`ReadStands`), and that the document lags
GitHub by at most the install about to save (`DocumentSound`).
`LoginsBesideHooks`: what is proved of logins and links holds beside installs.

**Only model-checked.**  `ScanningGoesOn`, `ReservationsEnd` and
`ReleaseSettles`: liveness under fairness, which needs ENABLED and is out of the
prover's reach.  The findings are counterexamples of TLC's.

## Not modelled

Signature recovery, JWTs, token encryption, HTTP to GitHub,
`express-rate-limit`, Sentry, logging, the audit log and configuration:
cryptography, libraries or best-effort output no decision depends on.  Health
checks and profiles only read. The leaderboard's cache is of no consequence to
anything else: two misses at once may store the older table last, and it is
replaced after 30 seconds. Deliveries that are no merge write nothing but their
own row.  The test contracts and `deploy.js` are not part of the running system.

## Plan

1. The starvation of the reconciler's list, as a run with two bounties.
2. A submission is not lost: what the stale saves of one hunter's two requests
   may undo, and what the roll-back over the cap takes away.
3. Proofs: the half of `MirrorConverges` that holds with overlapping indexers.

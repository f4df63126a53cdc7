---------------------------- MODULE BountyEscrow -----------------------------
(***************************************************************************)
(* contracts/contracts/BountyEscrow.sol: the escrow that holds the USDC.    *)
(*                                                                         *)
(* A transaction is one atomic action (nonReentrant, and USDC calls nobody  *)
(* back); a revert leaves no trace, so every revert condition is a guard.   *)
(* The USDC token and OpenZeppelin's Ownable2Step live outside src/ and are *)
(* modelled from how the contract uses them.                                *)
(***************************************************************************)
EXTENDS Integers, Sequences, FiniteSetsExt

CONSTANTS
  Ids,          \* bounty ids
  Accounts,     \* addresses that send transactions
  Escrow,       \* the contract's own address
  Shas,         \* merge commits
  Nil,          \* the zero address / zero commit
  Amounts,      \* amounts offered to create()
  Windows,      \* windows offered to setDefaultRefundWindow()
  Supply,       \* USDC each account starts with
  MaxUint96, MaxUint64,
  MaxTime       \* bound: last block timestamp explored

ASSUME EscrowAssumption ==
  /\ Escrow \notin Accounts
  /\ Nil \notin Accounts \cup {Escrow} \cup Shas
  /\ IsFiniteSet(Ids)
  /\ Amounts \subseteq Nat
  /\ MaxUint96 \in Nat /\ MaxUint64 \in Nat /\ Supply \in Nat
  /\ MaxTime \in 0 .. MaxUint64
  /\ Windows \subseteq 0 .. MaxUint64 /\ Windows # {}

VARIABLES
  bounties,             \* mapping(bytes32 => Bounty)
  authorizedCaller,     \* the backend hot wallet
  defaultRefundWindow,
  owner, pendingOwner,  \* Ownable2Step
  balance,              \* USDC balances
  now,                  \* block.timestamp
  log                   \* emitted events, each with its block's timestamp

control == <<authorizedCaller, defaultRefundWindow, owner, pendingOwner>>
vars    == <<bounties, control, balance, now, log>>

Status == {"None", "Open", "Paid", "Refunded"}
Holders == Accounts \cup {Escrow}
Addresses == Holders \cup {Nil}
Uint64 == 0 .. MaxUint64
Uint96 == 0 .. MaxUint96

Bounty == [maintainer : Accounts \cup {Nil}, amount : Uint96,
           createdAt : Uint64, refundWindow : Uint64, status : Status]

(* an event with the recipient of the USDC transfer its transaction made:   *)
(* `to` is the hunter or the refunded maintainer, and the depositor of a    *)
(* BountyCreated                                                           *)
Event == [kind : {"BountyCreated", "BountyReleased", "BountyRefunded"},
          id : Ids, to : Holders, amount : Uint96, refundWindow : Uint64,
          sha : Shas \cup {Nil}, at : Uint64]

NoBounty == [maintainer |-> Nil, amount |-> 0, createdAt |-> 0,
             refundWindow |-> 0, status |-> "None"]

Init ==
  /\ bounties = [id \in Ids |-> NoBounty]
  /\ authorizedCaller \in Addresses
  /\ defaultRefundWindow \in Windows
  /\ owner \in Accounts
  /\ pendingOwner = Nil
  /\ balance = [a \in Holders |-> IF a = Escrow THEN 0 ELSE Supply]
  /\ now = 0
  /\ log = << >>

(* USDC: moves `amount` or reverts.  The allowance a transferFrom needs is  *)
(* the depositor's own choice, like making the call at all.                 *)
Transfer(from, to, amount) ==
  /\ balance[from] >= amount
  /\ balance' = IF from = to THEN balance
                ELSE [balance EXCEPT ![from] = @ - amount, ![to] = @ + amount]

Emit(kind, id, to, amount, window, sha) ==
  log' = Append(log, [kind |-> kind, id |-> id, to |-> to, amount |-> amount,
                      refundWindow |-> window, sha |-> sha, at |-> now])

(* seeded fault: create() without the AmountTooLarge check *)
FaultNoWidthCheck(id, amount) ==
  /\ amount # 0
  /\ bounties[id].status = "None"

(* seeded fault: create() without the BountyExists check *)
FaultRecreate(id, amount) ==
  /\ amount # 0
  /\ amount <= MaxUint96

CanCreate(id, amount) ==
  /\ amount # 0
  /\ amount <= MaxUint96
  /\ bounties[id].status = "None"

Create(sender, id, amount) ==
  /\ CanCreate(id, amount)
  /\ bounties' = [bounties EXCEPT ![id] =
       [maintainer |-> sender, amount |-> amount, createdAt |-> now,
        refundWindow |-> defaultRefundWindow, status |-> "Open"]]
  /\ Transfer(sender, Escrow, amount)
  /\ Emit("BountyCreated", id, sender, amount, defaultRefundWindow, Nil)
  /\ UNCHANGED <<control, now>>

(* seeded fault: the storage write after the transfer is forgotten *)
FaultStatusKept(id, outcome) == bounties

(* the one write release() and refund() make to storage *)
Settled(id, outcome) == [bounties EXCEPT ![id].status = outcome]

(* seeded fault: release() only refuses a bounty that was already paid *)
FaultReleaseRefunded(sender, id, hunter, sha) ==
  /\ sender = authorizedCaller
  /\ bounties[id].status \in {"Open", "Refunded"}
  /\ bounties' = Settled(id, "Paid")
  /\ Transfer(Escrow, hunter, bounties[id].amount)
  /\ Emit("BountyReleased", id, hunter, bounties[id].amount, 0, sha)
  /\ UNCHANGED <<control, now>>

Release(sender, id, hunter, sha) ==
  /\ sender = authorizedCaller
  /\ bounties[id].status = "Open"
  /\ bounties' = Settled(id, "Paid")
  /\ Transfer(Escrow, hunter, bounties[id].amount)
  /\ Emit("BountyReleased", id, hunter, bounties[id].amount, 0, sha)
  /\ UNCHANGED <<control, now>>

(* seeded fault: the deadline is computed with wrap-around *)
FaultWrappingDeadline(b) ==
  now >= (b.createdAt + b.refundWindow) % (MaxUint64 + 1)

(* uint64 addition in Solidity 0.8 reverts on overflow *)
WindowElapsed(b) ==
  /\ b.createdAt + b.refundWindow <= MaxUint64
  /\ now >= b.createdAt + b.refundWindow

(* seeded fault: anyone may refund, and the caller is the one repaid *)
FaultRefundToCaller(sender, id) ==
  LET b == bounties[id] IN
  /\ b.status = "Open"
  /\ WindowElapsed(b)
  /\ bounties' = Settled(id, "Refunded")
  /\ Transfer(Escrow, sender, b.amount)
  /\ Emit("BountyRefunded", id, sender, b.amount, 0, Nil)
  /\ UNCHANGED <<control, now>>

Refund(sender, id) ==
  LET b == bounties[id] IN
  /\ b.maintainer = sender
  /\ b.status = "Open"
  /\ WindowElapsed(b)
  /\ bounties' = Settled(id, "Refunded")
  /\ Transfer(Escrow, b.maintainer, b.amount)
  /\ Emit("BountyRefunded", id, b.maintainer, b.amount, 0, Nil)
  /\ UNCHANGED <<control, now>>

SetAuthorizedCaller(sender, newCaller) ==
  /\ sender = owner
  /\ authorizedCaller' = newCaller
  /\ UNCHANGED <<bounties, defaultRefundWindow, owner, pendingOwner, balance, now, log>>

SetDefaultRefundWindow(sender, newWindow) ==
  /\ sender = owner
  /\ defaultRefundWindow' = newWindow
  /\ UNCHANGED <<bounties, authorizedCaller, owner, pendingOwner, balance, now, log>>

TransferOwnership(sender, newOwner) ==
  /\ sender = owner
  /\ pendingOwner' = newOwner
  /\ UNCHANGED <<bounties, authorizedCaller, defaultRefundWindow, owner, balance, now, log>>

AcceptOwnership(sender) ==
  /\ sender = pendingOwner
  /\ owner' = sender
  /\ pendingOwner' = Nil
  /\ UNCHANGED <<bounties, authorizedCaller, defaultRefundWindow, balance, now, log>>

(* inherited from Ownable; a pending transfer is forgotten                  *)
RenounceOwnership(sender) ==
  /\ sender = owner
  /\ owner' = Nil
  /\ pendingOwner' = Nil
  /\ UNCHANGED <<bounties, authorizedCaller, defaultRefundWindow, balance, now, log>>

Tick ==
  /\ now < MaxTime
  /\ now' = now + 1
  /\ UNCHANGED <<bounties, control, balance, log>>

Next ==
  \/ \E sender \in Accounts, id \in Ids :
       \/ \E amount \in Amounts : Create(sender, id, amount)
       \/ \E hunter \in Holders, sha \in Shas : Release(sender, id, hunter, sha)
       \/ Refund(sender, id)
  \/ \E sender \in Accounts :
       \/ \E new \in Addresses : SetAuthorizedCaller(sender, new)
       \/ \E new \in Windows : SetDefaultRefundWindow(sender, new)
       \/ \E new \in Addresses : TransferOwnership(sender, new)
       \/ AcceptOwnership(sender)
       \/ RenounceOwnership(sender)
  \/ Tick

Spec == Init /\ [][Next]_vars

-----------------------------------------------------------------------------
(* Properties *)

(* Every storage field keeps its Solidity width and every balance stays     *)
(* non-negative, whatever sequence of transactions runs.                    *)
TypeOK ==
  /\ bounties \in [Ids -> Bounty]
  /\ authorizedCaller \in Addresses
  /\ defaultRefundWindow \in Uint64
  /\ owner \in Accounts \cup {Nil}
  /\ pendingOwner \in Addresses
  /\ balance \in [Holders -> Nat]
  /\ now \in Uint64
  /\ log \in Seq(Event)

(* The USDC still owed to a bounty's hunter or maintainer. *)
Owed(id) == IF bounties[id].status = "Open" THEN bounties[id].amount ELSE 0

(* The contract always holds at least the USDC of every open bounty, so     *)
(* neither release() nor refund() of one bounty can spend the deposit of    *)
(* another (BountyEscrow.sol:82-121).                                      *)
Solvent == balance[Escrow] >= MapThenSumSet(Owed, Ids)

(* The log tells a bounty's whole life: of two events of one bounty the     *)
(* earlier is its creation and the later its only settlement.  So no bounty *)
(* is created twice, paid twice, or both paid and refunded.                 *)
SettledAtMostOnce ==
  \A i, j \in 1 .. Len(log) :
    i < j /\ log[i].id = log[j].id =>
      log[i].kind = "BountyCreated" /\ log[j].kind # "BountyCreated"

(* Whatever leaves the escrow for a bounty is exactly what its maintainer   *)
(* put in, and a refund goes back to whoever paid the deposit.              *)
SettlesTheDeposit ==
  \A j \in 1 .. Len(log) : log[j].kind # "BountyCreated" =>
    \E i \in 1 .. (j - 1) :
      /\ log[i].kind = "BountyCreated"
      /\ log[i].id = log[j].id
      /\ log[i].amount = log[j].amount
      /\ log[j].kind = "BountyRefunded" => log[j].to = log[i].to

(* A refund never happens before the deadline announced when the bounty was *)
(* created, whatever the owner does to defaultRefundWindow afterwards and   *)
(* however large the window is ("a later owner change cannot move the       *)
(* deadline of an existing bounty", BountyEscrow.sol:80-81).                *)
RefundNotEarly ==
  \A i, j \in 1 .. Len(log) :
    /\ i < j
    /\ log[i].id = log[j].id
    /\ log[j].kind = "BountyRefunded"
    => log[j].at >= log[i].at + log[i].refundWindow

(* Storage and log agree: every creation in the log is the record kept for  *)
(* its id, an id without a record was never mentioned, and a settlement in  *)
(* the log means the record is no longer open.                              *)
LogMatchesStorage ==
  /\ \A i \in 1 .. Len(log) :
       LET b == bounties[log[i].id] IN
       /\ b.status # "None"
       /\ log[i].kind = "BountyCreated" =>
            /\ b.maintainer = log[i].to
            /\ b.amount = log[i].amount
            /\ b.createdAt = log[i].at
            /\ b.refundWindow = log[i].refundWindow
       /\ log[i].kind # "BountyCreated" => b.status \in {"Paid", "Refunded"}
  /\ \A id \in Ids : bounties[id].status # "None" =>
       \E i \in 1 .. Len(log) : log[i].id = id /\ log[i].kind = "BountyCreated"

(* The inductive invariant of the safety proofs. *)
LedgerInv ==
  /\ LogMatchesStorage
  /\ SettledAtMostOnce
  /\ SettlesTheDeposit
  /\ RefundNotEarly

-----------------------------------------------------------------------------
(* Refinement of EscrowPromise *)

Announce(e) ==
  [kind |-> e.kind, id |-> e.id,
   to   |-> IF e.kind = "BountyReleased" THEN e.to ELSE Nil,
   sha  |-> e.sha]

StatusView == [id \in Ids |-> bounties[id].status]
LogView    == [i \in 1 .. Len(log) |-> Announce(log[i])]

Promise == INSTANCE EscrowPromise WITH
  Payees <- Holders, status <- StatusView, log <- LogView

(* The contract implements the promise the off-chain code relies on: one    *)
(* funding and at most one settlement per id, each with its event.          *)
KeepsPromise == Promise!Spec
=============================================================================

---------------------------- MODULE EscrowPromise ----------------------------
(***************************************************************************)
(* What the escrow contract promises the rest of the system, without money, *)
(* accounts or time: a bounty is funded once, and once funded it is settled *)
(* at most once, either by a payout to a hunter or by a refund.             *)
(*                                                                         *)
(* BountyEscrow (the contract as written) is shown to implement this        *)
(* module; the off-chain modules take this module as their chain.           *)
(***************************************************************************)
EXTENDS Sequences

CONSTANTS
  Ids,      \* bounty ids (bytes32)
  Payees,   \* addresses a release may name as the hunter
  Shas,     \* merge commits a release may name
  Nil       \* "no address", "no commit"

VARIABLES
  status,   \* [Ids -> Statuses], bounties[id].status
  log       \* the events emitted so far, oldest first

vars == <<status, log>>

Statuses == {"None", "Open", "Paid", "Refunded"}

Event == [kind : {"BountyCreated", "BountyRefunded"}, id : Ids,
          to : {Nil}, sha : {Nil}]
         \cup
         [kind : {"BountyReleased"}, id : Ids, to : Payees, sha : Shas]

Created(id)       == [kind |-> "BountyCreated", id |-> id, to |-> Nil, sha |-> Nil]
Released(id, h, c) == [kind |-> "BountyReleased", id |-> id, to |-> h, sha |-> c]
Refunded(id)      == [kind |-> "BountyRefunded", id |-> id, to |-> Nil, sha |-> Nil]

Init ==
  /\ status = [id \in Ids |-> "None"]
  /\ log = << >>

Move(id, from, to, event) ==
  /\ status[id] = from
  /\ status' = [status EXCEPT ![id] = to]
  /\ log' = Append(log, event)

Fund(id)         == Move(id, "None", "Open", Created(id))
PayOut(id, h, c) == Move(id, "Open", "Paid", Released(id, h, c))
GiveBack(id)     == Move(id, "Open", "Refunded", Refunded(id))

Next ==
  \E id \in Ids :
    \/ Fund(id)
    \/ \E h \in Payees, c \in Shas : PayOut(id, h, c)
    \/ GiveBack(id)

Spec == Init /\ [][Next]_vars
=============================================================================

------------------------- MODULE BountyEscrow_proofs -------------------------
(***************************************************************************)
(* Proofs about the escrow contract, for every set of bounties, accounts,   *)
(* amounts and windows and for every integer width.                         *)
(***************************************************************************)
EXTENDS BountyEscrow, SequenceTheorems, FiniteSetTheorems, WellFoundedInduction, TLAPS

(* Storage fields keep their widths, along every behaviour of the contract. *)
LEMMA InitTypeOK == Init => TypeOK
<1> SUFFICES ASSUME Init PROVE TypeOK
  OBVIOUS
<1> USE EscrowAssumption DEF Init, TypeOK
<1>1. NoBounty \in Bounty
  BY DEF NoBounty, Bounty, Uint96, Uint64, Status
<1>2. bounties \in [Ids -> Bounty]
  BY <1>1
<1>3. balance \in [Holders -> Nat]
  BY DEF Holders
<1>4. now \in Uint64 /\ defaultRefundWindow \in Uint64
  BY DEF Uint64
<1>5. log \in Seq(Event)
  BY EmptySeq
<1> QED
  BY <1>2, <1>3, <1>4, <1>5 DEF Addresses

(* A USDC transfer keeps every balance a natural number. *)
LEMMA TransferType ==
  ASSUME TypeOK, NEW from \in Holders, NEW to \in Holders,
         NEW amount \in Nat, Transfer(from, to, amount)
  PROVE  balance' \in [Holders -> Nat]
BY DEF TypeOK, Transfer

(* Emitting an event appends it and leaves the earlier ones in place. *)
LEMMA EmitAppends ==
  ASSUME TypeOK, NEW kind \in {"BountyCreated", "BountyReleased", "BountyRefunded"},
         NEW id \in Ids, NEW to \in Holders, NEW amount \in Uint96,
         NEW window \in Uint64, NEW sha \in Shas \cup {Nil},
         Emit(kind, id, to, amount, window, sha)
  PROVE  /\ log' \in Seq(Event)
         /\ Len(log') = Len(log) + 1
         /\ \A i \in 1 .. Len(log) : log'[i] = log[i]
         /\ log'[Len(log) + 1] =
              [kind |-> kind, id |-> id, to |-> to, amount |-> amount,
               refundWindow |-> window, sha |-> sha, at |-> now]
<1> DEFINE e == [kind |-> kind, id |-> id, to |-> to, amount |-> amount,
                 refundWindow |-> window, sha |-> sha, at |-> now]
<1>1. e \in Event
  BY DEF Event, TypeOK
<1>2. log \in Seq(Event) /\ log' = Append(log, e)
  BY DEF TypeOK, Emit
<1> HIDE DEF e
<1>3. /\ Append(log, e) \in Seq(Event)
      /\ Len(Append(log, e)) = Len(log) + 1
      /\ \A i \in 1 .. Len(log) : Append(log, e)[i] = log[i]
      /\ Append(log, e)[Len(log) + 1] = e
  BY <1>1, <1>2, AppendProperties
<1> QED
  BY <1>2, <1>3 DEF e

(* A create() keeps the types. *)
LEMMA CreateTypeOK ==
  ASSUME TypeOK, NEW sender \in Accounts, NEW id \in Ids, NEW amount \in Amounts,
         Create(sender, id, amount)
  PROVE  TypeOK'
<1> USE EscrowAssumption
<1>1. amount \in Uint96 /\ amount \in Nat /\ sender \in Holders /\ Escrow \in Holders
  BY DEF Create, CanCreate, Uint96, Holders
<1>2. bounties' \in [Ids -> Bounty]
  BY <1>1 DEF Create, TypeOK, Bounty, Status
<1>3. balance' \in [Holders -> Nat]
  BY <1>1, TransferType DEF Create
<1>4. log' \in Seq(Event)
  BY <1>1, EmitAppends DEF Create, TypeOK
<1> QED
  BY <1>2, <1>3, <1>4 DEF Create, TypeOK, control

(* So does a release(). *)
LEMMA ReleaseTypeOK ==
  ASSUME TypeOK, NEW sender \in Accounts, NEW id \in Ids, NEW hunter \in Holders,
         NEW sha \in Shas, Release(sender, id, hunter, sha)
  PROVE  TypeOK'
<1> USE EscrowAssumption
<1>1. bounties[id].amount \in Uint96 /\ bounties[id].amount \in Nat /\ Escrow \in Holders
  BY DEF TypeOK, Bounty, Uint96, Holders
<1>2. bounties' \in [Ids -> Bounty]
  BY DEF Release, Settled, TypeOK, Bounty, Status
<1>3. balance' \in [Holders -> Nat]
  BY <1>1, TransferType DEF Release
<1>4. 0 \in Uint64
  BY DEF Uint64
<1>5. log' \in Seq(Event)
  BY <1>1, <1>4, EmitAppends DEF Release
<1> QED
  BY <1>2, <1>3, <1>5 DEF Release, TypeOK, control

(* And a refund(). *)
LEMMA RefundTypeOK ==
  ASSUME TypeOK, NEW sender \in Accounts, NEW id \in Ids, Refund(sender, id)
  PROVE  TypeOK'
<1> USE EscrowAssumption
<1>1. bounties[id].amount \in Uint96 /\ bounties[id].amount \in Nat /\ Escrow \in Holders
  BY DEF TypeOK, Bounty, Uint96, Holders
<1>2. bounties[id].maintainer = sender /\ sender \in Holders
  BY DEF Refund, Holders
<1>3. bounties' \in [Ids -> Bounty]
  BY DEF Refund, Settled, TypeOK, Bounty, Status
<1>4. balance' \in [Holders -> Nat]
  BY <1>1, <1>2, TransferType DEF Refund
<1>5. 0 \in Uint64
  BY DEF Uint64
<1>6. log' \in Seq(Event)
  BY <1>1, <1>2, <1>5, EmitAppends DEF Refund
<1> QED
  BY <1>3, <1>4, <1>6 DEF Refund, TypeOK, control

LEMMA NextTypeOK == TypeOK /\ [Next]_vars => TypeOK'
<1> SUFFICES ASSUME TypeOK, [Next]_vars PROVE TypeOK'
  OBVIOUS
<1> USE EscrowAssumption
<1>1. ASSUME NEW sender \in Accounts, NEW id \in Ids, NEW amount \in Amounts,
             Create(sender, id, amount)
      PROVE  TypeOK'
  BY <1>1, CreateTypeOK
<1>2. ASSUME NEW sender \in Accounts, NEW id \in Ids, NEW hunter \in Holders,
             NEW sha \in Shas, Release(sender, id, hunter, sha)
      PROVE  TypeOK'
  BY <1>2, ReleaseTypeOK
<1>3. ASSUME NEW sender \in Accounts, NEW id \in Ids, Refund(sender, id)
      PROVE  TypeOK'
  BY <1>3, RefundTypeOK
<1>4. ASSUME NEW sender \in Accounts, NEW new \in Addresses,
             SetAuthorizedCaller(sender, new)
      PROVE  TypeOK'
  BY <1>4 DEF SetAuthorizedCaller, TypeOK
<1>5. ASSUME NEW sender \in Accounts, NEW new \in Windows,
             SetDefaultRefundWindow(sender, new)
      PROVE  TypeOK'
  BY <1>5 DEF SetDefaultRefundWindow, TypeOK, Uint64
<1>6. ASSUME NEW sender \in Accounts, NEW new \in Addresses,
             TransferOwnership(sender, new)
      PROVE  TypeOK'
  BY <1>6 DEF TransferOwnership, TypeOK
<1>7. ASSUME NEW sender \in Accounts, AcceptOwnership(sender) \/ RenounceOwnership(sender)
      PROVE  TypeOK'
  BY <1>7 DEF AcceptOwnership, RenounceOwnership, TypeOK, Addresses, Holders
<1>8. CASE Tick
  <2>1. now' \in Uint64
    BY <1>8 DEF Tick, TypeOK, Uint64
  <2> QED
    BY <1>8, <2>1 DEF Tick, TypeOK, control
<1>9. CASE UNCHANGED vars
  BY <1>9 DEF vars, control, TypeOK
<1> QED
  BY <1>1, <1>2, <1>3, <1>4, <1>5, <1>6, <1>7, <1>8, <1>9 DEF Next

(* Every reachable state is well typed (TypeOK): amounts and timestamps fit *)
(* uint96 and uint64, and no account goes below zero.                       *)
THEOREM TypeCorrect == Spec => []TypeOK
<1>1. Init => TypeOK
  BY InitTypeOK
<1>2. TypeOK /\ [Next]_vars => TypeOK'
  BY NextTypeOK
<1> QED
  BY <1>1, <1>2, PTL DEF Spec

-----------------------------------------------------------------------------
(* `e` is the only event this step adds to the log. *)
Adds(e) ==
  /\ Len(log') = Len(log) + 1
  /\ \A i \in 1 .. Len(log) : log'[i] = log[i]
  /\ log'[Len(log) + 1] = e

LEMMA LogEntries ==
  ASSUME TypeOK
  PROVE  Len(log) \in Nat /\ \A i \in 1 .. Len(log) : log[i] \in Event
BY ElementOfSeq, LenProperties DEF TypeOK

(* A step that changes neither the records nor the log keeps LedgerInv. *)
LEMMA LedgerInvStutter ==
  ASSUME LedgerInv, UNCHANGED <<bounties, log>>
  PROVE  LedgerInv'
BY DEF LedgerInv, LogMatchesStorage, SettledAtMostOnce, SettlesTheDeposit, RefundNotEarly

(* create() writes a fresh record, and the id was never mentioned before. *)
LEMMA CreateLedgerInv ==
  ASSUME TypeOK, LedgerInv, NEW id \in Ids, NEW b \in Bounty, NEW e \in Event,
         bounties[id].status = "None",
         bounties' = [bounties EXCEPT ![id] = b],
         Adds(e), e.kind = "BountyCreated", e.id = id,
         b.status = "Open", b.maintainer = e.to, b.amount = e.amount,
         b.createdAt = e.at, b.refundWindow = e.refundWindow
  PROVE  LedgerInv'
<1> DEFINE n == Len(log)
<1>1. n \in Nat /\ \A i \in 1 .. n : log[i] \in Event
  BY LogEntries
<1>2. \A i \in 1 .. n : log[i].id \in Ids /\ log[i].id # id
  BY <1>1 DEF LedgerInv, LogMatchesStorage, Event
<1>3. /\ Len(log') = n + 1 /\ log'[n + 1] = e
      /\ \A i \in 1 .. n : log'[i] = log[i]
  BY DEF Adds
<1>4. /\ bounties'[id] = b
      /\ \A i \in Ids : i # id => bounties'[i] = bounties[i]
  BY DEF TypeOK
<1> HIDE DEF n
<1>5. \A i \in 1 .. n + 1 : i \in 1 .. n \/ i = n + 1
  BY <1>1
<1>6. LogMatchesStorage'
  <2>1. ASSUME NEW i \in 1 .. n + 1
        PROVE  LET r == bounties'[log'[i].id] IN
               /\ r.status # "None"
               /\ log'[i].kind = "BountyCreated" =>
                    /\ r.maintainer = log'[i].to
                    /\ r.amount = log'[i].amount
                    /\ r.createdAt = log'[i].at
                    /\ r.refundWindow = log'[i].refundWindow
               /\ log'[i].kind # "BountyCreated" => r.status \in {"Paid", "Refunded"}
    <3>1. CASE i \in 1 .. n
      <4>1. log'[i] = log[i] /\ bounties'[log[i].id] = bounties[log[i].id]
        BY <1>2, <1>3, <1>4, <3>1
      <4> QED
        BY <3>1, <4>1 DEF LedgerInv, LogMatchesStorage, n
    <3>2. CASE i = n + 1
      BY <1>3, <1>4, <3>2
    <3> QED
      BY <1>5, <3>1, <3>2
  <2>2. ASSUME NEW x \in Ids, bounties'[x].status # "None"
        PROVE  \E i \in 1 .. n + 1 : log'[i].id = x /\ log'[i].kind = "BountyCreated"
    <3>1. CASE x = id
      BY <1>1, <1>3, <3>1
    <3>2. CASE x # id
      <4>1. PICK i \in 1 .. n : log[i].id = x /\ log[i].kind = "BountyCreated"
        BY <1>4, <2>2, <3>2 DEF LedgerInv, LogMatchesStorage, n
      <4> QED
        BY <1>1, <1>3, <4>1
    <3> QED
      BY <3>1, <3>2
  <2> QED
    BY <1>3, <2>1, <2>2 DEF LogMatchesStorage
<1>7. SettledAtMostOnce'
  <2> SUFFICES ASSUME NEW i \in 1 .. n + 1, NEW j \in 1 .. n + 1,
                      i < j, log'[i].id = log'[j].id
               PROVE  log'[i].kind = "BountyCreated" /\ log'[j].kind # "BountyCreated"
    BY <1>3 DEF SettledAtMostOnce
  <2>1. i \in 1 .. n /\ j \in 1 .. n
    BY <1>1, <1>2, <1>3, <1>5
  <2> QED
    BY <1>3, <2>1 DEF LedgerInv, SettledAtMostOnce, n
<1>8. SettlesTheDeposit'
  <2> SUFFICES ASSUME NEW j \in 1 .. n + 1, log'[j].kind # "BountyCreated"
               PROVE  \E i \in 1 .. (j - 1) :
                        /\ log'[i].kind = "BountyCreated"
                        /\ log'[i].id = log'[j].id
                        /\ log'[i].amount = log'[j].amount
                        /\ log'[j].kind = "BountyRefunded" => log'[j].to = log'[i].to
    BY <1>3 DEF SettlesTheDeposit
  <2>1. j \in 1 .. n /\ log'[j] = log[j]
    BY <1>3, <1>5
  <2>2. PICK i \in 1 .. (j - 1) :
                        /\ log[i].kind = "BountyCreated"
                        /\ log[i].id = log[j].id
                        /\ log[i].amount = log[j].amount
                        /\ log[j].kind = "BountyRefunded" => log[j].to = log[i].to
    BY <2>1 DEF LedgerInv, SettlesTheDeposit, n
  <2>3. i \in 1 .. n /\ log'[i] = log[i]
    BY <1>1, <1>3, <2>1
  <2> QED
    BY <2>1, <2>2, <2>3
<1>9. RefundNotEarly'
  <2> SUFFICES ASSUME NEW i \in 1 .. n + 1, NEW j \in 1 .. n + 1,
                      i < j, log'[i].id = log'[j].id, log'[j].kind = "BountyRefunded"
               PROVE  log'[j].at >= log'[i].at + log'[i].refundWindow
    BY <1>3 DEF RefundNotEarly
  <2>1. i \in 1 .. n /\ j \in 1 .. n
    BY <1>1, <1>2, <1>3, <1>5
  <2> QED
    BY <1>3, <2>1 DEF LedgerInv, RefundNotEarly, n
<1> QED
  BY <1>6, <1>7, <1>8, <1>9 DEF LedgerInv

(* release() and refund() close an open record and log what it held; a      *)
(* refund also comes from the recorded maintainer, after the window.        *)
LEMMA SettleLedgerInv ==
  ASSUME TypeOK, LedgerInv, NEW id \in Ids, NEW outcome \in {"Paid", "Refunded"},
         NEW e \in Event,
         bounties[id].status = "Open",
         bounties' = Settled(id, outcome),
         Adds(e), e.kind # "BountyCreated", e.id = id, e.amount = bounties[id].amount,
         e.kind = "BountyRefunded" =>
           /\ e.to = bounties[id].maintainer
           /\ e.at >= bounties[id].createdAt + bounties[id].refundWindow
  PROVE  LedgerInv'
<1> DEFINE n == Len(log)
<1>1. n \in Nat /\ \A i \in 1 .. n : log[i] \in Event /\ log[i].id \in Ids
  BY LogEntries DEF Event
<1>2. /\ Len(log') = n + 1 /\ log'[n + 1] = e
      /\ \A i \in 1 .. n : log'[i] = log[i]
  BY DEF Adds
<1>3. /\ bounties'[id].status = outcome
      /\ \A f \in {"maintainer", "amount", "createdAt", "refundWindow"} :
           bounties'[id][f] = bounties[id][f]
      /\ \A i \in Ids : i # id => bounties'[i] = bounties[i]
  BY DEF TypeOK, Settled, Bounty
<1>4. /\ bounties'[id].maintainer = bounties[id].maintainer
      /\ bounties'[id].amount = bounties[id].amount
      /\ bounties'[id].createdAt = bounties[id].createdAt
      /\ bounties'[id].refundWindow = bounties[id].refundWindow
  BY <1>3
<1> HIDE DEF n
<1>5. \A i \in 1 .. n + 1 : i \in 1 .. n \/ i = n + 1
  BY <1>1
<1>6. \A i \in 1 .. n : log[i].id = id => log[i].kind = "BountyCreated"
  BY DEF LedgerInv, LogMatchesStorage, n
<1>7. PICK c \in 1 .. n : log[c].id = id /\ log[c].kind = "BountyCreated"
  BY DEF LedgerInv, LogMatchesStorage, n
<1>8. \A i \in 1 .. n : log[i].id = id =>
        /\ bounties[id].maintainer = log[i].to
        /\ bounties[id].amount = log[i].amount
        /\ bounties[id].createdAt = log[i].at
        /\ bounties[id].refundWindow = log[i].refundWindow
  BY <1>6 DEF LedgerInv, LogMatchesStorage, n
<1>9. LogMatchesStorage'
  <2>1. ASSUME NEW i \in 1 .. n + 1
        PROVE  LET r == bounties'[log'[i].id] IN
               /\ r.status # "None"
               /\ log'[i].kind = "BountyCreated" =>
                    /\ r.maintainer = log'[i].to
                    /\ r.amount = log'[i].amount
                    /\ r.createdAt = log'[i].at
                    /\ r.refundWindow = log'[i].refundWindow
               /\ log'[i].kind # "BountyCreated" => r.status \in {"Paid", "Refunded"}
    <3>1. CASE i = n + 1
      BY <1>2, <1>3, <3>1
    <3>2. CASE i \in 1 .. n /\ log[i].id = id
      BY <1>2, <1>3, <1>4, <1>6, <1>8, <3>2
    <3>3. CASE i \in 1 .. n /\ log[i].id # id
      <4>1. log'[i] = log[i] /\ bounties'[log[i].id] = bounties[log[i].id]
        BY <1>1, <1>2, <1>3, <3>3
      <4> QED
        BY <3>3, <4>1 DEF LedgerInv, LogMatchesStorage, n
    <3> QED
      BY <1>5, <3>1, <3>2, <3>3
  <2>2. ASSUME NEW x \in Ids, bounties'[x].status # "None"
        PROVE  \E i \in 1 .. n + 1 : log'[i].id = x /\ log'[i].kind = "BountyCreated"
    <3>1. bounties[x].status # "None"
      BY <1>3, <2>2
    <3>2. PICK i \in 1 .. n : log[i].id = x /\ log[i].kind = "BountyCreated"
      BY <3>1 DEF LedgerInv, LogMatchesStorage, n
    <3> QED
      BY <1>1, <1>2, <3>2
  <2> QED
    BY <1>2, <2>1, <2>2 DEF LogMatchesStorage
<1>10. SettledAtMostOnce'
  <2> SUFFICES ASSUME NEW i \in 1 .. n + 1, NEW j \in 1 .. n + 1,
                      i < j, log'[i].id = log'[j].id
               PROVE  log'[i].kind = "BountyCreated" /\ log'[j].kind # "BountyCreated"
    BY <1>2 DEF SettledAtMostOnce
  <2>1. i \in 1 .. n /\ log'[i] = log[i]
    BY <1>1, <1>2, <1>5
  <2>2. CASE j = n + 1
    BY <1>2, <1>6, <2>1, <2>2
  <2>3. CASE j \in 1 .. n
    BY <1>2, <2>1, <2>3 DEF LedgerInv, SettledAtMostOnce, n
  <2> QED
    BY <1>5, <2>2, <2>3
<1>11. SettlesTheDeposit'
  <2> SUFFICES ASSUME NEW j \in 1 .. n + 1, log'[j].kind # "BountyCreated"
               PROVE  \E i \in 1 .. (j - 1) :
                        /\ log'[i].kind = "BountyCreated"
                        /\ log'[i].id = log'[j].id
                        /\ log'[i].amount = log'[j].amount
                        /\ log'[j].kind = "BountyRefunded" => log'[j].to = log'[i].to
    BY <1>2 DEF SettlesTheDeposit
  <2>1. CASE j = n + 1
    <3>1. c \in 1 .. (j - 1) /\ log'[c] = log[c]
      BY <1>1, <1>2, <2>1
    <3> QED
      BY <1>2, <1>7, <1>8, <2>1, <3>1
  <2>2. CASE j \in 1 .. n
    <3>1. log'[j] = log[j]
      BY <1>2, <2>2
    <3>2. PICK i \in 1 .. (j - 1) :
                        /\ log[i].kind = "BountyCreated"
                        /\ log[i].id = log[j].id
                        /\ log[i].amount = log[j].amount
                        /\ log[j].kind = "BountyRefunded" => log[j].to = log[i].to
      BY <2>2, <3>1 DEF LedgerInv, SettlesTheDeposit, n
    <3>3. i \in 1 .. n /\ log'[i] = log[i]
      BY <1>1, <1>2, <2>2
    <3> QED
      BY <3>1, <3>2, <3>3
  <2> QED
    BY <1>5, <2>1, <2>2
<1>12. RefundNotEarly'
  <2> SUFFICES ASSUME NEW i \in 1 .. n + 1, NEW j \in 1 .. n + 1,
                      i < j, log'[i].id = log'[j].id, log'[j].kind = "BountyRefunded"
               PROVE  log'[j].at >= log'[i].at + log'[i].refundWindow
    BY <1>2 DEF RefundNotEarly
  <2>1. i \in 1 .. n /\ log'[i] = log[i]
    BY <1>1, <1>2, <1>5
  <2>2. CASE j = n + 1
    BY <1>2, <1>8, <2>1, <2>2
  <2>3. CASE j \in 1 .. n
    BY <1>2, <2>1, <2>3 DEF LedgerInv, RefundNotEarly, n
  <2> QED
    BY <1>5, <2>2, <2>3
<1> QED
  BY <1>9, <1>10, <1>11, <1>12 DEF LedgerInv

(* How one transaction of each kind changes records and log. *)
LEMMA CreateStep ==
  ASSUME TypeOK, NEW sender \in Accounts, NEW id \in Ids, NEW amount \in Amounts,
         Create(sender, id, amount)
  PROVE  \E b \in Bounty, e \in Event :
           /\ bounties' = [bounties EXCEPT ![id] = b]
           /\ Adds(e) /\ e.kind = "BountyCreated" /\ e.id = id /\ e.sha = Nil
           /\ b.status = "Open" /\ b.maintainer = e.to /\ b.amount = e.amount
           /\ b.createdAt = e.at /\ b.refundWindow = e.refundWindow
<1> USE EscrowAssumption
<1> DEFINE b == [maintainer |-> sender, amount |-> amount, createdAt |-> now,
                 refundWindow |-> defaultRefundWindow, status |-> "Open"]
           e == [kind |-> "BountyCreated", id |-> id, to |-> sender, amount |-> amount,
                 refundWindow |-> defaultRefundWindow, sha |-> Nil, at |-> now]
<1>1. amount \in Uint96 /\ sender \in Holders
  BY DEF Create, CanCreate, Uint96, Holders
<1>2. b \in Bounty /\ e \in Event
  BY <1>1 DEF TypeOK, Bounty, Event, Status
<1>3. Adds(e)
  BY <1>1, EmitAppends DEF Create, TypeOK, Adds
<1>4. bounties' = [bounties EXCEPT ![id] = b]
  BY DEF Create
<1> QED
  BY <1>2, <1>3, <1>4

LEMMA ReleaseStep ==
  ASSUME TypeOK, NEW sender \in Accounts, NEW id \in Ids, NEW hunter \in Holders,
         NEW sha \in Shas, Release(sender, id, hunter, sha)
  PROVE  \E e \in Event :
           /\ bounties[id].status = "Open" /\ bounties' = Settled(id, "Paid")
           /\ Adds(e) /\ e.kind = "BountyReleased" /\ e.id = id
           /\ e.amount = bounties[id].amount
           /\ e.to = hunter /\ e.sha = sha
<1> USE EscrowAssumption
<1> DEFINE e == [kind |-> "BountyReleased", id |-> id, to |-> hunter,
                 amount |-> bounties[id].amount,
                 refundWindow |-> 0, sha |-> sha, at |-> now]
<1>1. bounties[id].amount \in Uint96 /\ 0 \in Uint64
  BY DEF TypeOK, Bounty, Uint64
<1>2. e \in Event
  BY <1>1 DEF TypeOK, Event
<1>3. Adds(e)
  BY <1>1, EmitAppends DEF Release, Adds
<1> QED
  BY <1>2, <1>3 DEF Release

LEMMA RefundStep ==
  ASSUME TypeOK, NEW sender \in Accounts, NEW id \in Ids, Refund(sender, id)
  PROVE  \E e \in Event :
           /\ bounties[id].status = "Open" /\ bounties' = Settled(id, "Refunded")
           /\ Adds(e) /\ e.kind = "BountyRefunded" /\ e.id = id /\ e.sha = Nil
           /\ e.amount = bounties[id].amount /\ e.to = bounties[id].maintainer
           /\ e.at >= bounties[id].createdAt + bounties[id].refundWindow
<1> USE EscrowAssumption
<1> DEFINE e == [kind |-> "BountyRefunded", id |-> id, to |-> bounties[id].maintainer,
                 amount |-> bounties[id].amount,
                 refundWindow |-> 0, sha |-> Nil, at |-> now]
<1>1. bounties[id].amount \in Uint96 /\ 0 \in Uint64 /\ bounties[id].maintainer \in Holders
  BY DEF Refund, TypeOK, Bounty, Uint64, Holders
<1>2. e \in Event
  BY <1>1 DEF TypeOK, Event
<1>3. Adds(e)
  BY <1>1, EmitAppends DEF Refund, Adds
<1> QED
  BY <1>2, <1>3 DEF Refund, WindowElapsed

LEMMA NextLedgerInv == TypeOK /\ LedgerInv /\ [Next]_vars => LedgerInv'
<1> SUFFICES ASSUME TypeOK, LedgerInv, [Next]_vars PROVE LedgerInv'
  OBVIOUS
<1>1. ASSUME NEW sender \in Accounts, NEW id \in Ids, NEW amount \in Amounts,
             Create(sender, id, amount)
      PROVE  LedgerInv'
  <2>1. bounties[id].status = "None"
    BY <1>1 DEF Create, CanCreate
  <2> QED
    BY <1>1, <2>1, CreateStep, CreateLedgerInv
<1>2. ASSUME NEW sender \in Accounts, NEW id \in Ids, NEW hunter \in Holders,
             NEW sha \in Shas, Release(sender, id, hunter, sha)
      PROVE  LedgerInv'
  <2>1. PICK e \in Event :
           /\ bounties[id].status = "Open" /\ bounties' = Settled(id, "Paid")
           /\ Adds(e) /\ e.kind = "BountyReleased" /\ e.id = id
           /\ e.amount = bounties[id].amount
    BY <1>2, ReleaseStep
  <2> QED
    BY <2>1, SettleLedgerInv
<1>3. ASSUME NEW sender \in Accounts, NEW id \in Ids, Refund(sender, id)
      PROVE  LedgerInv'
  <2>1. PICK e \in Event :
           /\ bounties[id].status = "Open" /\ bounties' = Settled(id, "Refunded")
           /\ Adds(e) /\ e.kind = "BountyRefunded" /\ e.id = id
           /\ e.amount = bounties[id].amount /\ e.to = bounties[id].maintainer
           /\ e.at >= bounties[id].createdAt + bounties[id].refundWindow
    BY <1>3, RefundStep
  <2> QED
    BY <2>1, SettleLedgerInv
<1>4. ASSUME NEW sender \in Accounts,
             \/ \E new \in Addresses : SetAuthorizedCaller(sender, new)
             \/ \E new \in Windows : SetDefaultRefundWindow(sender, new)
             \/ \E new \in Addresses : TransferOwnership(sender, new)
             \/ AcceptOwnership(sender)
             \/ RenounceOwnership(sender)
      PROVE  LedgerInv'
  BY <1>4, LedgerInvStutter
     DEF SetAuthorizedCaller, SetDefaultRefundWindow, TransferOwnership, AcceptOwnership,
     RenounceOwnership
<1>5. CASE Tick \/ UNCHANGED vars
  BY <1>5, LedgerInvStutter DEF Tick, vars
<1> QED
  BY <1>1, <1>2, <1>3, <1>4, <1>5 DEF Next

LEMMA InitLedgerInv == Init => LedgerInv
<1> SUFFICES ASSUME Init PROVE LedgerInv
  OBVIOUS
<1>1. Len(log) = 0 /\ \A id \in Ids : bounties[id].status = "None"
  BY EmptySeq DEF Init, NoBounty
<1> QED
  BY <1>1 DEF LedgerInv, LogMatchesStorage, SettledAtMostOnce, SettlesTheDeposit,
              RefundNotEarly

LEMMA LedgerInvariant == Spec => []LedgerInv
<1>1. Init => LedgerInv
  BY InitLedgerInv
<1>2. TypeOK /\ LedgerInv /\ [Next]_vars => LedgerInv'
  BY NextLedgerInv
<1> QED
  BY <1>1, <1>2, TypeCorrect, PTL DEF Spec

(* No bounty is ever created twice, paid twice, or both paid and refunded   *)
(* (create(), release() and refund(), BountyEscrow.sol:82-121).             *)
THEOREM PaysOnce == Spec => []SettledAtMostOnce
<1>1. LedgerInv => SettledAtMostOnce
  BY DEF LedgerInv
<1> QED
  BY <1>1, LedgerInvariant, PTL

(* Every settlement moves exactly the deposit, and a refund returns it to   *)
(* the depositor.                                                          *)
THEOREM NothingDiverted == Spec => []SettlesTheDeposit
<1>1. LedgerInv => SettlesTheDeposit
  BY DEF LedgerInv
<1> QED
  BY <1>1, LedgerInvariant, PTL

(* No refund precedes the deadline announced at creation: the owner cannot  *)
(* move it, and checked uint64 addition cannot wrap it to the past.         *)
THEOREM HunterHasTheWindow == Spec => []RefundNotEarly
<1>1. LedgerInv => RefundNotEarly
  BY DEF LedgerInv
<1> QED
  BY <1>1, LedgerInvariant, PTL

-----------------------------------------------------------------------------
(* Solvency *)

(* The sum MapThenSumSet takes, as a function on the subsets of T: a set's    *)
(* sum is one element's value and the sum of the others.                    *)
Pick(s) == CHOOSE x \in s : TRUE

IsSum(h, f, T) ==
  h = [s \in SUBSET T |-> IF s = {} THEN 0 ELSE f[Pick(s)] + h[s \ {Pick(s)}]]

Total(f, T) == (CHOOSE h : IsSum(h, f, T))[T]

(* Induction over a finite set, as the existence of a least counterexample. *)
LEMMA LeastSet ==
  ASSUME NEW T, IsFiniteSet(T), NEW Bad, Bad \subseteq SUBSET T, Bad # {}
  PROVE  \E s \in Bad : \A t \in Bad : t \subseteq s => t = s
<1>1. IsWellFoundedOn(StrictSubsetOrdering(T), SUBSET T)
  BY FS_StrictSubsetOrderingWellFounded, FS_FiniteSubsetsOfFinite
<1>2. PICK s \in Bad : \A t \in Bad : ~ (<<t, s>> \in StrictSubsetOrdering(T))
  BY <1>1, WFMin
<1> QED
  BY <1>2 DEF StrictSubsetOrdering

(* One step of a sum, to a smaller set. *)
LEMMA SumStep ==
  ASSUME NEW T, NEW f, NEW h, IsSum(h, f, T), NEW s \in SUBSET T
  PROVE  /\ s = {} => h[s] = 0
         /\ s # {} => /\ Pick(s) \in s /\ s \ {Pick(s)} \in SUBSET T
                      /\ h[s] = f[Pick(s)] + h[s \ {Pick(s)}]
<1>1. s # {} => Pick(s) \in s
  BY DEF Pick
<1>2. h[s] = IF s = {} THEN 0 ELSE f[Pick(s)] + h[s \ {Pick(s)}]
  BY DEF IsSum
<1> QED
  BY <1>1, <1>2

(* Sums of the same values agree where both are defined. *)
LEMMA SumsAgree ==
  ASSUME NEW T, NEW U, T \subseteq U, IsFiniteSet(T), NEW f, NEW h, NEW k,
         IsSum(h, f, T), IsSum(k, f, U)
  PROVE  \A s \in SUBSET T : h[s] = k[s]
<1> DEFINE Bad == {s \in SUBSET T : h[s] # k[s]}
<1> SUFFICES ASSUME Bad # {} PROVE FALSE
  OBVIOUS
<1>1. PICK s \in Bad : \A t \in Bad : t \subseteq s => t = s
  <2>1. Bad \subseteq SUBSET T
    OBVIOUS
  <2> HIDE DEF Bad
  <2> QED
    BY <2>1, LeastSet
<1>2. s \in SUBSET T /\ s \in SUBSET U
  OBVIOUS
<1>3. s # {} /\ Pick(s) \in s
  BY <1>1, <1>2, SumStep
<1>4. h[s \ {Pick(s)}] = k[s \ {Pick(s)}]
  BY <1>1, <1>2, <1>3
<1> QED
  BY <1>1, <1>2, <1>3, <1>4, SumStep

(* Every finite set has a sum. *)
LEMMA SumExists ==
  ASSUME NEW T, IsFiniteSet(T), NEW f
  PROVE  \E h : IsSum(h, f, T)
<1> DEFINE Bad == {U \in SUBSET T : ~ \E h : IsSum(h, f, U)}
           Sum(U) == CHOOSE h : IsSum(h, f, U)
<1> SUFFICES ASSUME Bad # {} PROVE FALSE
  OBVIOUS
<1>1. PICK U \in Bad : \A t \in Bad : t \subseteq U => t = U
  <2>1. Bad \subseteq SUBSET T
    OBVIOUS
  <2> HIDE DEF Bad
  <2> QED
    BY <2>1, LeastSet
<1>2. \A V \in SUBSET U : V # U => IsSum(Sum(V), f, V) /\ IsFiniteSet(V)
  BY <1>1, FS_Subset
<1> DEFINE h == [s \in SUBSET U |->
                  IF s = {} THEN 0 ELSE f[Pick(s)] + Sum(s \ {Pick(s)})[s \ {Pick(s)}]]
<1>3. ASSUME NEW V \in SUBSET U, V # U PROVE h[V] = Sum(V)[V]
  <2>1. IsSum(Sum(V), f, V) /\ V \in SUBSET V
    BY <1>2, <1>3
  <2>2. CASE V = {}
    BY <2>1, <2>2, SumStep
  <2>3. CASE V # {}
    <3> DEFINE W == V \ {Pick(V)}
    <3>1. /\ Pick(V) \in V /\ W \subseteq V /\ W \in SUBSET U /\ W # U
          /\ Sum(V)[V] = f[Pick(V)] + Sum(V)[W]
      BY <2>1, <2>3, SumStep
    <3>2. Sum(V)[W] = Sum(W)[W]
      BY <1>2, <2>1, <3>1, SumsAgree
    <3> QED
      BY <2>3, <3>1, <3>2
  <2> QED
    BY <2>2, <2>3
<1>4. \A s \in SUBSET U : s # {} =>
        s \ {Pick(s)} \in SUBSET U /\ s \ {Pick(s)} # U
  BY DEF Pick
<1>5. IsSum(h, f, U)
  <2>1. \A s \in SUBSET U :
          s # {} => h[s] = f[Pick(s)] + Sum(s \ {Pick(s)})[s \ {Pick(s)}]
    OBVIOUS
  <2>2. h[{}] = 0 /\ h = [s \in SUBSET U |-> h[s]]
    OBVIOUS
  <2> HIDE DEF h, Sum
  <2>3. \A s \in SUBSET U : h[s] = IF s = {} THEN 0 ELSE f[Pick(s)] + h[s \ {Pick(s)}]
    BY <1>3, <1>4, <2>1, <2>2
  <2> QED
    BY <2>2, <2>3 DEF IsSum
<1> QED
  BY <1>1, <1>5

LEMMA TotalIsSum ==
  ASSUME NEW T, IsFiniteSet(T), NEW f
  PROVE  \E h : IsSum(h, f, T) /\ Total(f, T) = h[T]
<1>1. IsSum(CHOOSE h : IsSum(h, f, T), f, T)
  <2>1. \E h : IsSum(h, f, T)
    BY SumExists
  <2> QED
    BY <2>1
<1> QED
  BY <1>1 DEF Total

(* Sums of natural numbers are natural numbers. *)
LEMMA SumNat ==
  ASSUME NEW T, IsFiniteSet(T), NEW f \in [T -> Nat], NEW h, IsSum(h, f, T)
  PROVE  \A s \in SUBSET T : h[s] \in Nat
<1> DEFINE Bad == {s \in SUBSET T : h[s] \notin Nat}
<1> SUFFICES ASSUME Bad # {} PROVE FALSE
  OBVIOUS
<1>1. PICK s \in Bad : \A t \in Bad : t \subseteq s => t = s
  <2>1. Bad \subseteq SUBSET T
    OBVIOUS
  <2> HIDE DEF Bad
  <2> QED
    BY <2>1, LeastSet
<1>2. s # {} /\ Pick(s) \in s /\ s \ {Pick(s)} \in SUBSET T
  <2>1. s \in SUBSET T /\ h[s] \notin Nat
    BY <1>1
  <2>2. s = {} => h[s] = 0
    BY <2>1, SumStep
  <2> QED
    BY <2>1, <2>2, SumStep
<1>3. h[s \ {Pick(s)}] \in Nat /\ f[Pick(s)] \in Nat
  BY <1>1, <1>2
<1> QED
  BY <1>1, <1>2, <1>3, SumStep

(* Changing one of the values changes the total by as much. *)
LEMMA TotalChanges ==
  ASSUME NEW T, IsFiniteSet(T), NEW f \in [T -> Nat], NEW g \in [T -> Nat], NEW a \in T,
         \A x \in T : x # a => g[x] = f[x]
  PROVE  /\ Total(f, T) \in Nat /\ Total(g, T) \in Nat
         /\ Total(g, T) + f[a] = Total(f, T) + g[a]
<1>1. PICK h : IsSum(h, f, T) /\ Total(f, T) = h[T]
  BY TotalIsSum
<1>2. PICK k : IsSum(k, g, T) /\ Total(g, T) = k[T]
  BY TotalIsSum
<1>3. \A s \in SUBSET T : h[s] \in Nat /\ k[s] \in Nat
  BY <1>1, <1>2, SumNat
<1> DEFINE Off(s) == IF a \in s THEN k[s] + f[a] # h[s] + g[a] ELSE k[s] # h[s]
           Bad == {s \in SUBSET T : Off(s)}
<1>4. Bad = {}
  <2> SUFFICES ASSUME Bad # {} PROVE FALSE
    OBVIOUS
  <2>1. PICK s \in Bad : \A t \in Bad : t \subseteq s => t = s
    <3>1. Bad \subseteq SUBSET T
      OBVIOUS
    <3> HIDE DEF Bad
    <3> QED
      BY <3>1, LeastSet
  <2>2. s \in SUBSET T /\ Off(s)
    BY <2>1
  <2>3. s # {}
    BY <1>1, <1>2, <2>2, SumStep
  <2> DEFINE p == Pick(s)
             r == s \ {p}
  <2>9. s \in SUBSET T /\ IsSum(h, f, T) /\ IsSum(k, g, T)
    BY <1>1, <1>2, <2>2
  <2>4. /\ p \in s /\ r \in SUBSET T /\ h[s] = f[p] + h[r] /\ k[s] = g[p] + k[r]
    <3>1. h[s] = f[p] + h[r] /\ p \in s
      <4> HIDE DEF Bad, Off
      <4> QED
        BY <2>3, <2>9, SumStep
    <3>2. k[s] = g[p] + k[r]
      <4> HIDE DEF Bad, Off
      <4> QED
        BY <2>3, <2>9, SumStep
    <3> QED
      BY <2>2, <3>1, <3>2
  <2>5. ~ Off(r)
    BY <2>1, <2>4
  <2>6. f[p] \in Nat /\ g[p] \in Nat /\ h[r] \in Nat /\ k[r] \in Nat /\ f[a] \in Nat /\ g[a] \in Nat
    BY <1>3, <2>2, <2>4
  <2>7. CASE p = a
    <3>1. a \notin r /\ a \in s
      BY <2>4, <2>7
    <3> HIDE DEF r, p
    <3> QED
      BY <2>2, <2>4, <2>5, <2>6, <2>7, <3>1
  <2>8. CASE p # a
    <3>1. (a \in r <=> a \in s) /\ f[p] = g[p]
      BY <2>2, <2>4, <2>8
    <3> HIDE DEF r, p
    <3> QED
      BY <2>2, <2>4, <2>5, <2>6, <3>1
  <2> QED
    BY <2>7, <2>8
<1> QED
  BY <1>1, <1>2, <1>3, <1>4

LEMMA TotalOfZeros ==
  ASSUME NEW T, IsFiniteSet(T), NEW f, \A x \in T : f[x] = 0
  PROVE  Total(f, T) = 0
<1>1. PICK h : IsSum(h, f, T) /\ Total(f, T) = h[T]
  BY TotalIsSum
<1> DEFINE Bad == {s \in SUBSET T : h[s] # 0}
<1>2. Bad = {}
  <2> SUFFICES ASSUME Bad # {} PROVE FALSE
    OBVIOUS
  <2>1. PICK s \in Bad : \A t \in Bad : t \subseteq s => t = s
    <3>1. Bad \subseteq SUBSET T
      OBVIOUS
    <3> HIDE DEF Bad
    <3> QED
      BY <3>1, LeastSet
  <2>2. /\ s # {} /\ Pick(s) \in s /\ s \ {Pick(s)} \in SUBSET T
        /\ h[s] = f[Pick(s)] + h[s \ {Pick(s)}]
    BY <1>1, <2>1, SumStep
  <2>3. h[s \ {Pick(s)}] = 0
    BY <2>1, <2>2
  <2> QED
    BY <2>1, <2>2, <2>3
<1> QED
  BY <1>1, <1>2

(* What is owed, as a function of the bounties *)
owed == [id \in Ids |-> Owed(id)]

LEMMA OwedIsTotal == MapThenSumSet(Owed, Ids) = Total(owed, Ids)
<1>1. \A s \in SUBSET Ids : s # {} => owed[Pick(s)] = Owed(Pick(s))
  BY DEF owed, Pick
<1>2. \A h : IsSum(h, owed, Ids) <=>
              h = [s \in SUBSET Ids |-> IF s = {} THEN 0 ELSE Owed(Pick(s)) + h[s \ {Pick(s)}]]
  BY <1>1 DEF IsSum
<1> QED
  BY <1>2 DEF MapThenSumSet, MapThenFoldSet, Total, Pick

(* Solvency in terms of that sum *)
LEMMA SolventIs == Solvent <=> balance[Escrow] >= Total(owed, Ids)
  BY OwedIsTotal DEF Solvent

(* A bounty's own step moves as much USDC as it changes of what is owed, and   *)
(* a release to the contract itself moves none.                             *)
LEMMA OneOwed ==
  ASSUME TypeOK, TypeOK', Solvent, NEW id \in Ids, NEW b \in Bounty,
         bounties' = [bounties EXCEPT ![id] = b],
         balance'[Escrow] + owed[id] >= balance[Escrow] + owed'[id]
  PROVE  Solvent'
<1>1. owed \in [Ids -> Nat] /\ owed' \in [Ids -> Nat]
  BY DEF TypeOK, Bounty, Uint96, owed, Owed
<1>2. \A x \in Ids : x # id => owed'[x] = owed[x]
  BY DEF TypeOK, owed, Owed
<1>3. /\ Total(owed, Ids) \in Nat /\ Total(owed', Ids) \in Nat
      /\ Total(owed', Ids) + owed[id] = Total(owed, Ids) + owed'[id]
  BY <1>1, <1>2, TotalChanges, EscrowAssumption
<1>4. /\ balance[Escrow] \in Nat /\ balance'[Escrow] \in Nat
      /\ owed[id] \in Nat /\ owed'[id] \in Nat
  BY <1>1 DEF TypeOK, Holders
<1>5. (Solvent <=> balance[Escrow] >= Total(owed, Ids))'
  BY SolventIs, PTL
<1>6. balance[Escrow] >= Total(owed, Ids)
  BY SolventIs
<1>7. balance'[Escrow] >= Total(owed', Ids)
  BY <1>3, <1>4, <1>6
<1> QED
  BY <1>5, <1>7

LEMMA StaysSolvent ==
  ASSUME TypeOK, TypeOK', Solvent, [Next]_vars PROVE Solvent'
<1> USE EscrowAssumption
<1>1. ASSUME UNCHANGED <<bounties, balance>> PROVE Solvent'
  <2>1. owed' = owed
    BY <1>1 DEF owed, Owed
  <2>2. (Solvent <=> balance[Escrow] >= Total(owed, Ids))'
    BY SolventIs, PTL
  <2>3. balance[Escrow] >= Total(owed, Ids)
    BY SolventIs
  <2> QED
    BY <1>1, <2>1, <2>2, <2>3
<1>2. /\ balance \in [Holders -> Nat] /\ Escrow \in Holders /\ Accounts \subseteq Holders
      /\ bounties \in [Ids -> Bounty] /\ \A id \in Ids : bounties[id].amount \in Nat
  BY DEF TypeOK, Holders, Bounty, Uint96
<1>3. ASSUME NEW sender \in Accounts, NEW id \in Ids, NEW amount \in Amounts,
             Create(sender, id, amount)
      PROVE  Solvent'
  <2>1. bounties[id].status = "None" /\ amount \in Nat
    BY <1>3 DEF Create, CanCreate
  <2> DEFINE b == [maintainer |-> sender, amount |-> amount, createdAt |-> now,
                   refundWindow |-> defaultRefundWindow, status |-> "Open"]
  <2>2. /\ bounties' = [bounties EXCEPT ![id] = b]
        /\ b \in Bounty /\ b.status = "Open" /\ b.amount = amount
    BY <1>3 DEF Create, CanCreate, TypeOK, Bounty, Uint96, Status
  <2> HIDE DEF b
  <2>3. balance'[Escrow] = balance[Escrow] + amount
    BY <1>2, <1>3, <2>1 DEF Create, Transfer
  <2>4. owed[id] = 0 /\ owed'[id] = amount
    BY <1>2, <2>1, <2>2 DEF owed, Owed
  <2>5. balance[Escrow] \in Nat
    BY <1>2
  <2>6. balance'[Escrow] + owed[id] >= balance[Escrow] + owed'[id]
    BY <2>1, <2>3, <2>4, <2>5
  <2> QED
    BY <2>2, <2>6, OneOwed
<1>4. ASSUME NEW id \in Ids, NEW outcome \in {"Paid", "Refunded"}, NEW to \in Holders,
             bounties[id].status = "Open", bounties' = Settled(id, outcome),
             Transfer(Escrow, to, bounties[id].amount)
      PROVE  Solvent'
  <2> DEFINE b == [bounties[id] EXCEPT !.status = outcome]
  <2>1. b \in Bounty /\ b.status = outcome /\ bounties' = [bounties EXCEPT ![id] = b]
    BY <1>2, <1>4 DEF Settled, Bounty, Status
  <2>2. owed[id] = bounties[id].amount /\ owed'[id] = 0
    BY <1>2, <1>4, <2>1 DEF owed, Owed
  <2>3. balance'[Escrow] + bounties[id].amount >= balance[Escrow]
    BY <1>2, <1>4 DEF Transfer
  <2>4. balance'[Escrow] + owed[id] >= balance[Escrow] + owed'[id]
    <3>1. balance[Escrow] \in Nat /\ balance'[Escrow] \in Nat /\ bounties[id].amount \in Nat
      BY <1>2 DEF TypeOK
    <3> QED
      BY <2>2, <2>3, <3>1
  <2> HIDE DEF b
  <2> QED
    BY <2>1, <2>4, OneOwed
<1>5. ASSUME NEW sender \in Accounts, NEW id \in Ids, NEW hunter \in Holders,
             NEW sha \in Shas, Release(sender, id, hunter, sha)
      PROVE  Solvent'
  BY <1>4, <1>5 DEF Release
<1>6. ASSUME NEW sender \in Accounts, NEW id \in Ids, Refund(sender, id) PROVE Solvent'
  BY <1>2, <1>4, <1>6 DEF Refund
<1>7. ASSUME NEW sender \in Accounts,
             \/ \E new \in Addresses : SetAuthorizedCaller(sender, new)
             \/ \E new \in Windows : SetDefaultRefundWindow(sender, new)
             \/ \E new \in Addresses : TransferOwnership(sender, new)
             \/ AcceptOwnership(sender)
             \/ RenounceOwnership(sender)
      PROVE  Solvent'
  BY <1>1, <1>7
  DEF SetAuthorizedCaller, SetDefaultRefundWindow, TransferOwnership, AcceptOwnership,
     RenounceOwnership
<1>8. CASE Tick \/ UNCHANGED vars
  BY <1>1, <1>8 DEF Tick, vars
<1> QED
  BY <1>3, <1>5, <1>6, <1>7, <1>8 DEF Next

(* The escrow always covers the deposits of all open bounties, so no payout   *)
(* can be refused for want of USDC or spend another bounty's deposit.        *)
THEOREM CoversDeposits == Spec => []Solvent
<1>1. Init => Solvent
  <2> SUFFICES ASSUME Init PROVE Solvent
    OBVIOUS
  <2>1. \A id \in Ids : owed[id] = 0
    BY DEF Init, NoBounty, owed, Owed
  <2>2. Total(owed, Ids) = 0
    BY <2>1, TotalOfZeros, EscrowAssumption
  <2>3. balance[Escrow] = 0
    BY DEF Init, Holders
  <2> QED
    BY <2>2, <2>3, SolventIs
<1>2. TypeOK /\ TypeOK' /\ Solvent /\ [Next]_vars => Solvent'
  BY StaysSolvent
<1> QED
  BY <1>1, <1>2, TypeCorrect, PTL DEF Spec

-----------------------------------------------------------------------------
(* Refinement *)

(* Announcing a longer log appends the announcement of the new event. *)
LEMMA LogViewAppends ==
  ASSUME TypeOK, NEW e \in Event, Adds(e)
  PROVE  LogView' = Append(LogView, Announce(e))
<1> DEFINE n == Len(log)
           S == {Announce(x) : x \in Event}
<1>1. n \in Nat /\ \A i \in 1 .. n : log[i] \in Event
  BY LogEntries
<1>2. /\ Len(log') = n + 1 /\ log'[n + 1] = e
      /\ \A i \in 1 .. n : log'[i] = log[i]
  BY DEF Adds
<1>3. LogView' = [i \in 1 .. n + 1 |-> Announce(log'[i])]
  BY <1>2 DEF LogView, Announce
<1>4. LogView = [i \in 1 .. n |-> Announce(log[i])]
  BY DEF LogView
<1> HIDE DEF n
<1>5. \A i \in 1 .. n + 1 : Announce(log'[i]) = IF i = n + 1 THEN Announce(e)
                                                ELSE Announce(log[i])
  BY <1>1, <1>2
<1>6. /\ LogView \in Seq(S) /\ Len(LogView) = n
      /\ LogView' \in Seq(S) /\ Len(LogView') = n + 1
  BY <1>1, <1>3, <1>4, <1>5
<1>7. Announce(e) \in S
  OBVIOUS
<1> HIDE DEF S
<1>8. /\ Append(LogView, Announce(e)) \in Seq(S)
      /\ Len(Append(LogView, Announce(e))) = n + 1
      /\ \A i \in 1 .. n : Append(LogView, Announce(e))[i] = LogView[i]
      /\ Append(LogView, Announce(e))[n + 1] = Announce(e)
  BY <1>6, <1>7, AppendProperties
<1>9. \A i \in 1 .. n + 1 : LogView'[i] = Append(LogView, Announce(e))[i]
  BY <1>1, <1>3, <1>4, <1>5, <1>8
<1> QED
  BY <1>6, <1>8, <1>9, SeqEqual

LEMMA StepKeepsPromise ==
  ASSUME TypeOK, [Next]_vars
  PROVE  [Promise!Next]_Promise!vars
<1> USE DEF StatusView
<1>1. ASSUME NEW sender \in Accounts, NEW id \in Ids, NEW amount \in Amounts,
             Create(sender, id, amount)
      PROVE  Promise!Fund(id)
  <2>1. PICK b \in Bounty, e \in Event :
           /\ bounties' = [bounties EXCEPT ![id] = b] /\ b.status = "Open"
           /\ Adds(e) /\ e.kind = "BountyCreated" /\ e.id = id /\ e.sha = Nil
    BY <1>1, CreateStep
  <2>2. LogView' = Append(LogView, Promise!Created(id))
    BY <2>1, LogViewAppends DEF Announce, Promise!Created
  <2>3. StatusView[id] = "None" /\ StatusView' = [StatusView EXCEPT ![id] = "Open"]
    BY <1>1, <2>1 DEF Create, CanCreate, TypeOK
  <2> QED
    BY <2>2, <2>3 DEF Promise!Fund, Promise!Move
<1>2. ASSUME NEW sender \in Accounts, NEW id \in Ids, NEW hunter \in Holders,
             NEW sha \in Shas, Release(sender, id, hunter, sha)
      PROVE  Promise!PayOut(id, hunter, sha)
  <2>1. PICK e \in Event :
           /\ bounties[id].status = "Open" /\ bounties' = Settled(id, "Paid")
           /\ Adds(e) /\ e.kind = "BountyReleased" /\ e.id = id
           /\ e.to = hunter /\ e.sha = sha
    BY <1>2, ReleaseStep
  <2>2. LogView' = Append(LogView, Promise!Released(id, hunter, sha))
    BY <2>1, LogViewAppends DEF Announce, Promise!Released
  <2>3. StatusView[id] = "Open" /\ StatusView' = [StatusView EXCEPT ![id] = "Paid"]
    BY <2>1 DEF Settled, TypeOK, Bounty
  <2> QED
    BY <2>2, <2>3 DEF Promise!PayOut, Promise!Move
<1>3. ASSUME NEW sender \in Accounts, NEW id \in Ids, Refund(sender, id)
      PROVE  Promise!GiveBack(id)
  <2>1. PICK e \in Event :
           /\ bounties[id].status = "Open" /\ bounties' = Settled(id, "Refunded")
           /\ Adds(e) /\ e.kind = "BountyRefunded" /\ e.id = id /\ e.sha = Nil
    BY <1>3, RefundStep
  <2>2. LogView' = Append(LogView, Promise!Refunded(id))
    BY <2>1, LogViewAppends DEF Announce, Promise!Refunded
  <2>3. StatusView[id] = "Open" /\ StatusView' = [StatusView EXCEPT ![id] = "Refunded"]
    BY <2>1 DEF Settled, TypeOK, Bounty
  <2> QED
    BY <2>2, <2>3 DEF Promise!GiveBack, Promise!Move
<1>4. CASE UNCHANGED <<bounties, log>>
  BY <1>4 DEF Promise!vars, LogView, Announce
<1>5. ASSUME NEW sender \in Accounts,
             \/ \E new \in Addresses : SetAuthorizedCaller(sender, new)
             \/ \E new \in Windows : SetDefaultRefundWindow(sender, new)
             \/ \E new \in Addresses : TransferOwnership(sender, new)
             \/ AcceptOwnership(sender)
             \/ RenounceOwnership(sender)
      PROVE  UNCHANGED <<bounties, log>>
  BY <1>5
     DEF SetAuthorizedCaller, SetDefaultRefundWindow, TransferOwnership, AcceptOwnership,
     RenounceOwnership
<1>6. CASE Tick \/ UNCHANGED vars
  BY <1>4, <1>6 DEF Tick, vars
<1> QED
  BY <1>1, <1>2, <1>3, <1>4, <1>5, <1>6 DEF Next, Promise!Next

(* The contract implements EscrowPromise: for the off-chain code a bounty   *)
(* is funded once and settled at most once, and every change of status is   *)
(* announced by exactly one event, in order.                               *)
THEOREM ImplementsPromise == Spec => KeepsPromise
<1>1. Init => Promise!Init
  <2> SUFFICES ASSUME Init PROVE Promise!Init
    OBVIOUS
  <2>1. LogView = << >>
    BY DEF Init, LogView
  <2>2. StatusView = [id \in Ids |-> "None"]
    BY DEF Init, StatusView, NoBounty
  <2> QED
    BY <2>1, <2>2 DEF Promise!Init
<1>2. TypeOK /\ [Next]_vars => [Promise!Next]_Promise!vars
  BY StepKeepsPromise
<1> QED
  BY <1>1, <1>2, TypeCorrect, PTL DEF Spec, KeepsPromise, Promise!Spec
=============================================================================

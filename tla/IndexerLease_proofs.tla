------------------------- MODULE IndexerLease_proofs -------------------------
(* What the lease guarantees, for any number of instances, any clocks within *)
(* MaxSkew of each other's truth, and any lease time.                        *)
EXTENDS IndexerLease, TLAPS

(* An instance that scans and has not overrun still owns the lease, and the  *)
(* lease has at least the time left that it was taken for.                   *)
LeaseHeld ==
  \A i \in Instances :
    Scanning(i) /\ age[i] <= Ttl - 2 * MaxSkew =>
      leaseOwner = i /\ leaseLeft >= Seen(i) + Ttl

IInv == TypeOK /\ LeaseHeld

LEMMA InitIInv == Init => IInv
  BY LeaseAssumption
  DEF Init, IInv, TypeOK, LeaseHeld, Scanning, Places, LongLapsed

(* A step that only moves one instance's loop and starts its age anew.       *)
LEMMA LeaveKeeps ==
  ASSUME IInv, NEW i \in Instances, NEW place \in Places \ {"scanning"},
         Leave(i, place)
  PROVE  IInv'
  BY LeaseAssumption
  DEF IInv, TypeOK, LeaseHeld, Scanning, Seen, Leave, LongLapsed, Places

(* Whoever takes the lease finds it free, or lapsed by its own clock; then    *)
(* the instance it is taken from has overrun.                               *)
LEMMA TakeKeeps ==
  ASSUME IInv, NEW j \in Instances, TakeLease(j)
  PROVE  IInv'
<1> USE LeaseAssumption
<1>1. Seen(j) \in Int /\ Seen(j) <= MaxSkew /\ Seen(j) >= -(MaxSkew + MaxIteration)
  BY DEF IInv, TypeOK, Seen
<1>2. TypeOK'
  BY <1>1 DEF IInv, TypeOK, TakeLease, LongLapsed, Places
<1>3. ASSUME NEW i \in Instances, Scanning(i)', (age[i] <= Ttl - 2 * MaxSkew)'
      PROVE  (leaseOwner = i /\ leaseLeft >= Seen(i) + Ttl)'
  <2>1. CASE i = j
    BY <1>1, <2>1 DEF TakeLease, Seen
  <2>2. CASE i # j
    <3>1. Scanning(i) /\ age[i] <= Ttl - 2 * MaxSkew
      BY <1>3, <2>2 DEF TakeLease, Scanning, IInv, TypeOK
    <3>2. leaseOwner = i /\ leaseLeft >= Seen(i) + Ttl
      BY <3>1 DEF IInv, LeaseHeld
    <3>3. leaseLeft < Seen(j)
      BY <2>2, <3>2 DEF TakeLease, Available
    <3>4. age[i] > Ttl - 2 * MaxSkew
      BY <3>2, <3>3 DEF Seen, IInv, TypeOK
    <3>5. QED  BY <3>1, <3>4 DEF IInv, TypeOK
  <2>3. QED  BY <2>1, <2>2
<1>4. QED  BY <1>2, <1>3 DEF IInv, LeaseHeld

(* Time takes the same from the lease and from what the age leaves of it.    *)
LEMMA TimeKeeps ==
  ASSUME IInv, TimePasses
  PROVE  IInv'
<1> USE LeaseAssumption
<1>1. TypeOK'
  BY DEF IInv, TypeOK, TimePasses, LongLapsed
<1>2. ASSUME NEW i \in Instances, Scanning(i)', (age[i] <= Ttl - 2 * MaxSkew)'
      PROVE  (leaseOwner = i /\ leaseLeft >= Seen(i) + Ttl)'
  <2>1. Scanning(i) /\ age'[i] = age[i] + 1
    BY <1>2 DEF TimePasses, Scanning
  <2>2. age[i] <= Ttl - 2 * MaxSkew
    BY <1>2, <2>1 DEF IInv, TypeOK
  <2>3. leaseOwner = i /\ leaseLeft >= Seen(i) + Ttl
    BY <2>1, <2>2 DEF IInv, LeaseHeld
  <2>4. leaseLeft' >= leaseLeft - 1
    BY DEF TimePasses, IInv, TypeOK, LongLapsed
  <2>5. QED
    BY <2>1, <2>3, <2>4, <1>1 DEF TimePasses, Seen, IInv, TypeOK, LongLapsed
<1>3. QED  BY <1>1, <1>2 DEF IInv, LeaseHeld

LEMMA NextIInv == IInv /\ [Next]_vars => IInv'
<1> SUFFICES ASSUME IInv, [Next]_vars PROVE IInv'
  OBVIOUS
<1>1. ASSUME NEW i \in Instances,
             Start(i) \/ ReadClock(i) \/ Refused(i) \/ IterationEnds(i) \/ AskFails(i)
               \/ Crash(i)
      PROVE  IInv'
  BY <1>1, LeaveKeeps
  DEF Start, ReadClock, Refused, IterationEnds, AskFails, Crash, Places
<1>2. CASE UNCHANGED vars
  BY <1>2 DEF vars, IInv, TypeOK, LeaseHeld, Scanning, Seen
<1>3. QED
  BY <1>1, <1>2, TakeKeeps, TimeKeeps DEF Next, Iterate

(* Every variable keeps its type: the lease and the ages stay within the     *)
(* bounds that make relative time enough (holdLease, index.ts:46-69).        *)
THEOREM TypeCorrect == Spec => []TypeOK
<1>1. IInv => TypeOK
  BY DEF IInv
<1>2. QED  BY InitIInv, NextIInv, <1>1, PTL DEF Spec

(* Two instances scan at once only if one of them began its iteration a      *)
(* whole lease ago, less the clocks' differences (index.ts:41-45).           *)
THEOREM LeaseExcludes == Spec => []OverlapNeedsOverrun
<1>1. IInv => OverlapNeedsOverrun
  BY LeaseAssumption DEF IInv, LeaseHeld, TypeOK, OverlapNeedsOverrun
<1>2. QED  BY InitIInv, NextIInv, <1>1, PTL DEF Spec
=============================================================================

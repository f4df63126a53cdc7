---------------------------- MODULE IndexerLease -----------------------------
(***************************************************************************)
(* The single-scanner lease of the indexer (api/src/indexer/index.ts).      *)
(* Every iteration of runLoop reads the local clock, takes or renews the    *)
(* lease with one conditional upsert of the indexer_state row, and only     *)
(* then scans.  Nothing keeps an iteration within the lease: a reconcile    *)
(* may wait for several transaction receipts.  The module says what the     *)
(* lease is worth nevertheless.                                            *)
(*                                                                         *)
(* Time is relative: leaseLeft is leaseExpiresAt minus the current time,    *)
(* age[i] how long ago instance i read its clock for this iteration.  A     *)
(* process draws a fresh INSTANCE_ID, so a crashed instance never comes     *)
(* back: a restart is another instance starting.                           *)
(***************************************************************************)
EXTENDS Integers

CONSTANTS
  Instances,     \* INSTANCE_IDs of the processes that ever run (bound)
  Skew,          \* [Instances -> Int], how far each one's clock is ahead
  MaxSkew,       \* no clock is further ahead or behind
  Ttl,           \* LEASE_TTL_MS
  MaxIteration,  \* no iteration takes longer (bound); more than a lease
  None

ASSUME LeaseAssumption ==
  /\ MaxSkew \in Nat /\ Ttl \in Nat /\ MaxIteration \in Nat
  /\ Skew \in [Instances -> Int]
  /\ \A i \in Instances : -MaxSkew <= Skew[i] /\ Skew[i] <= MaxSkew
  /\ None \notin Instances

VARIABLES
  leaseOwner,  \* leaseOwner of the row; None: no row, or a row never leased
  leaseLeft,   \* leaseExpiresAt, relative to the current time
  loop,        \* [Instances -> where its runLoop is]
  age          \* [Instances -> time since it read its clock, 0 when asleep]

vars == <<leaseOwner, leaseLeft, loop, age>>

Places == {"off", "asleep", "asking", "scanning", "dead"}

(* A lease that lapsed this long ago has lapsed by every clock and reading.  *)
LongLapsed == -(MaxSkew + MaxIteration + 1)

Init ==
  /\ leaseOwner = None
  /\ leaseLeft = LongLapsed
  /\ loop = [i \in Instances |-> "off"]
  /\ age = [i \in Instances |-> 0]

-----------------------------------------------------------------------------
Leave(i, place) ==
  /\ loop' = [loop EXCEPT ![i] = place]
  /\ age' = [age EXCEPT ![i] = 0]
  /\ UNCHANGED <<leaseOwner, leaseLeft>>

Start(i) == loop[i] = "off" /\ Leave(i, "asleep")

(* the loop comes round, after a poll interval, LEASE_RETRY_MS or a backoff  *)
(* of any length, and holdLease reads Date.now()                            *)
ReadClock(i) == loop[i] = "asleep" /\ Leave(i, "asking")

(* `now` as i read it, relative to the current time                          *)
Seen(i) == Skew[i] - age[i]

(* seeded fault: the upsert filters by _id only *)
FaultAnyoneTakes(i) == TRUE

(* seeded fault: only the owner renews *)
FaultOwnerOnly(i) == leaseOwner \in {i, None}

(* the filter of the upsert: ours, absent, or lapsed by i's reading          *)
Available(i) == leaseOwner \in {i, None} \/ leaseLeft < Seen(i)

(* seeded fault: the stored expiry is extended, not the clock's reading *)
FaultExtends(i) ==
  /\ loop[i] = "asking"
  /\ Available(i)
  /\ leaseOwner' = i
  /\ leaseLeft' = leaseLeft + Ttl
  /\ loop' = [loop EXCEPT ![i] = "scanning"]
  /\ UNCHANGED age

TakeLease(i) ==
  /\ loop[i] = "asking"
  /\ Available(i)
  /\ leaseOwner' = i
  /\ leaseLeft' = Seen(i) + Ttl
  /\ loop' = [loop EXCEPT ![i] = "scanning"]
  /\ UNCHANGED age

(* the filter misses and the upsert meets the unique _id: not ours           *)
Refused(i) == loop[i] = "asking" /\ ~ Available(i) /\ Leave(i, "asleep")

(* The upsert rejects for another reason, and the loop backs off.  One that  *)
(* was applied all the same is a TakeLease whose iteration ends at once.     *)
AskFails(i) == loop[i] = "asking" /\ Leave(i, "asleep")

(* tick and reconcileFailedReleases return, or throw and the loop backs off  *)
IterationEnds(i) == loop[i] = "scanning" /\ Leave(i, "asleep")

Crash(i) == loop[i] \notin {"off", "dead"} /\ Leave(i, "dead")

TimePasses ==
  /\ \A i \in Instances : age[i] < MaxIteration
  /\ leaseLeft' = IF leaseLeft > LongLapsed THEN leaseLeft - 1 ELSE leaseLeft
  /\ age' = [i \in Instances |->
               IF loop[i] \in {"asking", "scanning"} THEN age[i] + 1 ELSE age[i]]
  /\ UNCHANGED <<leaseOwner, loop>>

Iterate(i) == ReadClock(i) \/ TakeLease(i) \/ Refused(i) \/ IterationEnds(i)

Next ==
  \/ \E i \in Instances : Start(i) \/ Iterate(i) \/ AskFails(i) \/ Crash(i)
  \/ TimePasses

(* The event loop of a live process runs on, its calls time out, and time    *)
(* passes.  An upsert that is retried for ever is not refused for ever by    *)
(* the database itself: hence the strong fairness.                          *)
Fairness ==
  /\ \A i \in Instances : WF_vars(Iterate(i)) /\ SF_vars(TakeLease(i))
  /\ WF_vars(TimePasses)

Spec == Init /\ [][Next]_vars /\ Fairness

-----------------------------------------------------------------------------
(* Every variable has its type, and ages and the lease stay within bounds.   *)
TypeOK ==
  /\ leaseOwner \in Instances \cup {None}
  /\ leaseLeft \in LongLapsed .. MaxSkew + Ttl
  /\ loop \in [Instances -> Places]
  /\ age \in [Instances -> 0 .. MaxIteration]

Scanning(i) == loop[i] = "scanning"

(* "Exactly one indexer" (index.ts:41-45) is not what the lease enforces: an *)
(* iteration may outlive it.  What it does enforce: when two instances scan  *)
(* at once, one of them began its iteration a whole lease ago, less what two *)
(* clocks may differ.                                                       *)
OverlapNeedsOverrun ==
  \A i, j \in Instances :
    Scanning(i) /\ Scanning(j) /\ i # j =>
      \/ age[i] > Ttl - 2 * MaxSkew
      \/ age[j] > Ttl - 2 * MaxSkew

(* A crashed instance's lease lapses and lets another take over (index.ts:17-*)
(* 18): as long as some instance stays up, scanning never stops for good.    *)
ScanningGoesOn ==
  (\E i \in Instances : <>[](loop[i] \notin {"off", "dead"}))
    => []<>(\E i \in Instances : Scanning(i))
=============================================================================

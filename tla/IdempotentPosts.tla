--------------------------- MODULE IdempotentPosts ---------------------------
(***************************************************************************)
(* POST /bounties and its Idempotency-Key (api/src/api/routes/bounties.ts). *)
(* A request reserves the (key, actor) row before it creates a bounty, and  *)
(* stores its response there.  A repetition replays the response, or is     *)
(* told to come back later.  The handler is cut at its awaits, and any of   *)
(* them may reject, also after MongoDB has applied the write.               *)
(***************************************************************************)
CONSTANTS
  Keys,     \* Idempotency-Key strings; actors may use the same one
  Actors,   \* authenticated wallets
  Ids,      \* bountyIds ever drawn (bound)
  Slots,    \* requests in flight at once (bound)
  Nil

ASSUME PostsAssumption == Nil \notin Keys \cup Actors \cup Ids

VARIABLES
  keyRow,      \* [Callers -> the idempotency row]
  maintainer,  \* [Ids -> maintainerAddress of the bounty row, Nil: no such row]
  req,         \* [Slots -> the request being handled]
  (* history *)
  made,        \* [Callers -> bounties created while the row's life lasted]
  answered,    \* [Callers -> bounties named in a 201 during the row's life]
  failed,      \* bounties whose creating request got no further
  abandoned    \* callers whose reservation its own request gave up on

vars == <<keyRow, maintainer, req, made, answered, failed, abandoned>>
history == <<made, answered, failed, abandoned>>

Callers == Keys \X Actors

Absent   == [status |-> "absent", bounty |-> Nil]
Reserved == [status |-> "reserved", bounty |-> Nil]   \* responseStatus 0
Final(b) == [status |-> "final", bounty |-> b]        \* responseStatus 201

Row == {Absent, Reserved} \cup {Final(b) : b \in Ids}

Pcs == {"idle", "find", "reserve", "winner", "mint", "finalize", "release"}

Request == [pc : Pcs, key : Keys \cup {Nil}, actor : Actors \cup {Nil},
            bounty : Ids \cup {Nil}]

Idle == [pc |-> "idle", key |-> Nil, actor |-> Nil, bounty |-> Nil]

Init ==
  /\ keyRow = [c \in Callers |-> Absent]
  /\ maintainer = [b \in Ids |-> Nil]
  /\ req = [s \in Slots |-> Idle]
  /\ made = [c \in Callers |-> {}]
  /\ answered = [c \in Callers |-> {}]
  /\ failed = {}
  /\ abandoned = {}

-----------------------------------------------------------------------------
At(s, pc)   == req[s].pc = pc
GoTo(s, pc) == req' = [req EXCEPT ![s].pc = pc]
Finish(s)   == req' = [req EXCEPT ![s] = Idle]

Caller(s) == <<req[s].key, req[s].actor>>
Keyed(s)  == req[s].key # Nil

(* the request's own reservation is in the collection, or it believes so     *)
Holds(s, c) ==
  req[s].pc \in {"mint", "finalize", "release"} /\ Keyed(s) /\ Caller(s) = c

SetRow(c, row) == keyRow' = [keyRow EXCEPT ![c] = row]

Answer(c, b) == answered' = [answered EXCEPT ![c] = @ \cup {b}]

Create(s, b) ==
  /\ maintainer[b] = Nil
  /\ maintainer' = [maintainer EXCEPT ![b] = req[s].actor]
  /\ IF Keyed(s) THEN made' = [made EXCEPT ![Caller(s)] = @ \cup {b}]
     ELSE UNCHANGED made

-----------------------------------------------------------------------------
(* The handler *)

Send(s, k, a) ==
  /\ At(s, "idle")
  /\ req' = [req EXCEPT ![s] = [Idle EXCEPT !.pc = "find", !.key = k, !.actor = a]]
  /\ UNCHANGED <<keyRow, maintainer, history>>

(* without the header there is nothing to reserve                            *)
SendUnkeyed(s, a) ==
  /\ At(s, "idle")
  /\ req' = [req EXCEPT ![s] = [Idle EXCEPT !.pc = "mint", !.actor = a]]
  /\ UNCHANGED <<keyRow, maintainer, history>>

(* a finalized row is answered again, anything else is a 409                 *)
ReplayOrConflict(s, row) ==
  /\ IF row.status = "final" THEN Answer(Caller(s), row.bounty) ELSE UNCHANGED answered
  /\ Finish(s)
  /\ UNCHANGED <<keyRow, maintainer, made, failed, abandoned>>

(* seeded fault: the prior row is looked up by key alone *)
FaultKeyOnly(s) ==
  /\ At(s, "find")
  /\ \/ \E a \in Actors : LET prior == keyRow[<<req[s].key, a>>] IN
          prior # Absent /\ ReplayOrConflict(s, prior)
     \/ /\ \A a \in Actors : keyRow[<<req[s].key, a>>] = Absent
        /\ GoTo(s, "reserve") /\ UNCHANGED <<keyRow, maintainer, history>>

FindPrior(s) ==
  /\ At(s, "find")
  /\ LET prior == keyRow[Caller(s)] IN
       \/ prior # Absent /\ ReplayOrConflict(s, prior)
       \/ prior = Absent /\ GoTo(s, "reserve") /\ UNCHANGED <<keyRow, maintainer, history>>

(* seeded fault: the reservation has the final status, and no body yet *)
FaultReserveFinal(s) ==
  /\ At(s, "reserve")
  /\ keyRow[Caller(s)] = Absent
  /\ SetRow(Caller(s), Final(Nil))
  /\ GoTo(s, "mint")
  /\ UNCHANGED <<maintainer, history>>

(* seeded fault: the row is only written with the response *)
FaultNoReservation(s) ==
  /\ At(s, "reserve")
  /\ GoTo(s, "mint")
  /\ UNCHANGED <<keyRow, maintainer, history>>

(* seeded fault: the (key, actor) index is not unique *)
FaultNotUnique(s) ==
  /\ At(s, "reserve")
  /\ SetRow(Caller(s), Reserved)
  /\ GoTo(s, "mint")
  /\ UNCHANGED <<maintainer, history>>

(* the unique (key, actor) index lets one request win                        *)
Reserve(s) ==
  /\ At(s, "reserve")
  /\ \/ /\ keyRow[Caller(s)] = Absent
        /\ SetRow(Caller(s), Reserved)
        /\ GoTo(s, "mint")
     \/ /\ keyRow[Caller(s)] # Absent
        /\ GoTo(s, "winner")
        /\ UNCHANGED keyRow
  /\ UNCHANGED <<maintainer, history>>

ReadWinner(s) == At(s, "winner") /\ ReplayOrConflict(s, keyRow[Caller(s)])

(* deriveBountyId draws a fresh id; an unkeyed request answers at once       *)
Mint(s) ==
  /\ At(s, "mint")
  /\ \E b \in Ids :
       /\ Create(s, b)
       /\ IF Keyed(s) THEN req' = [req EXCEPT ![s].pc = "finalize", ![s].bounty = b]
          ELSE Finish(s)
  /\ UNCHANGED <<keyRow, answered, failed, abandoned>>

(* updateOne without upsert, and the 201                                     *)
Finalize(s) ==
  /\ At(s, "finalize")
  /\ IF keyRow[Caller(s)] = Absent THEN UNCHANGED keyRow
     ELSE SetRow(Caller(s), Final(req[s].bounty))
  /\ Answer(Caller(s), req[s].bounty)
  /\ Finish(s)
  /\ UNCHANGED <<maintainer, made, failed, abandoned>>

(* seeded fault: the catch block only answers *)
FaultNoRelease(s) ==
  /\ At(s, "release")
  /\ Finish(s)
  /\ UNCHANGED <<keyRow, maintainer, history>>

(* the catch block gives the reservation back                                *)
Release(s) ==
  /\ At(s, "release")
  /\ SetRow(Caller(s), Absent)
  /\ Finish(s)
  /\ UNCHANGED <<maintainer, history>>

-----------------------------------------------------------------------------
(* Rejected awaits, and the death of the process *)

FindRejects(s) ==
  /\ req[s].pc \in {"find", "winner"}
  /\ Finish(s)
  /\ UNCHANGED <<keyRow, maintainer, history>>

(* `reserved` is still false: a row that was inserted all the same stays     *)
ReserveRejects(s) ==
  /\ At(s, "reserve")
  /\ \/ /\ keyRow[Caller(s)] = Absent
        /\ SetRow(Caller(s), Reserved)
        /\ abandoned' = abandoned \cup {Caller(s)}
     \/ UNCHANGED <<keyRow, abandoned>>
  /\ Finish(s)
  /\ UNCHANGED <<maintainer, made, answered, failed>>

MintRejects(s) ==
  /\ At(s, "mint")
  /\ \/ UNCHANGED <<maintainer, made, failed>>
     \/ \E b \in Ids : Create(s, b) /\ failed' = failed \cup {b}
  /\ IF Keyed(s) THEN GoTo(s, "release") ELSE Finish(s)
  /\ UNCHANGED <<keyRow, answered, abandoned>>

FinalizeRejects(s) ==
  /\ At(s, "finalize")
  /\ \/ UNCHANGED keyRow
     \/ keyRow[Caller(s)] # Absent /\ SetRow(Caller(s), Final(req[s].bounty))
  /\ failed' = failed \cup {req[s].bounty}
  /\ GoTo(s, "release")
  /\ UNCHANGED <<maintainer, made, answered, abandoned>>

(* .catch(() => undefined)                                                   *)
ReleaseRejects(s) ==
  /\ At(s, "release")
  /\ abandoned' = abandoned \cup {Caller(s)}
  /\ Finish(s)
  /\ UNCHANGED <<keyRow, maintainer, made, answered, failed>>

Crash(s) ==
  /\ ~ At(s, "idle")
  /\ abandoned' = abandoned \cup {c \in Callers : Holds(s, c)}
  /\ failed' = failed \cup ({req[s].bounty} \ {Nil})
  /\ Finish(s)
  /\ UNCHANGED <<keyRow, maintainer, made, answered>>

(* seeded fault: the TTL index only covers finalized rows *)
FaultFinalOnly(c) == keyRow[c].status = "final"

(* The TTL index removes the row 24 hours after its reservation, when the    *)
(* request that made it is long over and the key no longer means anything.   *)
Expirable(c) == keyRow[c] # Absent /\ ~ \E s \in Slots : Holds(s, c)

Expire(c) ==
  /\ Expirable(c)
  /\ SetRow(c, Absent)
  /\ made' = [made EXCEPT ![c] = {}]
  /\ answered' = [answered EXCEPT ![c] = {}]
  /\ abandoned' = abandoned \ {c}
  /\ UNCHANGED <<maintainer, req, failed>>

Proceed(s) ==
  FindPrior(s) \/ Reserve(s) \/ ReadWinner(s) \/ Mint(s) \/ Finalize(s) \/ Release(s)

Rejects(s) ==
  \/ FindRejects(s) \/ ReserveRejects(s) \/ MintRejects(s)
  \/ FinalizeRejects(s) \/ ReleaseRejects(s)

Next ==
  \/ \E s \in Slots :
       \/ \E k \in Keys, a \in Actors : Send(s, k, a)
       \/ \E a \in Actors : SendUnkeyed(s, a)
       \/ Proceed(s) \/ Rejects(s) \/ Crash(s)
  \/ \E c \in Callers : Expire(c)

(* Handlers run on until they answer, reject or die (an await does one of    *)
(* these), and MongoDB's TTL monitor comes round every minute.               *)
Fairness ==
  /\ \A s \in Slots : WF_vars(Proceed(s) \/ Rejects(s))
  /\ \A c \in Callers : WF_vars(Expire(c))

Spec == Init /\ [][Next]_vars /\ Fairness

-----------------------------------------------------------------------------
(* Rows, bounties and requests have their types.                             *)
TypeOK ==
  /\ keyRow \in [Callers -> Row]
  /\ maintainer \in [Ids -> Actors \cup {Nil}]
  /\ req \in [Slots -> Request]
  /\ made \in [Callers -> SUBSET Ids]
  /\ answered \in [Callers -> SUBSET Ids]
  /\ failed \subseteq Ids /\ abandoned \subseteq Callers

AtMostOne(S) == \A x, y \in S : x = y

(* "A client retry replays the first result instead of acting twice"         *)
(* (idempotencyKey.model.ts:3-5): however repetitions overlap, one key makes *)
(* at most one bounty, not counting those whose own request failed after, or *)
(* while, it made them.                                                     *)
OneBountyPerKey == \A c \in Callers : AtMostOne(made[c] \ failed)

(* All the answers a client gets for one key name the same bounty, with the  *)
(* same exception (the replay of bounties.ts:104-125).                       *)
RepliesAgree == \A c \in Callers : AtMostOne(answered[c] \ failed)

(* A caller is only ever told of a bounty of his own, whichever key strings  *)
(* others use (idempotencyKey.model.ts:26-30).                               *)
OwnRepliesOnly ==
  \A c \in Callers : \A b \in answered[c] : maintainer[b] = c[2] /\ b \in made[c]

(* A reservation is held by a request at work, or its request was cut off:   *)
(* a failed creation does not leave the client "stuck on a permanent 'in     *)
(* progress'" (bounties.ts:168-169).                                         *)
ReservationsAreHeld ==
  \A c \in Callers : keyRow[c] = Reserved =>
    c \in abandoned \/ \E s \in Slots : Holds(s, c)

(* Even a reservation that was cut off ends: the key becomes usable again.   *)
ReservationsEnd ==
  \A c \in Callers : keyRow[c] = Reserved ~> keyRow[c] # Reserved
=============================================================================

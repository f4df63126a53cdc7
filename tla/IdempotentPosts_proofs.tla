----------------------- MODULE IdempotentPosts_proofs ------------------------
(* One bounty for one key, for any number of keys, wallets and overlapping   *)
(* requests, with rejected awaits and crashes.                               *)
EXTENDS IdempotentPosts, TLAPS

(* A request past `find` knows its caller, and one that is about to finalize *)
(* has made its bounty for him.                                              *)
LocalsSound ==
  \A s \in Slots :
    /\ req[s].pc # "idle" => req[s].actor \in Actors
    /\ req[s].pc \notin {"idle", "mint"} => Keyed(s)
    /\ At(s, "finalize") => req[s].bounty \in made[Caller(s)]

(* Only one request holds a row, and what the row says fits where it is.     *)
HoldersSound ==
  \A s \in Slots, c \in Callers :
    Holds(s, c) =>
      /\ \A t \in Slots : Holds(t, c) => t = s
      /\ ~ At(s, "release") => keyRow[c] = Reserved
      /\ keyRow[c] = Reserved \/ \E b \in failed : keyRow[c] = Final(b)

(* A bounty made for a key is the one its row names, or about to be.         *)
Named(c, b) ==
  \/ keyRow[c] = Final(b)
  \/ keyRow[c] = Reserved /\ \E s \in Slots :
       Holds(s, c) /\ At(s, "finalize") /\ req[s].bounty = b

MadeSound == \A c \in Callers : \A b \in made[c] \ failed : Named(c, b)

(* Rows and answers only name bounties made for the caller.                  *)
NamesSound ==
  \A c \in Callers :
    /\ answered[c] \subseteq made[c]
    /\ \A b \in Ids : keyRow[c] = Final(b) => b \in made[c]
    /\ \A b \in made[c] : maintainer[b] = c[2]

IInv == TypeOK /\ LocalsSound /\ HoldersSound /\ MadeSound /\ NamesSound
          /\ ReservationsAreHeld

LEMMA RowsDiffer ==
  /\ Absent # Reserved /\ Absent \in Row /\ Reserved \in Row
  /\ \A b : Final(b) # Absent /\ Final(b) # Reserved /\ Final(b).bounty = b
  /\ \A b, d : Final(b) = Final(d) => b = d
  /\ \A b \in Ids : Final(b) \in Row
  /\ \A r \in Row : /\ r.status = "final" => r.bounty \in Ids /\ r = Final(r.bounty)
                    /\ r.status # "final" => r = Absent \/ r = Reserved
<1>1. \A b : Final(b).bounty = b /\ Final(b).status = "final"
  BY DEF Final
<1>2. Absent.status = "absent" /\ Reserved.status = "reserved"
  BY DEF Absent, Reserved
<1>3. QED  BY <1>1, <1>2 DEF Row

LEMMA InitIInv == Init => IInv
  BY PostsAssumption, RowsDiffer
  DEF Init, IInv, TypeOK, LocalsSound, HoldersSound, MadeSound, NamesSound,
      ReservationsAreHeld, Idle, Request, Pcs, Row, Holds, At, Keyed

(* Who the request in a slot acts for.                                       *)
LEMMA CallerKnown ==
  ASSUME IInv, NEW s \in Slots, req[s].pc # "idle"
  PROVE  /\ req[s].actor \in Actors
         /\ Keyed(s) => Caller(s) \in Callers
         /\ \A c \in Callers : c = <<c[1], c[2]>>
         /\ Keyed(s) => Caller(s)[2] = req[s].actor
<1>1. req[s] \in Request
  BY DEF IInv, TypeOK
<1>2. QED  BY <1>1 DEF IInv, LocalsSound, Request, Caller, Callers, Keyed

(* A step of one request leaves what the others hold and say as it was.      *)
LEMMA OthersStay ==
  ASSUME IInv, NEW s \in Slots, NEW r, req' = [req EXCEPT ![s] = r]
  PROVE  /\ req'[s] = r
         /\ \A t \in Slots : t # s =>
              /\ req'[t] = req[t]
              /\ Caller(t)' = Caller(t) /\ (Keyed(t)' <=> Keyed(t))
              /\ \A pc : At(t, pc)' <=> At(t, pc)
              /\ \A c : Holds(t, c)' <=> Holds(t, c)
<1>1. req \in [Slots -> Request]
  BY DEF IInv, TypeOK
<1>2. req'[s] = r /\ \A t \in Slots : t # s => req'[t] = req[t]
  BY <1>1
<1>3. QED  BY <1>2 DEF Caller, Keyed, At, Holds

(* A step that neither takes nor gives up a row, and answers nothing but      *)
(* what was made for the caller.                                            *)
LEMMA QuietKeeps ==
  ASSUME IInv, NEW s \in Slots, NEW r \in Request,
         req' = [req EXCEPT ![s] = r],
         req[s].pc \in {"idle", "find", "reserve", "winner"} \/ ~ Keyed(s),
         \/ r = Idle
         \/ r.pc = "mint" /\ r.key = Nil /\ r.actor \in Actors
         \/ r.pc \in {"find", "reserve", "winner"} /\ r.key # Nil /\ r.actor \in Actors,
         UNCHANGED <<keyRow, maintainer, made, abandoned>>,
         failed \subseteq failed', failed' \subseteq Ids,
         answered' \in [Callers -> SUBSET Ids],
         \A c \in Callers : answered'[c] \subseteq made[c]
  PROVE  IInv'
<1>1. /\ req'[s] = r
      /\ \A t \in Slots : t # s =>
           /\ req'[t] = req[t] /\ Caller(t)' = Caller(t) /\ (Keyed(t)' <=> Keyed(t))
           /\ \A pc : At(t, pc)' <=> At(t, pc)
           /\ \A c : Holds(t, c)' <=> Holds(t, c)
  BY OthersStay
<1>2. \A c \in Callers : ~ Holds(s, c) /\ ~ Holds(s, c)'
  BY <1>1 DEF Holds, Keyed, Idle
<1>3. TypeOK'
  BY DEF IInv, TypeOK
<1>4. LocalsSound'
  BY <1>1 DEF IInv, LocalsSound, Idle, Keyed, At, Caller
<1>5. HoldersSound'
  BY <1>1, <1>2 DEF IInv, HoldersSound
<1>6. MadeSound'
  BY <1>1, <1>2 DEF IInv, MadeSound, Named
<1>7. NamesSound'
  BY DEF IInv, NamesSound
<1>8. ReservationsAreHeld'
  BY <1>1, <1>2 DEF IInv, ReservationsAreHeld
<1>9. QED  BY <1>3, <1>4, <1>5, <1>6, <1>7, <1>8 DEF IInv

(* A finalized row is replayed to its own caller.                            *)
LEMMA ReplayKeeps ==
  ASSUME IInv, NEW s \in Slots, req[s].pc \in {"find", "winner"},
         ReplayOrConflict(s, keyRow[Caller(s)])
  PROVE  IInv'
<1>1. Caller(s) \in Callers
  BY CallerKnown DEF IInv, LocalsSound
<1>2. keyRow[Caller(s)] \in Row
  BY <1>1 DEF IInv, TypeOK
<1>3. /\ answered' \in [Callers -> SUBSET Ids]
      /\ \A c \in Callers : answered'[c] \subseteq made[c]
  BY <1>1, <1>2, RowsDiffer DEF ReplayOrConflict, Answer, IInv, TypeOK, NamesSound
<1>4. Idle \in Request
  BY DEF Idle, Request, Pcs
<1>5. QED
  BY <1>3, <1>4, QuietKeeps DEF ReplayOrConflict, Finish, IInv, TypeOK

(* The steps of a request that holds no row yet.                             *)
LEMMA BeforeKeeps ==
  ASSUME IInv, NEW s \in Slots,
         \/ \E k \in Keys, a \in Actors : Send(s, k, a)
         \/ \E a \in Actors : SendUnkeyed(s, a)
         \/ FindPrior(s) \/ ReadWinner(s) \/ FindRejects(s)
  PROVE  IInv'
<1>1. req[s] \in Request /\ Idle \in Request
  BY DEF IInv, TypeOK, Idle, Request, Pcs
<1>2. /\ answered \in [Callers -> SUBSET Ids]
      /\ \A c \in Callers : answered[c] \subseteq made[c]
  BY DEF IInv, TypeOK, NamesSound
<1>3. ASSUME NEW k \in Keys, NEW a \in Actors, Send(s, k, a)
      PROVE  IInv'
  <2> DEFINE r == [Idle EXCEPT !.pc = "find", !.key = k, !.actor = a]
  <2>1. r \in Request /\ r.pc = "find" /\ r.key # Nil /\ r.actor \in Actors
    BY PostsAssumption DEF Idle, Request, Pcs
  <2>2. QED  BY <1>2, <1>3, <2>1, QuietKeeps DEF Send, At, history, IInv, TypeOK
<1>4. ASSUME NEW a \in Actors, SendUnkeyed(s, a)
      PROVE  IInv'
  <2> DEFINE r == [Idle EXCEPT !.pc = "mint", !.actor = a]
  <2>1. r \in Request /\ r.pc = "mint" /\ r.key = Nil /\ r.actor \in Actors
    BY DEF Idle, Request, Pcs
  <2>2. QED  BY <1>2, <1>4, <2>1, QuietKeeps DEF SendUnkeyed, At, history, IInv, TypeOK
<1>5. CASE FindPrior(s)
  <2>1. CASE ReplayOrConflict(s, keyRow[Caller(s)])
    BY <1>5, <2>1, ReplayKeeps DEF FindPrior, At
  <2>2. CASE GoTo(s, "reserve") /\ UNCHANGED <<keyRow, maintainer, history>>
    <3> DEFINE r == [req[s] EXCEPT !.pc = "reserve"]
    <3>1. req' = [req EXCEPT ![s] = r]
      BY <2>2 DEF GoTo
    <3>2. r \in Request /\ r.pc = "reserve" /\ r.key # Nil /\ r.actor \in Actors
      BY <1>1, <1>5, CallerKnown DEF FindPrior, At, IInv, LocalsSound, Keyed, Request, Pcs
    <3>3. QED
      BY <1>2, <1>5, <2>2, <3>1, <3>2, QuietKeeps DEF FindPrior, At, history, IInv, TypeOK
  <2>3. QED  BY <1>5, <2>1, <2>2 DEF FindPrior
<1>6. CASE ReadWinner(s)
  BY <1>6, ReplayKeeps DEF ReadWinner, At
<1>7. CASE FindRejects(s)
  BY <1>1, <1>2, <1>7, QuietKeeps DEF FindRejects, Finish, history, IInv, TypeOK
<1>8. QED  BY <1>3, <1>4, <1>5, <1>6, <1>7

(* The insert that wins the unique index: the row was free, so nothing made   *)
(* for the caller is left over.                                              *)
LEMMA ReserveKeeps ==
  ASSUME IInv, NEW s \in Slots, Reserve(s)
  PROVE  IInv'
<1> DEFINE c == Caller(s)
           r == [req[s] EXCEPT !.pc = "mint"]
           q == [req[s] EXCEPT !.pc = "winner"]
<1>1. /\ req[s] \in Request /\ Keyed(s) /\ c \in Callers /\ req[s].actor \in Actors
      /\ req[s].pc = "reserve"
  BY CallerKnown DEF IInv, TypeOK, LocalsSound, Reserve, At
<1>2. CASE keyRow[c] # Absent /\ GoTo(s, "winner") /\ UNCHANGED keyRow
  <2>1. q \in Request /\ q.pc = "winner" /\ q.key # Nil /\ q.actor \in Actors
    BY <1>1 DEF Request, Pcs, Keyed
  <2>2. /\ answered \in [Callers -> SUBSET Ids]
        /\ \A d \in Callers : answered[d] \subseteq made[d]
    BY DEF IInv, TypeOK, NamesSound
  <2>3. req' = [req EXCEPT ![s] = q]
    BY <1>2 DEF GoTo
  <2>4. QED
    BY <1>1, <1>2, <2>1, <2>2, <2>3, QuietKeeps DEF Reserve, history, IInv, TypeOK
<1>3. CASE keyRow[c] = Absent /\ SetRow(c, Reserved) /\ GoTo(s, "mint")
  <2>1. /\ r \in Request /\ r.pc = "mint" /\ r.key = req[s].key /\ r.actor = req[s].actor
        /\ r.bounty = req[s].bounty
    BY <1>1 DEF Request, Pcs
  <2>2. req' = [req EXCEPT ![s] = r]
    BY <1>3 DEF GoTo
  <2> HIDE DEF r
  <2>3. /\ req'[s] = r
      /\ \A t \in Slots : t # s =>
           /\ req'[t] = req[t] /\ Caller(t)' = Caller(t) /\ (Keyed(t)' <=> Keyed(t))
           /\ \A pc : At(t, pc)' <=> At(t, pc)
           /\ \A d : Holds(t, d)' <=> Holds(t, d)
    BY <2>2, OthersStay
  <2>4. /\ \A d : Holds(s, d)' <=> d = c
        /\ \A t \in Slots : ~ Holds(t, c)
        /\ ~ At(s, "finalize")' /\ ~ At(s, "release")' /\ \A d : ~ Holds(s, d)
    BY <1>1, <1>3, <2>1, <2>3, RowsDiffer DEF Holds, Caller, Keyed, At, IInv, HoldersSound
  <2>5. /\ keyRow'[c] = Reserved /\ \A d \in Callers : d # c => keyRow'[d] = keyRow[d]
        /\ keyRow' \in [Callers -> Row]
    BY <1>1, <1>3, RowsDiffer DEF SetRow, IInv, TypeOK
  <2>6. UNCHANGED <<maintainer, made, answered, failed, abandoned>>
    BY DEF Reserve, history
  <2>7. TypeOK'
    BY <2>1, <2>2, <2>5, <2>6 DEF IInv, TypeOK
  <2>8. LocalsSound'
    BY <1>1, <2>1, <2>3, <2>6 DEF IInv, LocalsSound, At, Keyed
  <2>9. HoldersSound'
    BY <2>3, <2>4, <2>5, <2>6 DEF IInv, HoldersSound
  <2>10. made[c] \ failed = {}
    BY <1>1, <1>3, RowsDiffer DEF IInv, MadeSound, Named
  <2>11. MadeSound'
    BY <2>3, <2>4, <2>5, <2>6, <2>10 DEF IInv, MadeSound, Named
  <2>12. NamesSound'
    BY <2>5, <2>6, RowsDiffer DEF IInv, NamesSound
  <2>13. ReservationsAreHeld'
    BY <2>3, <2>4, <2>5, <2>6 DEF IInv, ReservationsAreHeld
  <2>14. QED  BY <2>7, <2>8, <2>9, <2>11, <2>12, <2>13 DEF IInv
<1>4. QED  BY <1>2, <1>3 DEF Reserve

(* The insert rejects: the row, if it was inserted, is nobody's.              *)
LEMMA ReserveRejectsKeeps ==
  ASSUME IInv, NEW s \in Slots, ReserveRejects(s)
  PROVE  IInv'
<1> DEFINE c == Caller(s)
           r == Idle
<1>1. /\ Keyed(s) /\ c \in Callers /\ req[s].pc = "reserve" /\ Idle \in Request
  BY CallerKnown DEF IInv, LocalsSound, ReserveRejects, At, Idle, Request, Pcs
<1>2. req' = [req EXCEPT ![s] = r]
  BY DEF ReserveRejects, Finish
<1>3. CASE UNCHANGED <<keyRow, abandoned>>
  <2>1. /\ answered \in [Callers -> SUBSET Ids]
        /\ \A d \in Callers : answered[d] \subseteq made[d]
    BY DEF IInv, TypeOK, NamesSound
  <2>2. QED
    BY <1>1, <1>2, <1>3, <2>1, QuietKeeps DEF ReserveRejects, IInv, TypeOK
<1>4. CASE keyRow[c] = Absent /\ SetRow(c, Reserved) /\ abandoned' = abandoned \cup {c}
  <2>1. /\ req'[s] = r
      /\ \A t \in Slots : t # s =>
           /\ req'[t] = req[t] /\ Caller(t)' = Caller(t) /\ (Keyed(t)' <=> Keyed(t))
           /\ \A pc : At(t, pc)' <=> At(t, pc)
           /\ \A d : Holds(t, d)' <=> Holds(t, d)
    BY <1>2, OthersStay
  <2>2. /\ \A d : ~ Holds(s, d)' /\ ~ Holds(s, d)
        /\ \A t \in Slots : ~ Holds(t, c)
    BY <1>1, <1>4, <2>1, RowsDiffer DEF Holds, Idle, IInv, HoldersSound
  <2>3. /\ keyRow'[c] = Reserved /\ \A d \in Callers : d # c => keyRow'[d] = keyRow[d]
        /\ keyRow' \in [Callers -> Row]
    BY <1>1, <1>4, RowsDiffer DEF SetRow, IInv, TypeOK
  <2>4. UNCHANGED <<maintainer, made, answered, failed>>
    BY DEF ReserveRejects
  <2>5. TypeOK'
    BY <1>1, <1>2, <1>4, <2>3, <2>4 DEF IInv, TypeOK
  <2>6. LocalsSound'
    BY <1>1, <2>1, <2>4 DEF IInv, LocalsSound, At, Keyed, Idle
  <2>7. HoldersSound'
    BY <2>1, <2>2, <2>3, <2>4 DEF IInv, HoldersSound
  <2>8. made[c] \ failed = {}
    BY <1>1, <1>4, RowsDiffer DEF IInv, MadeSound, Named
  <2>9. MadeSound'
    BY <2>1, <2>2, <2>3, <2>4, <2>8 DEF IInv, MadeSound, Named
  <2>10. NamesSound'
    BY <2>3, <2>4, RowsDiffer DEF IInv, NamesSound
  <2>11. ReservationsAreHeld'
    BY <1>4, <2>1, <2>2, <2>3 DEF IInv, ReservationsAreHeld
  <2>12. QED  BY <2>5, <2>6, <2>7, <2>9, <2>10, <2>11 DEF IInv
<1>5. QED  BY <1>3, <1>4 DEF ReserveRejects

(* A new bounty is in nobody's set yet, and enters its maker's if he sent a   *)
(* key.                                                                      *)
LEMMA CreateNames ==
  ASSUME IInv, NEW s \in Slots, req[s].pc = "mint", NEW b \in Ids, Create(s, b)
  PROVE  /\ maintainer' \in [Ids -> Actors \cup {Nil}]
         /\ made' \in [Callers -> SUBSET Ids]
         /\ \A d \in Callers :
              /\ made'[d] = IF Keyed(s) /\ d = Caller(s) THEN made[d] \cup {b} ELSE made[d]
              /\ \A x \in made'[d] : maintainer'[x] = d[2]
<1>1. /\ req[s].actor \in Actors
      /\ Keyed(s) => Caller(s) \in Callers /\ Caller(s)[2] = req[s].actor
  BY CallerKnown
<1>2. /\ made \in [Callers -> SUBSET Ids] /\ maintainer \in [Ids -> Actors \cup {Nil}]
      /\ maintainer' = [maintainer EXCEPT ![b] = req[s].actor] /\ maintainer[b] = Nil
  BY DEF IInv, TypeOK, Create
<1>3. \A d \in Callers : b \notin made[d]
  <2>1. ASSUME NEW d \in Callers, b \in made[d] PROVE FALSE
    <3>1. maintainer[b] = d[2] /\ d[2] \in Actors
      BY <2>1 DEF IInv, NamesSound, Callers
    <3>2. QED  BY <1>2, <3>1, PostsAssumption
  <2>2. QED  BY <2>1
<1>4. \A d \in Callers : \A x \in made[d] : maintainer[x] = d[2] /\ x \in Ids /\ x # b
  BY <1>2, <1>3 DEF IInv, NamesSound
<1>5. CASE Keyed(s)
  <2>1. made' = [made EXCEPT ![Caller(s)] = made[Caller(s)] \cup {b}]
    BY <1>5 DEF Create
  <2>2. QED  BY <1>1, <1>2, <1>4, <1>5, <2>1
<1>6. CASE ~ Keyed(s)
  BY <1>1, <1>2, <1>4, <1>6 DEF Create
<1>7. QED  BY <1>5, <1>6

(* The bounty is created for a reservation: the request goes on to name it in *)
(* the row, or, if the insert was reported failed, to release the row.       *)
LEMMA CreateKeyedKeeps ==
  ASSUME IInv, NEW s \in Slots, req[s].pc = "mint", Keyed(s), NEW b \in Ids, Create(s, b),
         NEW r \in Request, req' = [req EXCEPT ![s] = r],
         r.key = req[s].key, r.actor = req[s].actor,
         \/ r.pc = "finalize" /\ r.bounty = b /\ UNCHANGED failed
         \/ r.pc = "release" /\ failed' = failed \cup {b},
         UNCHANGED <<keyRow, answered, abandoned>>
  PROVE  IInv'
<1> DEFINE c == Caller(s)
<1>1. /\ c \in Callers /\ req[s].actor \in Actors
      /\ \A d : (Holds(s, d)' <=> d = c) /\ (Holds(s, d) <=> d = c)
      /\ Caller(s)' = c /\ Keyed(s)'
      /\ \A pc : (At(s, pc)' <=> r.pc = pc) /\ (At(s, pc) <=> pc = "mint")
  <2>1. req'[s] = r
    BY OthersStay
  <2>2. QED  BY <2>1, CallerKnown DEF Holds, Keyed, Caller, At
<1>2. /\ req'[s] = r
      /\ \A t \in Slots : t # s =>
           /\ req'[t] = req[t] /\ Caller(t)' = Caller(t) /\ (Keyed(t)' <=> Keyed(t))
           /\ \A pc : At(t, pc)' <=> At(t, pc)
           /\ \A d : Holds(t, d)' <=> Holds(t, d)
  BY OthersStay
<1>3. /\ keyRow[c] = Reserved /\ keyRow' = keyRow
      /\ \A t \in Slots : Holds(t, c) => t = s
  BY <1>1 DEF IInv, HoldersSound
<1>4. /\ maintainer' \in [Ids -> Actors \cup {Nil}]
      /\ made' \in [Callers -> SUBSET Ids]
      /\ \A d \in Callers :
           /\ made'[d] = IF d = c THEN made[d] \cup {b} ELSE made[d]
           /\ \A x \in made'[d] : maintainer'[x] = d[2]
  BY CreateNames
<1>5. failed \subseteq failed' /\ failed' \subseteq Ids
  BY DEF IInv, TypeOK
<1>6. TypeOK'
  BY <1>4, <1>5 DEF IInv, TypeOK
<1>7. LocalsSound'
  <2>1. ASSUME NEW t \in Slots, t # s, req[t].pc = "finalize"
        PROVE  req[t].bounty \in made'[Caller(t)]
    BY <1>4, <2>1, CallerKnown DEF IInv, LocalsSound, At
  <2>2. QED
    BY <1>1, <1>2, <1>4, <2>1 DEF IInv, LocalsSound, At
<1>8. HoldersSound'
  BY <1>1, <1>2, <1>3, <1>5 DEF IInv, HoldersSound
<1>9. MadeSound'
  <2>1. \A d \in Callers \ {c} : \A x \in made'[d] \ failed' : Named(d, x)'
    BY <1>1, <1>2, <1>3, <1>4, <1>5 DEF IInv, MadeSound, Named
  <2>2. made[c] \ failed = {}
    BY <1>1, <1>3, RowsDiffer DEF IInv, MadeSound, Named
  <2>3. \A x \in made'[c] \ failed' : Named(c, x)'
    BY <1>1, <1>2, <1>3, <1>4, <1>5, <2>2 DEF Named
  <2>4. QED  BY <1>1, <2>1, <2>3 DEF MadeSound, Named
<1>10. NamesSound'
  BY <1>3, <1>4 DEF IInv, NamesSound
<1>11. ReservationsAreHeld'
  BY <1>1, <1>2, <1>3 DEF IInv, ReservationsAreHeld
<1>12. QED  BY <1>6, <1>7, <1>8, <1>9, <1>10, <1>11 DEF IInv

(* Without a key nothing but the new bounty's row changes.                    *)
LEMMA CreateUnkeyedKeeps ==
  ASSUME IInv, NEW s \in Slots, req[s].pc = "mint", ~ Keyed(s), NEW b \in Ids, Create(s, b),
         req' = [req EXCEPT ![s] = Idle],
         failed \subseteq failed', failed' \subseteq Ids,
         UNCHANGED <<keyRow, answered, abandoned>>
  PROVE  IInv'
<1> DEFINE r == Idle
<1>1. /\ req'[s] = r
      /\ \A t \in Slots : t # s =>
           /\ req'[t] = req[t] /\ Caller(t)' = Caller(t) /\ (Keyed(t)' <=> Keyed(t))
           /\ \A pc : At(t, pc)' <=> At(t, pc)
           /\ \A d : Holds(t, d)' <=> Holds(t, d)
  BY OthersStay
<1>2. \A d : ~ Holds(s, d) /\ ~ Holds(s, d)'
  BY <1>1 DEF Holds, Idle
<1>3. /\ maintainer' \in [Ids -> Actors \cup {Nil}] /\ made' = made
      /\ \A d \in Callers : \A x \in made[d] : maintainer'[x] = d[2]
  BY CreateNames DEF Create
<1>4. TypeOK'
  BY <1>3 DEF IInv, TypeOK, Idle, Request, Pcs
<1>5. LocalsSound'
  BY <1>1, <1>3 DEF IInv, LocalsSound, Idle, At
<1>6. HoldersSound'
  BY <1>1, <1>2 DEF IInv, HoldersSound
<1>7. MadeSound'
  BY <1>1, <1>2, <1>3 DEF IInv, MadeSound, Named
<1>8. NamesSound'
  BY <1>3 DEF IInv, NamesSound
<1>9. ReservationsAreHeld'
  BY <1>1, <1>2 DEF IInv, ReservationsAreHeld
<1>10. QED  BY <1>4, <1>5, <1>6, <1>7, <1>8, <1>9 DEF IInv

LEMMA MintKeeps ==
  ASSUME IInv, NEW s \in Slots, Mint(s) \/ MintRejects(s)
  PROVE  IInv'
<1>1. req[s] \in Request /\ req[s].pc = "mint"
  BY DEF IInv, TypeOK, Mint, MintRejects, At
<1>2. CASE Mint(s)
  <2>1. PICK b \in Ids :
          /\ Create(s, b)
          /\ IF Keyed(s) THEN req' = [req EXCEPT ![s].pc = "finalize", ![s].bounty = b]
             ELSE Finish(s)
    BY <1>2 DEF Mint
  <2> DEFINE r == [req[s] EXCEPT !.pc = "finalize", !.bounty = b]
  <2>2. /\ r \in Request /\ r.pc = "finalize" /\ r.bounty = b
        /\ r.key = req[s].key /\ r.actor = req[s].actor
    BY <1>1 DEF Request, Pcs
  <2>3. req \in [Slots -> Request]
    BY DEF IInv, TypeOK
  <2>4. Keyed(s) => req' = [req EXCEPT ![s] = r]
    <3>1. SUFFICES ASSUME Keyed(s) PROVE req' = [req EXCEPT ![s] = r]
      OBVIOUS
    <3>2. /\ [req EXCEPT ![s].pc = "finalize", ![s].bounty = b]
               = [[req EXCEPT ![s].pc = "finalize"] EXCEPT ![s].bounty = b]
          /\ [req EXCEPT ![s].pc = "finalize"] = [req EXCEPT ![s] = [req[s] EXCEPT !.pc = "finalize"]]
      OBVIOUS
    <3>3. QED  BY <2>1, <2>3, <3>1, <3>2
  <2> HIDE DEF r
  <2>5. UNCHANGED <<keyRow, answered, failed, abandoned>>
    BY <1>2 DEF Mint
  <2>6. CASE Keyed(s)
    BY <1>1, <2>1, <2>2, <2>4, <2>5, <2>6, CreateKeyedKeeps
  <2>7. CASE ~ Keyed(s)
    BY <1>1, <2>1, <2>5, <2>7, CreateUnkeyedKeeps DEF Finish, IInv, TypeOK
  <2>8. QED  BY <2>6, <2>7
<1>3. CASE MintRejects(s)
  <2> DEFINE r == [req[s] EXCEPT !.pc = "release"]
  <2>1. /\ r \in Request /\ r.pc = "release"
        /\ r.key = req[s].key /\ r.actor = req[s].actor
    BY <1>1 DEF Request, Pcs
  <2>2. Keyed(s) => req' = [req EXCEPT ![s] = r]
    BY <1>3 DEF MintRejects, GoTo
  <2> HIDE DEF r
  <2>3. UNCHANGED <<keyRow, answered, abandoned>>
    BY <1>3 DEF MintRejects
  <2>4. CASE \E b \in Ids : Create(s, b) /\ failed' = failed \cup {b}
    <3>1. PICK b \in Ids : Create(s, b) /\ failed' = failed \cup {b}
      BY <2>4
    <3>2. CASE Keyed(s)
      BY <1>1, <2>1, <2>2, <2>3, <3>1, <3>2, CreateKeyedKeeps
    <3>3. CASE ~ Keyed(s)
      BY <1>1, <1>3, <2>3, <3>1, <3>3, CreateUnkeyedKeeps
      DEF MintRejects, Finish, IInv, TypeOK
    <3>4. QED  BY <3>2, <3>3
  <2>5. CASE UNCHANGED <<maintainer, made, failed>>
    <3>1. CASE ~ Keyed(s)
      <4>1. /\ answered \in [Callers -> SUBSET Ids]
            /\ \A d \in Callers : answered[d] \subseteq made[d]
        BY DEF IInv, TypeOK, NamesSound
      <4>2. Idle \in Request /\ req' = [req EXCEPT ![s] = Idle]
        BY <1>3, <3>1 DEF MintRejects, Finish, Idle, Request, Pcs
      <4>3. QED  BY <2>3, <2>5, <3>1, <4>1, <4>2, QuietKeeps DEF IInv, TypeOK
    <3>2. CASE Keyed(s)
      <4> DEFINE c == Caller(s)
      <4>1. /\ req'[s] = r
            /\ \A t \in Slots : t # s =>
                 /\ req'[t] = req[t] /\ Caller(t)' = Caller(t) /\ (Keyed(t)' <=> Keyed(t))
                 /\ \A pc : At(t, pc)' <=> At(t, pc)
                 /\ \A d : Holds(t, d)' <=> Holds(t, d)
        BY <2>2, <3>2, OthersStay
      <4>2. /\ c \in Callers /\ req[s].actor \in Actors
            /\ \A d : (Holds(s, d)' <=> d = c) /\ (Holds(s, d) <=> d = c)
            /\ Caller(s)' = c /\ Keyed(s)'
            /\ \A pc : (At(s, pc)' <=> r.pc = pc) /\ (At(s, pc) <=> pc = "mint")
        BY <1>1, <2>1, <3>2, <4>1, CallerKnown DEF Holds, Keyed, Caller, At
      <4>3. TypeOK'
        BY <2>1, <2>2, <2>3, <2>5, <3>2 DEF IInv, TypeOK
      <4>4. LocalsSound'
        BY <2>1, <2>5, <4>1, <4>2 DEF IInv, LocalsSound, At
      <4>5. HoldersSound'
        BY <2>1, <2>3, <2>5, <4>1, <4>2 DEF IInv, HoldersSound
      <4>6. MadeSound'
        BY <2>1, <2>3, <2>5, <4>1, <4>2 DEF IInv, MadeSound, Named
      <4>7. NamesSound'
        BY <2>3, <2>5 DEF IInv, NamesSound
      <4>8. ReservationsAreHeld'
        BY <2>3, <4>1, <4>2 DEF IInv, ReservationsAreHeld
      <4>9. QED  BY <4>3, <4>4, <4>5, <4>6, <4>7, <4>8 DEF IInv
    <3>3. QED  BY <3>1, <3>2
  <2>6. QED  BY <1>3, <2>4, <2>5 DEF MintRejects
<1>4. QED  BY <1>2, <1>3

(* The holder of a row ends, leaving a row that names what was made for its   *)
(* caller, if anything is left of it.                                        *)
LEMMA EndKeeps ==
  ASSUME IInv, NEW s \in Slots, NEW c \in Callers, Holds(s, c), NEW row \in Row,
         req' = [req EXCEPT ![s] = Idle], keyRow' = [keyRow EXCEPT ![c] = row],
         UNCHANGED <<maintainer, made>>,
         answered' \in [Callers -> SUBSET Ids],
         \A d \in Callers : answered'[d] \subseteq made[d],
         failed \subseteq failed', failed' \subseteq Ids,
         abandoned \subseteq abandoned', abandoned' \subseteq Callers,
         \A b \in made[c] \ failed' : row = Final(b),
         \A b \in Ids : row = Final(b) => b \in made[c],
         row = Reserved => c \in abandoned'
  PROVE  IInv'
<1> DEFINE r == Idle
<1>1. /\ req'[s] = r
      /\ \A t \in Slots : t # s =>
           /\ req'[t] = req[t] /\ Caller(t)' = Caller(t) /\ (Keyed(t)' <=> Keyed(t))
           /\ \A pc : At(t, pc)' <=> At(t, pc)
           /\ \A d : Holds(t, d)' <=> Holds(t, d)
  BY OthersStay
<1>2. /\ \A d : ~ Holds(s, d)'
      /\ \A t \in Slots : t # s => ~ Holds(t, c)
      /\ \A d \in Callers : Holds(s, d) => d = c
  BY <1>1 DEF Holds, Idle, IInv, HoldersSound
<1>3. /\ keyRow'[c] = row /\ \A d \in Callers : d # c => keyRow'[d] = keyRow[d]
      /\ keyRow' \in [Callers -> Row]
  BY DEF IInv, TypeOK
<1>4. TypeOK'
  BY <1>3 DEF IInv, TypeOK, Idle, Request, Pcs
<1>5. LocalsSound'
  BY <1>1 DEF IInv, LocalsSound, Idle, At
<1>6. HoldersSound'
  BY <1>1, <1>2, <1>3 DEF IInv, HoldersSound
<1>7. MadeSound'
  BY <1>1, <1>2, <1>3 DEF IInv, MadeSound, Named
<1>8. NamesSound'
  BY <1>3 DEF IInv, NamesSound
<1>9. ReservationsAreHeld'
  BY <1>1, <1>2, <1>3 DEF IInv, ReservationsAreHeld
<1>10. QED  BY <1>4, <1>5, <1>6, <1>7, <1>8, <1>9 DEF IInv

(* What a holder leaves behind depends on how far it got.                     *)
LEMMA HolderKnows ==
  ASSUME IInv, NEW s \in Slots, NEW c \in Callers, Holds(s, c)
  PROVE  /\ keyRow[c] \in Row /\ keyRow = [keyRow EXCEPT ![c] = keyRow[c]]
         /\ ~ At(s, "release") => keyRow[c] = Reserved
         /\ \A b \in made[c] \ failed : At(s, "finalize") /\ b = req[s].bounty
         /\ \A b \in Ids : keyRow[c] = Final(b) => b \in made[c]
<1>1. keyRow \in [Callers -> Row]
  BY DEF IInv, TypeOK
<1>2. /\ \A t \in Slots : Holds(t, c) => t = s
      /\ ~ At(s, "release") => keyRow[c] = Reserved
      /\ keyRow[c] = Reserved \/ \E b \in failed : keyRow[c] = Final(b)
  BY DEF IInv, HoldersSound
<1>3. \A b \in made[c] \ failed : At(s, "finalize") /\ b = req[s].bounty
  BY <1>2, RowsDiffer DEF IInv, MadeSound, Named
<1>4. \A b \in Ids : keyRow[c] = Final(b) => b \in made[c]
  BY DEF IInv, NamesSound
<1>5. QED  BY <1>1, <1>2, <1>3, <1>4

LEMMA FinalizeKeeps ==
  ASSUME IInv, NEW s \in Slots, Finalize(s)
  PROVE  IInv'
<1> DEFINE c == Caller(s)
           b == req[s].bounty
<1>1. /\ req[s].pc = "finalize" /\ At(s, "finalize") /\ Keyed(s)
      /\ c \in Callers /\ Holds(s, c) /\ b \in made[c]
  BY CallerKnown DEF IInv, LocalsSound, Finalize, At, Holds
<1>2. b \in Ids /\ Final(b) \in Row
  BY <1>1, RowsDiffer DEF IInv, TypeOK
<1>3. keyRow[c] = Reserved
  BY <1>1, HolderKnows DEF At
<1>4. keyRow' = [keyRow EXCEPT ![c] = Final(b)]
  BY <1>3, RowsDiffer DEF Finalize, SetRow
<1>5. /\ answered' \in [Callers -> SUBSET Ids]
      /\ \A d \in Callers : answered'[d] \subseteq made[d]
  BY <1>1, <1>2 DEF Finalize, Answer, IInv, TypeOK, NamesSound
<1>6. /\ \A x \in made[c] \ failed : Final(b) = Final(x)
      /\ \A x \in Ids : Final(b) = Final(x) => x \in made[c]
      /\ Final(b) # Reserved
  BY <1>1, HolderKnows, RowsDiffer
<1>7. QED
  BY <1>1, <1>2, <1>4, <1>5, <1>6, EndKeeps DEF Finalize, Finish, IInv, TypeOK

LEMMA ReleaseKeeps ==
  ASSUME IInv, NEW s \in Slots, Release(s) \/ ReleaseRejects(s)
  PROVE  IInv'
<1> DEFINE c == Caller(s)
<1>1. /\ req[s].pc = "release" /\ At(s, "release") /\ Keyed(s)
      /\ c \in Callers /\ Holds(s, c)
  BY CallerKnown DEF IInv, LocalsSound, Release, ReleaseRejects, At, Holds
<1>2. /\ answered \in [Callers -> SUBSET Ids]
      /\ \A d \in Callers : answered[d] \subseteq made[d]
  BY DEF IInv, TypeOK, NamesSound
<1>3. made[c] \ failed = {}
  BY <1>1, HolderKnows DEF At
<1>4. CASE Release(s)
  <2>1. /\ keyRow' = [keyRow EXCEPT ![c] = Absent] /\ req' = [req EXCEPT ![s] = Idle]
        /\ UNCHANGED <<maintainer, made, answered, failed, abandoned>>
        /\ failed \subseteq Ids /\ abandoned \subseteq Callers
    BY <1>4 DEF Release, SetRow, Finish, history, IInv, TypeOK
  <2>2. /\ Absent \in Row /\ Absent # Reserved
        /\ \A x \in Ids : Absent # Final(x)
    BY RowsDiffer
  <2>3. /\ answered' \in [Callers -> SUBSET Ids]
        /\ \A d \in Callers : answered'[d] \subseteq made[d]
        /\ failed \subseteq failed' /\ failed' \subseteq Ids
        /\ abandoned \subseteq abandoned' /\ abandoned' \subseteq Callers
    BY <1>2, <2>1
  <2>4. /\ \A b \in made[c] \ failed' : Absent = Final(b)
        /\ \A b \in Ids : Absent = Final(b) => b \in made[c]
        /\ Absent = Reserved => c \in abandoned'
    BY <1>3, <2>1, <2>2
  <2>5. QED  BY <1>1, <2>1, <2>2, <2>3, <2>4, EndKeeps
<1>5. CASE ReleaseRejects(s)
  <2>1. /\ keyRow[c] \in Row /\ keyRow' = [keyRow EXCEPT ![c] = keyRow[c]]
        /\ \A x \in Ids : keyRow[c] = Final(x) => x \in made[c]
    BY <1>1, <1>5, HolderKnows DEF ReleaseRejects
  <2>2. QED
    BY <1>1, <1>2, <1>3, <1>5, <2>1, EndKeeps
    DEF ReleaseRejects, Finish, IInv, TypeOK
<1>6. QED  BY <1>4, <1>5

(* The update rejects, applied or not: from here on the bounty is one of a    *)
(* failed request.                                                           *)
LEMMA FinalizeRejectsKeeps ==
  ASSUME IInv, NEW s \in Slots, FinalizeRejects(s)
  PROVE  IInv'
<1> DEFINE c == Caller(s)
           b == req[s].bounty
           r == [req[s] EXCEPT !.pc = "release"]
<1>1. /\ req[s].pc = "finalize" /\ At(s, "finalize") /\ Keyed(s) /\ req[s] \in Request
      /\ c \in Callers /\ Holds(s, c) /\ b \in made[c] /\ b \in Ids
      /\ req[s].actor \in Actors
  BY CallerKnown DEF IInv, LocalsSound, TypeOK, FinalizeRejects, At, Holds
<1>2. /\ r \in Request /\ r.pc = "release" /\ r.key = req[s].key /\ r.actor = req[s].actor
      /\ req' = [req EXCEPT ![s] = r]
  BY <1>1 DEF Request, Pcs, FinalizeRejects, GoTo
<1> HIDE DEF r
<1>3. /\ req'[s] = r
      /\ \A t \in Slots : t # s =>
           /\ req'[t] = req[t] /\ Caller(t)' = Caller(t) /\ (Keyed(t)' <=> Keyed(t))
           /\ \A pc : At(t, pc)' <=> At(t, pc)
           /\ \A d : Holds(t, d)' <=> Holds(t, d)
  BY <1>2, OthersStay
<1>4. /\ \A d : (Holds(s, d)' <=> d = c) /\ (Holds(s, d) <=> d = c)
      /\ Caller(s)' = c /\ Keyed(s)'
      /\ \A pc : (At(s, pc)' <=> r.pc = pc) /\ (At(s, pc) <=> pc = "finalize")
  BY <1>1, <1>2, <1>3 DEF Holds, Keyed, Caller, At
<1>5. keyRow[c] = Reserved /\ \A t \in Slots : Holds(t, c) => t = s
  BY <1>1, <1>4 DEF IInv, HoldersSound
<1>6. /\ keyRow'[c] = Reserved \/ keyRow'[c] = Final(b)
      /\ \A d \in Callers : d # c => keyRow'[d] = keyRow[d]
      /\ keyRow' \in [Callers -> Row]
  BY <1>1, <1>5, RowsDiffer DEF FinalizeRejects, SetRow, IInv, TypeOK
<1>7. failed' = failed \cup {b} /\ UNCHANGED <<maintainer, made, answered, abandoned>>
  BY DEF FinalizeRejects
<1>8. \A x \in made[c] : x \in failed'
  BY <1>1, <1>7, HolderKnows
<1>9. TypeOK'
  BY <1>1, <1>2, <1>6, <1>7 DEF IInv, TypeOK
<1>10. LocalsSound'
  BY <1>1, <1>2, <1>3, <1>4, <1>7 DEF IInv, LocalsSound, At
<1>11. HoldersSound'
  BY <1>2, <1>3, <1>4, <1>5, <1>6, <1>7 DEF IInv, HoldersSound
<1>12. MadeSound'
  BY <1>3, <1>4, <1>6, <1>7, <1>8 DEF IInv, MadeSound, Named
<1>13. NamesSound'
  BY <1>1, <1>6, <1>7, RowsDiffer DEF IInv, NamesSound
<1>14. ReservationsAreHeld'
  BY <1>3, <1>4, <1>6, <1>7 DEF IInv, ReservationsAreHeld
<1>15. QED  BY <1>9, <1>10, <1>11, <1>12, <1>13, <1>14 DEF IInv

(* The process dies at any await.                                            *)
LEMMA CrashKeeps ==
  ASSUME IInv, NEW s \in Slots, Crash(s)
  PROVE  IInv'
<1>1. /\ answered \in [Callers -> SUBSET Ids]
      /\ \A d \in Callers : answered[d] \subseteq made[d]
      /\ failed \subseteq failed' /\ failed' \subseteq Ids
      /\ abandoned \subseteq abandoned' /\ abandoned' \subseteq Callers
      /\ req' = [req EXCEPT ![s] = Idle] /\ UNCHANGED <<keyRow, maintainer, made, answered>>
      /\ Idle \in Request
  BY DEF Crash, Finish, IInv, TypeOK, NamesSound, Request, Idle, Pcs
<1>2. CASE \E c \in Callers : Holds(s, c)
  <2>1. PICK c \in Callers : Holds(s, c)
    BY <1>2
  <2>2. c \in abandoned'
    BY <2>1 DEF Crash
  <2>3. /\ keyRow[c] \in Row /\ keyRow' = [keyRow EXCEPT ![c] = keyRow[c]]
        /\ \A b \in Ids : keyRow[c] = Final(b) => b \in made[c]
        /\ \A b \in made[c] \ failed : b = req[s].bounty
    BY <1>1, <2>1, HolderKnows
  <2>4. \A b \in made[c] : b \in failed'
    BY <2>3, PostsAssumption DEF Crash, IInv, TypeOK
  <2>5. QED  BY <1>1, <2>1, <2>2, <2>3, <2>4, EndKeeps
<1>3. CASE \A c \in Callers : ~ Holds(s, c)
  <2>1. UNCHANGED abandoned
    BY <1>3 DEF Crash
  <2>2. req[s].pc \in {"idle", "find", "reserve", "winner"} \/ ~ Keyed(s)
    BY <1>3, CallerKnown DEF Holds, IInv, TypeOK, Request, Pcs
  <2>3. QED  BY <1>1, <2>1, <2>2, QuietKeeps
<1>4. QED  BY <1>2, <1>3

(* The TTL index removes a row nobody holds, and the key's history with it.   *)
LEMMA ExpireKeeps ==
  ASSUME IInv, NEW c \in Callers, Expire(c)
  PROVE  IInv'
<1>1. /\ \A s \in Slots : ~ Holds(s, c)
      /\ keyRow'[c] = Absent /\ \A d \in Callers : d # c => keyRow'[d] = keyRow[d]
      /\ made'[c] = {} /\ \A d \in Callers : d # c => made'[d] = made[d]
      /\ answered'[c] = {} /\ \A d \in Callers : d # c => answered'[d] = answered[d]
      /\ abandoned' = abandoned \ {c}
      /\ maintainer' = maintainer /\ req' = req /\ failed' = failed
  BY DEF Expire, Expirable, SetRow, IInv, TypeOK
<1>2. TypeOK'
  BY RowsDiffer DEF IInv, TypeOK, Expire, SetRow
<1>3. \A s \in Slots : /\ \A d : Holds(s, d)' <=> Holds(s, d)
                      /\ \A pc : At(s, pc)' <=> At(s, pc)
                      /\ Caller(s)' = Caller(s) /\ (Keyed(s)' <=> Keyed(s))
                      /\ req'[s] = req[s]
  BY <1>1 DEF Holds, At, Caller, Keyed
<1>4. LocalsSound'
  <2>1. ASSUME NEW s \in Slots, At(s, "finalize") PROVE req[s].bounty \in made'[Caller(s)]
    <3>1. /\ Keyed(s) /\ Caller(s) \in Callers /\ Holds(s, Caller(s))
          /\ req[s].bounty \in made[Caller(s)]
      BY <2>1, CallerKnown DEF IInv, LocalsSound, Holds, At
    <3>2. QED  BY <1>1, <3>1
  <2>2. QED  BY <1>1, <1>3, <2>1 DEF IInv, LocalsSound, At, Keyed, Caller
<1>5. HoldersSound'
  BY <1>1 DEF IInv, HoldersSound, Holds, At, Keyed, Caller
<1>6. MadeSound'
  BY <1>1 DEF IInv, MadeSound, Named, Holds, At, Keyed, Caller
<1>7. NamesSound'
  BY <1>1, RowsDiffer DEF IInv, NamesSound
<1>8. ReservationsAreHeld'
  BY <1>1, <1>3, RowsDiffer DEF IInv, ReservationsAreHeld
<1>9. QED  BY <1>2, <1>4, <1>5, <1>6, <1>7, <1>8 DEF IInv

LEMMA NextIInv == IInv /\ [Next]_vars => IInv'
<1> SUFFICES ASSUME IInv, [Next]_vars PROVE IInv'
  OBVIOUS
<1>1. CASE UNCHANGED vars
  BY <1>1
  DEF vars, IInv, TypeOK, LocalsSound, HoldersSound, MadeSound, NamesSound,
      ReservationsAreHeld, Named, Holds, At, Keyed, Caller
<1>2. ASSUME NEW s \in Slots,
             \/ \E k \in Keys, a \in Actors : Send(s, k, a)
             \/ \E a \in Actors : SendUnkeyed(s, a)
             \/ Proceed(s) \/ Rejects(s) \/ Crash(s)
      PROVE  IInv'
  BY <1>2, BeforeKeeps, ReserveKeeps, ReserveRejectsKeeps, MintKeeps, FinalizeKeeps,
     FinalizeRejectsKeeps, ReleaseKeeps, CrashKeeps
  DEF Proceed, Rejects
<1>3. QED  BY <1>1, <1>2, ExpireKeeps DEF Next

(* Rows, bounties and requests keep their types.                             *)
THEOREM TypeCorrect == Spec => []TypeOK
<1>1. IInv => TypeOK
  BY DEF IInv
<1>2. QED  BY InitIInv, NextIInv, <1>1, PTL DEF Spec

(* However repetitions of a POST /bounties overlap, one key makes at most one *)
(* bounty, apart from those of failed requests (bounties.ts:97-130).         *)
THEOREM ActsOnce == Spec => []OneBountyPerKey
<1>1. IInv => OneBountyPerKey
  BY RowsDiffer
  DEF IInv, MadeSound, HoldersSound, Named, OneBountyPerKey, AtMostOne
<1>2. QED  BY InitIInv, NextIInv, <1>1, PTL DEF Spec

(* All the answers to one key name the same bounty, with the same exception.  *)
THEOREM RepliesAreOne == Spec => []RepliesAgree
<1>1. IInv => OneBountyPerKey
  BY RowsDiffer
  DEF IInv, MadeSound, HoldersSound, Named, OneBountyPerKey, AtMostOne
<1>2. IInv => RepliesAgree
  BY <1>1 DEF IInv, NamesSound, OneBountyPerKey, RepliesAgree, AtMostOne
<1>3. QED  BY InitIInv, NextIInv, <1>2, PTL DEF Spec

(* A caller is only told of bounties of his own, whichever key strings others *)
(* use (idempotencyKey.model.ts:26-30).                                      *)
THEOREM RepliesAreOwn == Spec => []OwnRepliesOnly
<1>1. IInv => OwnRepliesOnly
  BY DEF IInv, NamesSound, OwnRepliesOnly
<1>2. QED  BY InitIInv, NextIInv, <1>1, PTL DEF Spec

(* A reservation without a request at work is one whose request was cut off   *)
(* (bounties.ts:167-175).                                                    *)
THEOREM NoneForgotten == Spec => []ReservationsAreHeld
<1>1. IInv => ReservationsAreHeld
  BY DEF IInv
<1>2. QED  BY InitIInv, NextIInv, <1>1, PTL DEF Spec
=============================================================================

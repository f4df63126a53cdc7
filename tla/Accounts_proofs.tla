--------------------------- MODULE Accounts_proofs ---------------------------
(* One session for one nonce, and one account for one wallet in both          *)
(* documents of a link, for any number of wallets, accounts, logins and      *)
(* requests at once.                                                         *)
EXTENDS Accounts, TLAPS

(* s has consumed nonce n and may still start the session.                   *)
MayStart(s, n) == At(s, "verify.check") /\ req[s].cookie = n

(* A nonce is unused, or being used by one request, or used up.              *)
SpentOnce ==
  \A n \in Nonces :
    /\ sessions[n] <= 1
    /\ n \in nonces => sessions[n] = 0 /\ \A s \in Slots : ~ MayStart(s, n)
    /\ \A s \in Slots : MayStart(s, n) =>
         sessions[n] = 0 /\ n \in issued /\ \A t \in Slots : MayStart(t, n) => t = s
    /\ n \notin issued => sessions[n] = 0

(* A login request knows its wallet and its two nonces, a link request its   *)
(* wallet, and past the consent screen its account.                          *)
LocalsSound ==
  \A s \in Slots :
    /\ req[s].pc \in VerifyPcs =>
         req[s].wallet \in Wallets /\ req[s].nonce \in Nonces /\ req[s].cookie \in issued
    /\ Linking(s) => req[s].wallet \in Wallets
    /\ req[s].pc \in LinkPcs \ {"unlink.grant", "unlink.hunter"} => req[s].github \in Githubs

IInv == TypeOK /\ LocalsSound /\ SpentOnce

LEMMA InitIInv == Init => IInv
  BY DEF Init, IInv, TypeOK, LocalsSound, SpentOnce, MayStart, At, Idle, Request,
         VerifyPcs, LinkPcs, Linking

LEMMA IdleTyped == Idle \in Request
  BY DEF Idle, Request

(* What the actions that leave nonces and sessions alone may do to a request. *)
LEMMA LoginStands ==
  ASSUME IInv, NEW s \in Slots, NEW r \in Request,
         req' = [req EXCEPT ![s] = r],
         r.pc # "verify.check",
         r.pc \in VerifyPcs => r.wallet \in Wallets /\ r.nonce \in Nonces /\ r.cookie \in issued,
         r.pc \in LinkPcs => r.wallet \in Wallets,
         r.pc \in LinkPcs \ {"unlink.grant", "unlink.hunter"} => r.github \in Githubs,
         UNCHANGED <<issued, nonces, sessions>>
  PROVE  LocalsSound' /\ SpentOnce' /\ req' \in [Slots -> Request]
<1>1. req'[s] = r /\ \A t \in Slots : t # s => req'[t] = req[t]
  BY DEF IInv, TypeOK
<1>2. \A t \in Slots, n \in Nonces : MayStart(t, n)' => MayStart(t, n)
  BY <1>1 DEF MayStart, At
<1>3. LocalsSound'
  BY <1>1 DEF IInv, LocalsSound, Linking
<1>4. SpentOnce'
  BY <1>2 DEF IInv, SpentOnce
<1>5. QED  BY <1>3, <1>4 DEF IInv, TypeOK

LEMMA NonceKeeps ==
  ASSUME IInv, NEW n \in Nonces, IssueNonce(n) \/ NonceExpires(n)
  PROVE  IInv'
<1>1. UNCHANGED <<req, sessions>> /\ issued \subseteq issued'
  BY DEF IssueNonce, NonceExpires, login, links
<1>2. TypeOK'
  BY DEF IInv, TypeOK, IssueNonce, NonceExpires, login, links
<1>3. LocalsSound'
  BY <1>1 DEF IInv, LocalsSound, Linking
<1>4. \A t \in Slots, k \in Nonces : MayStart(t, k)' <=> MayStart(t, k)
  BY <1>1 DEF MayStart, At
<1>5. SpentOnce'
  BY <1>1, <1>4 DEF IInv, SpentOnce, IssueNonce, NonceExpires
<1>6. QED  BY <1>2, <1>3, <1>5 DEF IInv

(* Whoever finds the row is the only one to have found it.                   *)
LEMMA ConsumeKeeps ==
  ASSUME IInv, NEW s \in Slots, ConsumeNonce(s)
  PROVE  IInv'
<1>1. /\ req[s] \in Request /\ req[s].cookie \in Nonces
      /\ req[s].wallet \in Wallets /\ req[s].nonce \in Nonces /\ req[s].cookie \in issued
  BY DEF IInv, TypeOK, LocalsSound, ConsumeNonce, At, VerifyPcs
<1>2. CASE req[s].cookie \notin nonces
  <2>1. req' = [req EXCEPT ![s] = Idle] /\ UNCHANGED <<login, links>>
    BY <1>2 DEF ConsumeNonce, Finish, login
  <2>2. LocalsSound' /\ SpentOnce' /\ req' \in [Slots -> Request]
    BY <2>1, IdleTyped, LoginStands DEF Idle, VerifyPcs, LinkPcs, login
  <2>3. QED  BY <2>1, <2>2 DEF IInv, TypeOK, login, links
<1>3. CASE req[s].cookie \in nonces
  <2>1. /\ req' = [req EXCEPT ![s].pc = "verify.check"]
        /\ nonces' = nonces \ {req[s].cookie}
        /\ UNCHANGED <<issued, sessions>>
    BY <1>3 DEF ConsumeNonce, GoTo
  <2>2. /\ req'[s].pc = "verify.check" /\ req'[s].cookie = req[s].cookie
        /\ req'[s].wallet = req[s].wallet /\ req'[s].nonce = req[s].nonce
        /\ \A t \in Slots : t # s => req'[t] = req[t]
    BY <1>1, <2>1 DEF IInv, TypeOK, Request
  <2>3. TypeOK'
    BY <1>1, <1>3 DEF IInv, TypeOK, ConsumeNonce, GoTo, Request, VerifyPcs, links
  <2>4. LocalsSound'
    BY <1>1, <2>1, <2>2 DEF IInv, LocalsSound, Linking, LinkPcs, VerifyPcs
  <2>5. \A t \in Slots, n \in Nonces :
          MayStart(t, n)' <=> (MayStart(t, n) /\ t # s) \/ (t = s /\ n = req[s].cookie)
    BY <2>2 DEF MayStart, At
  <2>6. SpentOnce'
    BY <1>1, <1>3, <2>1, <2>5 DEF IInv, SpentOnce
  <2>7. QED  BY <2>3, <2>4, <2>6 DEF IInv
<1>4. QED  BY <1>2, <1>3

(* The session takes the place of the request that may start it.             *)
LEMMA StartKeeps ==
  ASSUME IInv, NEW s \in Slots, StartSession(s)
  PROVE  IInv'
<1>1. /\ req[s].wallet \in Wallets /\ req[s].nonce \in Nonces
      /\ MayStart(s, req[s].nonce)
  BY DEF IInv, TypeOK, LocalsSound, StartSession, At, VerifyPcs, MayStart
<1>2. req'[s] = Idle /\ \A t \in Slots : t # s => req'[t] = req[t]
  BY DEF IInv, TypeOK, StartSession, Finish
<1>3. sessions[req[s].nonce] = 0 /\ req[s].nonce \in issued
  BY <1>1 DEF IInv, SpentOnce
<1>4. TypeOK'
  BY <1>1, <1>3, IdleTyped DEF IInv, TypeOK, StartSession, Finish, links
<1>5. LocalsSound'
  BY <1>2 DEF IInv, LocalsSound, Linking, StartSession, Idle, VerifyPcs, LinkPcs
<1>6. \A t \in Slots, n \in Nonces : MayStart(t, n)' <=> MayStart(t, n) /\ t # s
  BY <1>2 DEF MayStart, At, Idle
<1>7. \A n \in Nonces : sessions'[n] = IF n = req[s].nonce THEN 1 ELSE sessions[n]
  BY <1>1, <1>3 DEF IInv, TypeOK, StartSession
<1>8. SpentOnce'
  <2>1. UNCHANGED <<nonces, issued>>
    BY DEF StartSession
  <2>2. QED  BY <1>1, <1>3, <1>6, <1>7, <2>1 DEF IInv, SpentOnce
<1>9. QED  BY <1>4, <1>5, <1>8 DEF IInv

(* The other steps of a login, and everything about links.                   *)
LEMMA OtherKeeps ==
  ASSUME IInv, NEW s \in Slots,
         \/ \E w \in Wallets, n, cookie \in Nonces : Verify(s, w, n, cookie)
         \/ RefuseSession(s)
         \/ \E w \in Wallets, g \in Githubs : Callback(s, w, g)
         \/ FindLink(s) \/ StoreGrant(s) \/ LinkHunter(s)
         \/ \E w \in Wallets : Unlink(s, w)
         \/ DeleteGrant(s) \/ UnlinkHunter(s)
         \/ Abort(s)
  PROVE  IInv'
<1>1. req[s] \in Request /\ Idle \in Request
  BY IdleTyped DEF IInv, TypeOK
<1> USE DEF VerifyPcs, LinkPcs
<1>2. ASSUME NEW w \in Wallets, NEW n \in Nonces, NEW cookie \in Nonces,
             Verify(s, w, n, cookie)
      PROVE  IInv'
  <2> DEFINE r == [Idle EXCEPT !.pc = "verify.consume", !.wallet = w, !.nonce = n,
                               !.cookie = cookie]
  <2>1. /\ r \in Request /\ r.pc = "verify.consume" /\ r.wallet \in Wallets
        /\ r.nonce \in Nonces /\ r.cookie \in issued
    BY <1>2 DEF Idle, Request, Verify
  <2>2. LocalsSound' /\ SpentOnce' /\ req' \in [Slots -> Request]
    <3>1. req' = [req EXCEPT ![s] = r] /\ UNCHANGED <<issued, nonces, sessions>>
      BY <1>2 DEF Verify, login
    <3>2. QED  BY <2>1, <3>1, LoginStands
  <2>3. QED  BY <1>2, <2>2 DEF IInv, TypeOK, Verify, login, links
<1>3. CASE RefuseSession(s) \/ Abort(s) \/ LinkHunter(s) \/ UnlinkHunter(s)
  <2>1. req' = [req EXCEPT ![s] = Idle] /\ UNCHANGED <<issued, nonces, sessions>>
    BY <1>3 DEF RefuseSession, Abort, LinkHunter, UnlinkHunter, Finish, login
  <2>2. LocalsSound' /\ SpentOnce' /\ req' \in [Slots -> Request]
    BY <1>1, <2>1, LoginStands DEF Idle
  <2>4. LinkHunter(s) => req[s].wallet \in Wallets /\ req[s].github \in Githubs
    BY DEF IInv, LocalsSound, LinkHunter, At, Linking
  <2>5. UnlinkHunter(s) => req[s].wallet \in Wallets
    BY DEF IInv, LocalsSound, UnlinkHunter, At, Linking
  <2>6. TypeOK'
    BY <1>3, <2>1, <2>2, <2>4, <2>5
    DEF IInv, TypeOK, RefuseSession, Abort, LinkHunter, UnlinkHunter, login, links,
        Linking
  <2>7. QED  BY <2>2, <2>6 DEF IInv
<1>4. ASSUME NEW w \in Wallets, NEW g \in Githubs \cup {Nil}, NEW pc \in LinkPcs,
             (pc = "callback.find" /\ g \in Githubs) \/ pc = "unlink.grant",
             BeginLink(s, pc, w, g)
      PROVE  IInv'
  <2> DEFINE r == [Idle EXCEPT !.pc = pc, !.wallet = w, !.github = g]
  <2>1. r \in Request /\ r.pc = pc /\ r.wallet = w /\ r.github = g
    BY <1>4 DEF Idle, Request
  <2>2. req' = [req EXCEPT ![s] = r] /\ UNCHANGED <<issued, nonces, sessions>>
    BY <1>4 DEF BeginLink, login
  <2>3. LocalsSound' /\ SpentOnce' /\ req' \in [Slots -> Request]
    <3>1. /\ r.pc # "verify.check" /\ r.pc \notin VerifyPcs
          /\ r.pc \in LinkPcs \ {"unlink.grant", "unlink.hunter"} => r.github \in Githubs
      BY <1>4, <2>1
    <3>2. QED  BY <1>4, <2>1, <2>2, <3>1, LoginStands
  <2>4. disturbed' \subseteq Wallets \cup Githubs
    BY <1>4 DEF IInv, TypeOK, BeginLink, Busy
  <2>5. QED  BY <1>4, <2>3, <2>4 DEF IInv, TypeOK, BeginLink, login
<1>5. ASSUME NEW w \in Wallets, NEW g \in Githubs, Callback(s, w, g)
      PROVE  IInv'
  BY <1>4, <1>5 DEF Callback
<1>6. ASSUME NEW w \in Wallets, Unlink(s, w)
      PROVE  IInv'
  BY <1>4, <1>6 DEF Unlink
<1>7. CASE FindLink(s) \/ StoreGrant(s)
  <2>1. req[s].wallet \in Wallets /\ req[s].github \in Githubs
    BY <1>7 DEF IInv, LocalsSound, FindLink, StoreGrant, At, Linking
  <2>2. PICK r \in Request :
          /\ req' = [req EXCEPT ![s] = r]
          /\ r = Idle \/ (r.pc \in LinkPcs /\ r.wallet \in Wallets /\ r.github \in Githubs)
    <3>1. \A pc \in {"callback.store", "callback.hunter"} :
            LET r == [req[s] EXCEPT !.pc = pc] IN
            /\ r \in Request /\ r.pc \in LinkPcs
            /\ r.wallet \in Wallets /\ r.github \in Githubs
            /\ GoTo(s, pc) => req' = [req EXCEPT ![s] = r]
      BY <1>1, <2>1 DEF Request, GoTo
    <3>2. \/ Finish(s) \/ GoTo(s, "callback.store") \/ GoTo(s, "callback.hunter")
      BY <1>7 DEF FindLink, StoreGrant
    <3>3. QED  BY <1>1, <3>1, <3>2 DEF Finish
  <2>3. UNCHANGED login /\ UNCHANGED <<issued, nonces, sessions>>
    BY <1>7 DEF FindLink, StoreGrant, login
  <2>4. LocalsSound' /\ SpentOnce' /\ req' \in [Slots -> Request]
    <3>1. /\ r.pc \notin VerifyPcs
          /\ r.pc \in LinkPcs => r.wallet \in Wallets /\ r.github \in Githubs
      BY <2>2 DEF Idle
    <3>2. QED  BY <2>2, <2>3, <3>1, LoginStands
  <2>5. TypeOK'
    BY <1>7, <2>1, <2>3, <2>4 DEF IInv, TypeOK, FindLink, StoreGrant, login, links
  <2>6. QED  BY <2>4, <2>5 DEF IInv
<1>8. CASE DeleteGrant(s)
  <2>1. req[s].wallet \in Wallets
    BY <1>8 DEF IInv, LocalsSound, DeleteGrant, At, Linking
  <2>2. PICK r \in Request :
          /\ req' = [req EXCEPT ![s] = r]
          /\ r.pc = "unlink.hunter" /\ r.wallet \in Wallets
    <3>1. LET r == [req[s] EXCEPT !.pc = "unlink.hunter"] IN
            /\ r \in Request /\ r.pc = "unlink.hunter" /\ r.wallet \in Wallets
            /\ GoTo(s, "unlink.hunter") => req' = [req EXCEPT ![s] = r]
      BY <1>1, <2>1 DEF Request, GoTo
    <3>2. QED  BY <1>8, <3>1 DEF DeleteGrant
  <2>3. UNCHANGED login /\ UNCHANGED <<issued, nonces, sessions>>
    BY <1>8 DEF DeleteGrant, login
  <2>4. LocalsSound' /\ SpentOnce' /\ req' \in [Slots -> Request]
    BY <2>2, <2>3, LoginStands
  <2>5. grant' \in [Githubs -> Wallets \cup {Nil}] /\ UNCHANGED <<linked, disturbed>>
    BY <1>8 DEF IInv, TypeOK, DeleteGrant
  <2>6. QED  BY <2>3, <2>4, <2>5 DEF IInv, TypeOK, login
<1>9. QED  BY <1>2, <1>3, <1>5, <1>6, <1>7, <1>8

LEMMA NextIInv == IInv /\ [Next]_vars => IInv'
<1>1. CASE UNCHANGED vars
  BY <1>1 DEF vars, login, links, IInv, TypeOK, LocalsSound, SpentOnce, MayStart,
              At, Linking
<1>2. CASE Next
  BY <1>2, NonceKeeps, ConsumeKeeps, StartKeeps, OtherKeeps DEF Next, LoginNonce, AccountRequest
<1>3. QED  BY <1>1, <1>2

LEMMA Inductive == Spec => []IInv
  BY InitIInv, NextIInv, PTL DEF Spec

(* Documents, requests and histories keep their types.                       *)
THEOREM TypeCorrect == Spec => []TypeOK
  BY Inductive, PTL DEF IInv

(* The nonce and the signature of a login start one session, however many    *)
(* requests present them at once, retried, overtaken or cut off.             *)
THEOREM NonceSpentOnce == Spec => []OneSessionPerNonce
<1>1. IInv => OneSessionPerNonce
  BY DEF IInv, SpentOnce, OneSessionPerNonce
<1>2. QED  BY <1>1, Inductive, PTL

-----------------------------------------------------------------------------
(* The binding of wallets and accounts *)

(* What is not disturbed has one link request at most. *)
Alone ==
  \A s, t \in Slots : s # t /\ Linking(s) /\ Linking(t) =>
    /\ req[s].wallet = req[t].wallet => req[s].wallet \in disturbed
    /\ req[s].github = req[t].github => req[s].github \in disturbed \cup {Nil}

(* the unique index on linkedAddress *)
OneGrant ==
  \A g, h \in Githubs : grant[g] # Nil /\ grant[g] = grant[h] => g = h

(* What a callback found is still so when it stores its grant. *)
FoundStands ==
  \A s \in Slots : At(s, "callback.store") =>
    req[s].github \in disturbed \/ grant[req[s].github] \in {Nil, req[s].wallet}

(* Between its writes a request has the grants of its wallet as it wants them. *)
Wanted(s) == IF At(s, "callback.hunter") THEN req[s].github ELSE Nil

HalfDone ==
  \A s \in Slots, w \in Wallets \ disturbed, g \in Githubs \ disturbed :
    Halfway(s, w) => (g = Wanted(s) <=> grant[g] = w)

BInv == Alone /\ OneGrant /\ FoundStands /\ HalfDone /\ BindingAgrees

LEMMA InitBInv == Init => BInv
  BY AccountsAssumption
  DEF Init, BInv, Alone, OneGrant, FoundStands, HalfDone, BindingAgrees, Linking, LinkPcs, At,
      Halfway, Idle

(* A step that leaves the two documents alone keeps the binding, if it begins *)
(* no second request of an undisturbed wallet or account, stores nothing     *)
(* unless it found the account free, and comes to or from between the writes *)
(* of no undisturbed wallet.                                                 *)
LEMMA BindingStands ==
  ASSUME IInv, BInv, NEW s \in Slots, NEW r \in Request,
         req' = [req EXCEPT ![s] = r],
         UNCHANGED <<linked, grant>>, disturbed \subseteq disturbed',
         r.pc \in LinkPcs =>
           \/ Linking(s) /\ r.wallet = req[s].wallet /\ r.github = req[s].github
           \/ {r.wallet, r.github} \cap Busy \subseteq disturbed',
         r.pc = "callback.store" => grant[r.github] \in {Nil, r.wallet},
         r.pc \notin {"callback.hunter", "unlink.hunter"},
         \A w \in Wallets : Halfway(s, w) => w \in disturbed'
  PROVE  BInv'
<1>1. /\ req'[s] = r /\ \A t \in Slots : t # s => req'[t] = req[t]
      /\ \A t \in Slots : req[t].wallet \in Wallets \cup {Nil}
                        /\ req[t].github \in Githubs \cup {Nil}
  BY DEF IInv, TypeOK, Request
<1>2. ASSUME NEW t \in Slots, t # s, Linking(s)', Linking(t)'
      PROVE  /\ r.wallet = req[t].wallet => r.wallet \in disturbed'
             /\ r.github = req[t].github => r.github \in disturbed' \cup {Nil}
  <2>1. r.pc \in LinkPcs /\ Linking(t) /\ req[t].wallet \in Wallets
    BY <1>1, <1>2 DEF Linking, IInv, LocalsSound
  <2>2. CASE Linking(s) /\ r.wallet = req[s].wallet /\ r.github = req[s].github
    BY <1>2, <2>1, <2>2 DEF BInv, Alone
  <2>3. CASE {r.wallet, r.github} \cap Busy \subseteq disturbed'
    <3>1. {req[t].wallet, req[t].github} \ {Nil} \subseteq Busy
      BY <1>1, <2>1 DEF Busy
    <3>2. req[t].wallet # Nil
      BY <2>1, AccountsAssumption
    <3> QED
      BY <2>3, <3>1, <3>2
  <2> QED
    BY <1>2, <2>1, <2>2, <2>3
<1>3. Alone'
  BY <1>1, <1>2 DEF BInv, Alone, Linking
<1>4. OneGrant'
  BY DEF BInv, OneGrant
<1>5. FoundStands'
  BY <1>1 DEF BInv, FoundStands, At
<1>6. \A t \in Slots, w \in Wallets \ disturbed' :
        /\ Halfway(t, w)' <=> Halfway(t, w)
        /\ Halfway(t, w) => t # s /\ Wanted(t)' = Wanted(t)
  BY <1>1 DEF Halfway, Wanted, At
<1>7. HalfDone' /\ BindingAgrees'
  BY <1>6 DEF BInv, HalfDone, BindingAgrees
<1> QED
  BY <1>3, <1>4, <1>5, <1>7 DEF BInv

(* What an undisturbed request at one of its writes knows: no other request   *)
(* is about its wallet, and no other callback about its account.            *)
LEMMA OnItsOwn ==
  ASSUME IInv, BInv, NEW s \in Slots, Linking(s), NEW t \in Slots, t # s, Linking(t)
  PROVE  /\ req[s].wallet \in Wallets /\ req[t].wallet \in Wallets
         /\ req[s].wallet \notin disturbed => req[t].wallet # req[s].wallet
         /\ req[s].github \in Githubs \ disturbed => req[t].github # req[s].github
  BY AccountsAssumption DEF IInv, LocalsSound, BInv, Alone

(* A step between the writes, or at the second, keeps the requests apart. *)
LEMMA StaysAlone ==
  ASSUME IInv, BInv, NEW s \in Slots, NEW r \in Request, Linking(s),
         req' = [req EXCEPT ![s] = r], UNCHANGED disturbed,
         r.pc \in LinkPcs => r.wallet = req[s].wallet /\ r.github = req[s].github
  PROVE  Alone'
<1>1. req'[s] = r /\ \A t \in Slots : t # s => req'[t] = req[t]
  BY DEF IInv, TypeOK
<1> QED
  BY <1>1 DEF BInv, Alone, Linking

(* A request that goes on keeps what it is about. *)
LEMMA GoesOn ==
  ASSUME IInv, NEW s \in Slots, NEW pc \in LinkPcs, GoTo(s, pc)
  PROVE  \E r \in Request :
           /\ req' = [req EXCEPT ![s] = r]
           /\ r.pc = pc /\ r.wallet = req[s].wallet /\ r.github = req[s].github
<1> DEFINE r == [req[s] EXCEPT !.pc = pc]
<1>1. /\ r \in Request /\ r.pc = pc
      /\ r.wallet = req[s].wallet /\ r.github = req[s].github
  BY DEF IInv, TypeOK, Request
<1>2. req' = [req EXCEPT ![s] = r]
  BY DEF GoTo
<1> QED
  BY <1>1, <1>2

LEMMA StoreBinds ==
  ASSUME IInv, BInv, NEW s \in Slots, ~ WalletTaken(s), At(s, "callback.store"),
         grant' = [grant EXCEPT ![req[s].github] = req[s].wallet],
         GoTo(s, "callback.hunter"), UNCHANGED <<linked, disturbed>>
  PROVE  BInv'
<1> DEFINE wallet == req[s].wallet
           github == req[s].github
<1>1. /\ wallet \in Wallets /\ github \in Githubs /\ Linking(s)
      /\ grant \in [Githubs -> Wallets \cup {Nil}] /\ Nil \notin Wallets \cup Githubs
  BY AccountsAssumption DEF IInv, TypeOK, LocalsSound, Linking, LinkPcs, At
<1>2. PICK r \in Request :
        /\ req' = [req EXCEPT ![s] = r]
        /\ r.pc = "callback.hunter" /\ r.wallet = wallet /\ r.github = github
  BY GoesOn DEF LinkPcs
<1>3. req'[s] = r /\ \A t \in Slots : t # s => req'[t] = req[t]
  BY <1>2 DEF IInv, TypeOK
<1>4. /\ grant'[github] = wallet
      /\ \A g \in Githubs : g # github => grant'[g] = grant[g] /\ grant[g] # wallet
  BY <1>1 DEF WalletTaken
<1>5. Alone'
  BY <1>1, <1>2, StaysAlone
<1>6. OneGrant'
  BY <1>1, <1>4 DEF BInv, OneGrant
<1>7. FoundStands'
  <2> SUFFICES ASSUME NEW t \in Slots, At(t, "callback.store")', req'[t].github \notin disturbed
               PROVE  grant'[req'[t].github] \in {Nil, req'[t].wallet}
    BY DEF FoundStands
  <2>1. t # s /\ req'[t] = req[t] /\ At(t, "callback.store") /\ Linking(t)
    BY <1>2, <1>3 DEF At, Linking, LinkPcs
  <2>2. req[t].github # github /\ req[t].github \in Githubs
    BY <1>1, <2>1, OnItsOwn DEF IInv, LocalsSound, Linking, LinkPcs, At
  <2> QED
    BY <1>4, <2>1, <2>2 DEF BInv, FoundStands
<1>8. HalfDone'
  <2> SUFFICES ASSUME NEW t \in Slots, NEW w \in Wallets \ disturbed,
                      NEW g \in Githubs \ disturbed, Halfway(t, w)'
               PROVE  g = Wanted(t)' <=> grant'[g] = w
    BY DEF HalfDone
  <2>1. CASE t = s
    BY <1>1, <1>2, <1>3, <1>4, <2>1 DEF Halfway, Wanted, At
  <2>2. CASE t # s
    <3>1. /\ req'[t] = req[t] /\ Halfway(t, w) /\ Linking(t) /\ Wanted(t)' = Wanted(t)
      BY <1>3, <2>2 DEF Halfway, Wanted, At, Linking, LinkPcs
    <3>2. w # wallet
      BY <1>1, <2>2, <3>1, OnItsOwn DEF Halfway
    <3>3. g # github \/ Wanted(t) # g
      BY <1>1, <2>2, <3>1, OnItsOwn DEF Wanted
    <3> QED
      BY <1>4, <3>1, <3>2, <3>3 DEF BInv, HalfDone
  <2> QED
    BY <2>1, <2>2
<1>9. BindingAgrees'
  <2> SUFFICES ASSUME NEW w \in Wallets \ disturbed, NEW g \in Githubs \ disturbed,
                      \A t \in Slots : ~ Halfway(t, w)'
               PROVE  linked[w] = g <=> grant'[g] = w
    BY DEF BindingAgrees
  <2>1. w # wallet
    BY <1>2, <1>3 DEF Halfway
  <2>2. \A t \in Slots : ~ Halfway(t, w)
    BY <1>3, <2>1 DEF Halfway
  <2>3. g = github => grant[g] \in {Nil, wallet}
    BY DEF BInv, FoundStands
  <2> QED
    BY <1>1, <1>4, <2>1, <2>2, <2>3 DEF BInv, BindingAgrees
<1> QED
  BY <1>5, <1>6, <1>7, <1>8, <1>9 DEF BInv

LEMMA DeleteUnbinds ==
  ASSUME IInv, BInv, NEW s \in Slots, DeleteGrant(s)
  PROVE  BInv'
<1> DEFINE wallet == req[s].wallet
<1>1. /\ At(s, "unlink.grant") /\ wallet \in Wallets /\ Linking(s)
      /\ grant \in [Githubs -> Wallets \cup {Nil}] /\ Nil \notin Wallets \cup Githubs
      /\ UNCHANGED <<linked, disturbed>>
  BY AccountsAssumption DEF IInv, TypeOK, LocalsSound, Linking, LinkPcs, At, DeleteGrant
<1>2. PICK r \in Request :
        /\ req' = [req EXCEPT ![s] = r]
        /\ r.pc = "unlink.hunter" /\ r.wallet = wallet /\ r.github = req[s].github
  BY GoesOn DEF LinkPcs, DeleteGrant
<1>3. req'[s] = r /\ \A t \in Slots : t # s => req'[t] = req[t]
  BY <1>2 DEF IInv, TypeOK
<1>4. \A g \in Githubs : grant'[g] = IF grant[g] = wallet THEN Nil ELSE grant[g]
  BY <1>1 DEF DeleteGrant, BInv, OneGrant
<1>5. Alone'
  BY <1>1, <1>2, StaysAlone
<1>6. OneGrant'
  BY <1>4 DEF BInv, OneGrant
<1>7. FoundStands'
  <2> SUFFICES ASSUME NEW t \in Slots, At(t, "callback.store")', req'[t].github \notin disturbed
               PROVE  grant'[req'[t].github] \in {Nil, req'[t].wallet}
    BY <1>1 DEF FoundStands
  <2>1. t # s /\ req'[t] = req[t] /\ At(t, "callback.store")
    BY <1>2, <1>3 DEF At
  <2>2. req[t].github \in Githubs
    BY <2>1 DEF IInv, LocalsSound, LinkPcs, At
  <2> QED
    BY <1>4, <2>1, <2>2 DEF BInv, FoundStands
<1>8. HalfDone'
  <2> SUFFICES ASSUME NEW t \in Slots, NEW w \in Wallets \ disturbed,
                      NEW g \in Githubs \ disturbed, Halfway(t, w)'
               PROVE  g = Wanted(t)' <=> grant'[g] = w
    BY <1>1 DEF HalfDone
  <2>1. CASE t = s
    BY <1>1, <1>2, <1>3, <1>4, <2>1 DEF Halfway, Wanted, At
  <2>2. CASE t # s
    <3>1. /\ Halfway(t, w) /\ Linking(t) /\ Wanted(t)' = Wanted(t)
      BY <1>3, <2>2 DEF Halfway, Wanted, At, Linking, LinkPcs
    <3>2. w # wallet
      BY <1>1, <2>2, <3>1, OnItsOwn DEF Halfway
    <3> QED
      BY <1>1, <1>4, <3>1, <3>2 DEF BInv, HalfDone
  <2> QED
    BY <2>1, <2>2
<1>9. BindingAgrees'
  <2> SUFFICES ASSUME NEW w \in Wallets \ disturbed, NEW g \in Githubs \ disturbed,
                      \A t \in Slots : ~ Halfway(t, w)'
               PROVE  linked[w] = g <=> grant'[g] = w
    BY <1>1 DEF BindingAgrees
  <2>1. w # wallet
    BY <1>2, <1>3 DEF Halfway
  <2>2. \A t \in Slots : ~ Halfway(t, w)
    BY <1>3, <2>1 DEF Halfway
  <2> QED
    BY <1>1, <1>4, <2>1, <2>2 DEF BInv, BindingAgrees
<1> QED
  BY <1>5, <1>6, <1>7, <1>8, <1>9 DEF BInv

(* The second write brings the hunter document in line with the grants.      *)
LEMMA SecondWriteBinds ==
  ASSUME IInv, BInv, NEW s \in Slots, LinkHunter(s) \/ UnlinkHunter(s)
  PROVE  BInv'
<1> DEFINE wallet == req[s].wallet
<1>1. /\ wallet \in Wallets /\ Halfway(s, wallet) /\ Linking(s)
      /\ linked \in [Wallets -> Githubs \cup {Nil}] /\ Nil \notin Wallets \cup Githubs
      /\ linked' = [linked EXCEPT ![wallet] = Wanted(s)]
      /\ UNCHANGED <<grant, disturbed>> /\ req' = [req EXCEPT ![s] = Idle]
  BY AccountsAssumption DEF IInv, TypeOK, LocalsSound, Linking, LinkPcs, At, LinkHunter,
     UnlinkHunter, Halfway, Wanted, Finish
<1>2. req'[s] = Idle /\ \A t \in Slots : t # s => req'[t] = req[t]
  BY <1>1 DEF IInv, TypeOK
<1>3. Alone'
  BY <1>1, StaysAlone, IdleTyped DEF Idle, LinkPcs
<1>4. OneGrant' /\ FoundStands'
  BY <1>1, <1>2 DEF BInv, OneGrant, FoundStands, At, Idle
<1>5. \A t \in Slots, w \in Wallets :
        /\ Halfway(t, w)' <=> Halfway(t, w) /\ t # s
        /\ t # s => Wanted(t)' = Wanted(t)
  BY <1>2 DEF Halfway, Wanted, At, Idle
<1>6. HalfDone'
  BY <1>1, <1>5 DEF BInv, HalfDone, Halfway
<1>7. BindingAgrees'
  <2> SUFFICES ASSUME NEW w \in Wallets \ disturbed, NEW g \in Githubs \ disturbed,
                      \A t \in Slots : ~ Halfway(t, w)'
               PROVE  linked'[w] = g <=> grant[g] = w
    BY <1>1 DEF BindingAgrees
  <2>1. CASE w = wallet
    BY <1>1, <2>1 DEF BInv, HalfDone
  <2>2. CASE w # wallet
    <3>1. \A t \in Slots : ~ Halfway(t, w)
      BY <1>5, <2>2 DEF Halfway
    <3> QED
      BY <1>1, <2>2, <3>1 DEF BInv, BindingAgrees
  <2> QED
    BY <2>1, <2>2
<1> QED
  BY <1>3, <1>4, <1>6, <1>7 DEF BInv

(* A login step, or an end before the second write, is none of the binding's  *)
(* business.                                                                 *)
LEMMA LoginBinds ==
  ASSUME IInv, BInv, NEW s \in Slots, NEW r \in Request,
         req' = [req EXCEPT ![s] = r], r.pc \notin LinkPcs,
         UNCHANGED <<linked, grant>>, disturbed \subseteq disturbed',
         \A w \in Wallets : Halfway(s, w) => w \in disturbed'
  PROVE  BInv'
<1>1. r.pc \notin {"callback.hunter", "unlink.hunter"} /\ r.pc # "callback.store"
  BY DEF LinkPcs
<1> QED
  BY <1>1, BindingStands

LEMMA BindingKeeps == ASSUME IInv, BInv, [Next]_vars PROVE BInv'
<1>1. ASSUME UNCHANGED <<linked, grant, disturbed, req>> PROVE BInv'
  BY <1>1 DEF BInv, Alone, OneGrant, FoundStands, HalfDone, BindingAgrees, Linking, At,
     Halfway, Wanted
<1>2. CASE UNCHANGED vars \/ LoginNonce
  BY <1>1, <1>2 DEF vars, links, LoginNonce, IssueNonce, NonceExpires
<1>3. ASSUME NEW s \in Slots, AccountRequest(s) PROVE BInv'
  <2>1. ASSUME NEW w \in Wallets, NEW n \in Nonces, NEW cookie \in Nonces,
               Verify(s, w, n, cookie)
        PROVE  BInv'
    <3> DEFINE r == [Idle EXCEPT !.pc = "verify.consume", !.wallet = w, !.nonce = n,
                                 !.cookie = cookie]
    <3>1. /\ req' = [req EXCEPT ![s] = r] /\ UNCHANGED <<linked, grant, disturbed>>
          /\ At(s, "idle")
      BY <2>1 DEF Verify, links
    <3>2. r \in Request /\ r.pc \notin LinkPcs
      BY DEF Idle, Request, VerifyPcs, LinkPcs
    <3>3. \A v \in Wallets : ~ Halfway(s, v)
      BY <3>1 DEF Halfway, At
    <3> HIDE DEF r
    <3> QED
      BY <3>1, <3>2, <3>3, LoginBinds
  <2>2. CASE ConsumeNonce(s)
    <3>1. /\ Finish(s) \/ GoTo(s, "verify.check")
          /\ UNCHANGED <<linked, grant, disturbed>> /\ At(s, "verify.consume")
      BY <2>2 DEF ConsumeNonce, links
    <3>2. PICK r \in Request : req' = [req EXCEPT ![s] = r] /\ r.pc \in {"idle", "verify.check"}
      <4>1. CASE Finish(s)
        BY <4>1, IdleTyped DEF Finish, Idle
      <4>2. CASE GoTo(s, "verify.check")
        <5>1. [req[s] EXCEPT !.pc = "verify.check"] \in Request
          BY DEF IInv, TypeOK, Request, VerifyPcs
        <5>2. [req[s] EXCEPT !.pc = "verify.check"].pc = "verify.check"
          BY DEF IInv, TypeOK, Request
        <5> QED
          BY <4>2, <5>1, <5>2 DEF GoTo
      <4> QED
        BY <3>1, <4>1, <4>2
    <3> QED
      BY <3>1, <3>2, LoginBinds DEF LinkPcs, Halfway, At
  <2>3. ASSUME \/ StartSession(s) \/ RefuseSession(s) \/ Abort(s)
               \/ StoreGrant(s) /\ Finish(s) /\ UNCHANGED grant
               \/ FindLink(s) /\ Finish(s)
        PROVE  BInv'
    <3>1. /\ req' = [req EXCEPT ![s] = Idle] /\ UNCHANGED <<linked, grant>>
          /\ disturbed \subseteq disturbed'
          /\ \A w \in Wallets : Halfway(s, w) => w \in disturbed'
      BY <2>3 DEF StartSession, RefuseSession, Abort, StoreGrant, FindLink, Finish, links,
         At, Halfway
    <3> QED
      BY <3>1, IdleTyped, LoginBinds DEF Idle, LinkPcs
  <2>4. ASSUME NEW w \in Wallets, NEW g \in Githubs \cup {Nil},
               NEW pc \in {"callback.find", "unlink.grant"}, BeginLink(s, pc, w, g)
        PROVE  BInv'
    <3> DEFINE r == [Idle EXCEPT !.pc = pc, !.wallet = w, !.github = g]
    <3>1. /\ req' = [req EXCEPT ![s] = r] /\ UNCHANGED <<linked, grant>> /\ At(s, "idle")
          /\ disturbed' = disturbed \cup ({w, g} \cap Busy)
      BY <2>4 DEF BeginLink
    <3>4. r \in Request /\ r.pc = pc /\ r.wallet = w /\ r.github = g
      BY DEF Idle, Request, LinkPcs
    <3> HIDE DEF r
    <3>2. r.pc \notin {"callback.hunter", "unlink.hunter"} /\ r.pc # "callback.store"
      BY <3>4
    <3>3. \A v \in Wallets : ~ Halfway(s, v)
      BY <3>1 DEF Halfway, At
    <3> QED
      BY <3>1, <3>2, <3>3, <3>4, BindingStands
  <2>5. ASSUME FindLink(s), ~ Finish(s) PROVE BInv'
    <3>1. /\ GoTo(s, "callback.store") /\ grant[req[s].github] \in {Nil, req[s].wallet}
          /\ UNCHANGED <<linked, grant, disturbed>> /\ At(s, "callback.find") /\ Linking(s)
      BY <2>5 DEF FindLink, links, At, Linking, LinkPcs
    <3>2. PICK r \in Request :
            /\ req' = [req EXCEPT ![s] = r]
            /\ r.pc = "callback.store" /\ r.wallet = req[s].wallet /\ r.github = req[s].github
      BY <3>1, GoesOn DEF LinkPcs
    <3>3. r.pc \notin {"callback.hunter", "unlink.hunter"}
      BY <3>2
    <3>4. \A w \in Wallets : ~ Halfway(s, w)
      BY <3>1 DEF Halfway, At
    <3> QED
      BY <3>1, <3>2, <3>3, <3>4, BindingStands
  <2>6. ASSUME StoreGrant(s), ~ (Finish(s) /\ UNCHANGED grant) PROVE BInv'
    BY <2>6, StoreBinds DEF StoreGrant
  <2> QED
    <3>1. FindLink(s) => BInv'
      BY <2>3, <2>5
    <3>4. StoreGrant(s) => BInv'
      BY <2>3, <2>6
    <3>2. ASSUME StartSession(s) \/ RefuseSession(s) \/ Abort(s) PROVE BInv'
      BY <2>3, <3>2
    <3>3. ASSUME NEW w \in Wallets, Unlink(s, w) \/ \E g \in Githubs : Callback(s, w, g)
          PROVE  BInv'
      BY <2>4, <3>3 DEF Callback, Unlink
    <3> QED
      BY <1>3, <2>1, <2>2, <3>1, <3>2, <3>3, <3>4, DeleteUnbinds, SecondWriteBinds
      DEF AccountRequest
<1> QED
  BY <1>2, <1>3 DEF Next

(* The grants and the hunter documents tell of the same wallet for the same   *)
(* account, whatever was linked, refused, unlinked or cut off before, where   *)
(* no two link requests ran into each other and none was cut off between the *)
(* writes of the grant and of the hunter document.                           *)
THEOREM LinksAgree == Spec => []BindingAgrees
<1>1. Init => BInv
  BY InitBInv
<1>2. IInv /\ BInv /\ [Next]_vars => BInv'
  BY BindingKeeps
<1>3. BInv => BindingAgrees
  BY DEF BInv
<1>4. QED  BY <1>1, <1>2, <1>3, Inductive, PTL DEF Spec
=============================================================================

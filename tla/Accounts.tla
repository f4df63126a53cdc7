------------------------------ MODULE Accounts -------------------------------
(***************************************************************************)
(* Wallet login and GitHub linking (api/src/api/routes/auth.ts, github.ts). *)
(* A login consumes a nonce the server recorded and starts a session.  A    *)
(* session may link the wallet to the GitHub account that comes back from   *)
(* the consent screen, and unlink it.  The link is stored twice, in the     *)
(* OAuth grant and in the hunter document, by two writes; the handlers are  *)
(* cut between them.                                                       *)
(*                                                                         *)
(* Signatures and tokens are not modelled: a message is a nonce and the     *)
(* wallet that signed it, and a wallet signs any nonce that was issued.     *)
(* Cookies and sessions end by not being presented any more.                *)
(***************************************************************************)
EXTENDS Naturals

CONSTANTS
  Wallets,
  Githubs,  \* GitHub accounts (githubUserId)
  Nonces,   \* login nonces ever issued (bound)
  Slots,    \* requests in flight at once (bound)
  Nil

ASSUME AccountsAssumption == Nil \notin Wallets \cup Githubs \cup Nonces

VARIABLES
  issued,     \* nonces handed out, as cookies and to be signed
  nonces,     \* rows of the nonces collection
  hunters,    \* wallets that have a hunter document
  linked,     \* [Wallets -> hunter.githubUserId, Nil: unset]
  grant,      \* [Githubs -> linkedAddress of its OAuth grant, Nil: no grant]
  req,        \* [Slots -> the request being handled]
  (* history *)
  sessions,   \* [Nonces -> sessions started from a message that names it]
  loggedIn,   \* wallets that have had a session
  disturbed   \* wallets and accounts whose link requests overlapped, wallets
              \* whose request was cut off between its two writes

login == <<issued, nonces, hunters, sessions, loggedIn>>
links == <<linked, grant, disturbed>>
vars  == <<login, links, req>>

VerifyPcs == {"verify.consume", "verify.check"}
LinkPcs   == {"callback.find", "callback.store", "callback.hunter",
              "unlink.grant", "unlink.hunter"}

(* `cookie` is the nonce of the cookie, `nonce` the one in the message       *)
Request == [pc : {"idle"} \cup VerifyPcs \cup LinkPcs, wallet : Wallets \cup {Nil},
            github : Githubs \cup {Nil}, nonce : Nonces \cup {Nil},
            cookie : Nonces \cup {Nil}]

Idle == [pc |-> "idle", wallet |-> Nil, github |-> Nil, nonce |-> Nil, cookie |-> Nil]

Init ==
  /\ issued = {} /\ nonces = {} /\ hunters = {}
  /\ linked = [w \in Wallets |-> Nil]
  /\ grant = [g \in Githubs |-> Nil]
  /\ req = [s \in Slots |-> Idle]
  /\ sessions = [n \in Nonces |-> 0]
  /\ loggedIn = {} /\ disturbed = {}

-----------------------------------------------------------------------------
At(s, pc)   == req[s].pc = pc
GoTo(s, pc) == req' = [req EXCEPT ![s].pc = pc]
Finish(s)   == req' = [req EXCEPT ![s] = Idle]

-----------------------------------------------------------------------------
(* Login *)

IssueNonce(n) ==
  /\ n \notin issued
  /\ issued' = issued \cup {n}
  /\ nonces' = nonces \cup {n}
  /\ UNCHANGED <<hunters, sessions, loggedIn, links, req>>

(* the TTL index of the nonces collection                                    *)
NonceExpires(n) ==
  /\ n \in nonces
  /\ nonces' = nonces \ {n}
  /\ UNCHANGED <<issued, hunters, sessions, loggedIn, links, req>>

Verify(s, w, n, cookie) ==
  /\ At(s, "idle") /\ n \in issued /\ cookie \in issued
  /\ req' = [req EXCEPT ![s] = [Idle EXCEPT !.pc = "verify.consume", !.wallet = w,
                                            !.nonce = n, !.cookie = cookie]]
  /\ UNCHANGED <<login, links>>

(* seeded fault: the nonce is found, not consumed *)
FaultFindOnly(s) ==
  /\ At(s, "verify.consume")
  /\ IF req[s].cookie \in nonces THEN GoTo(s, "verify.check") ELSE Finish(s)
  /\ UNCHANGED <<login, links>>

(* findOneAndDelete: whoever finds the row has removed it                    *)
ConsumeNonce(s) ==
  /\ At(s, "verify.consume")
  /\ IF req[s].cookie \in nonces THEN GoTo(s, "verify.check") ELSE Finish(s)
  /\ nonces' = nonces \ {req[s].cookie}
  /\ UNCHANGED <<issued, hunters, sessions, loggedIn, links>>

(* seeded fault: the hunter is not upserted *)
FaultNoHunter(s) ==
  /\ At(s, "verify.check")
  /\ req[s].nonce = req[s].cookie
  /\ sessions' = [sessions EXCEPT ![req[s].nonce] = @ + 1]
  /\ loggedIn' = loggedIn \cup {req[s].wallet}
  /\ Finish(s)
  /\ UNCHANGED <<issued, nonces, hunters, links>>

(* verifySiwe, the upsert of the hunter, and the session cookie              *)
StartSession(s) ==
  /\ At(s, "verify.check")
  /\ req[s].nonce = req[s].cookie
  /\ hunters' = hunters \cup {req[s].wallet}
  /\ sessions' = [sessions EXCEPT ![req[s].nonce] = @ + 1]
  /\ loggedIn' = loggedIn \cup {req[s].wallet}
  /\ Finish(s)
  /\ UNCHANGED <<issued, nonces, links>>

(* a nonce mismatch, or anything else verifySiwe objects to                  *)
RefuseSession(s) ==
  /\ At(s, "verify.check")
  /\ Finish(s)
  /\ UNCHANGED <<login, links>>

-----------------------------------------------------------------------------
(* Linking *)

Linking(s) == req[s].pc \in LinkPcs

(* the wallets and accounts that link requests in flight name                *)
Busy ==
  {x \in Wallets \cup Githubs :
     \E t \in Slots : Linking(t) /\ x \in {req[t].wallet, req[t].github}}

BeginLink(s, pc, w, g) ==
  /\ At(s, "idle") /\ w \in loggedIn
  /\ req' = [req EXCEPT ![s] = [Idle EXCEPT !.pc = pc, !.wallet = w, !.github = g]]
  /\ disturbed' = disturbed \cup ({w, g} \cap Busy)
  /\ UNCHANGED <<login, linked, grant>>

(* the browser comes back from GitHub with a state that names the wallet of   *)
(* the session at /start, and a code that stands for the account consenting  *)
Callback(s, w, g) == BeginLink(s, "callback.find", w, g)

(* seeded fault: an existing link is not looked up *)
FaultRepoint(s) ==
  /\ At(s, "callback.find")
  /\ GoTo(s, "callback.store")
  /\ UNCHANGED <<login, links>>

(* an identity linked to another wallet is not re-pointed                    *)
FindLink(s) ==
  /\ At(s, "callback.find")
  /\ IF grant[req[s].github] \in {Nil, req[s].wallet}
     THEN GoTo(s, "callback.store") ELSE Finish(s)
  /\ UNCHANGED <<login, links>>

(* the unique index on linkedAddress                                         *)
WalletTaken(s) ==
  \E g \in Githubs \ {req[s].github} : grant[g] = req[s].wallet

StoreGrant(s) ==
  /\ At(s, "callback.store")
  /\ \/ WalletTaken(s) /\ Finish(s) /\ UNCHANGED grant
     \/ /\ ~ WalletTaken(s)
        /\ grant' = [grant EXCEPT ![req[s].github] = req[s].wallet]
        /\ GoTo(s, "callback.hunter")
  /\ UNCHANGED <<login, linked, disturbed>>

LinkHunter(s) ==
  /\ At(s, "callback.hunter")
  /\ linked' = [linked EXCEPT ![req[s].wallet] = req[s].github]
  /\ hunters' = hunters \cup {req[s].wallet}
  /\ Finish(s)
  /\ UNCHANGED <<issued, nonces, sessions, loggedIn, grant, disturbed>>

Unlink(s, w) == BeginLink(s, "unlink.grant", w, Nil)

(* deleteOne({linkedAddress})                                                *)
DeleteGrant(s) ==
  /\ At(s, "unlink.grant")
  /\ \/ \E g \in Githubs : grant[g] = req[s].wallet /\ grant' = [grant EXCEPT ![g] = Nil]
     \/ (\A g \in Githubs : grant[g] # req[s].wallet) /\ UNCHANGED grant
  /\ GoTo(s, "unlink.hunter")
  /\ UNCHANGED <<login, linked, disturbed>>

UnlinkHunter(s) ==
  /\ At(s, "unlink.hunter")
  /\ linked' = [linked EXCEPT ![req[s].wallet] = Nil]
  /\ Finish(s)
  /\ UNCHANGED <<login, grant, disturbed>>

(* between the two writes of a link request of w                             *)
Halfway(s, w) == req[s].pc \in {"callback.hunter", "unlink.hunter"} /\ req[s].wallet = w

(* the process dies, or an await rejects                                     *)
Abort(s) ==
  /\ ~ At(s, "idle")
  /\ disturbed' = disturbed \cup {w \in Wallets : Halfway(s, w)}
  /\ Finish(s)
  /\ UNCHANGED <<login, linked, grant>>

LoginNonce == \E n \in Nonces : IssueNonce(n) \/ NonceExpires(n)

AccountRequest(s) ==
  \/ \E w \in Wallets, n, cookie \in Nonces : Verify(s, w, n, cookie)
  \/ ConsumeNonce(s) \/ StartSession(s) \/ RefuseSession(s)
  \/ \E w \in Wallets, g \in Githubs : Callback(s, w, g)
  \/ FindLink(s) \/ StoreGrant(s) \/ LinkHunter(s)
  \/ \E w \in Wallets : Unlink(s, w)
  \/ DeleteGrant(s) \/ UnlinkHunter(s)
  \/ Abort(s)

Next == LoginNonce \/ \E s \in Slots : AccountRequest(s)

Spec == Init /\ [][Next]_vars

-----------------------------------------------------------------------------
(* Documents, requests and histories have their types.                       *)
TypeOK ==
  /\ nonces \subseteq issued /\ issued \subseteq Nonces
  /\ loggedIn \subseteq hunters /\ hunters \subseteq Wallets
  /\ linked \in [Wallets -> Githubs \cup {Nil}]
  /\ grant \in [Githubs -> Wallets \cup {Nil}]
  /\ req \in [Slots -> Request]
  /\ sessions \in [Nonces -> Nat]
  /\ disturbed \subseteq Wallets \cup Githubs

(* A nonce and its signature start one session, whoever presents them and    *)
(* how often at once (auth.ts:76-78, nonce.model.ts:3-6).                    *)
OneSessionPerNonce == \A n \in Nonces : sessions[n] <= 1

(* The 1:1 binding of wallets and GitHub accounts (oauthToken.model.ts:31-32) *)
(* is the same in both documents, but between the two writes of a request of  *)
(* the wallet: except for a wallet or an account that two link requests were *)
(* about at once, and a wallet whose request was cut off between its writes. *)
BindingAgrees ==
  \A w \in Wallets \ disturbed, g \in Githubs \ disturbed :
    (\A s \in Slots : ~ Halfway(s, w)) => (linked[w] = g <=> grant[g] = w)
=============================================================================

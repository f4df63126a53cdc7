------------------------------ MODULE RepoHooks ------------------------------
(***************************************************************************)
(* Installing the merge webhook on a repository (api/src/api/routes/repos.ts) *)
(* and recognising its deliveries (webhooks.ts, shared/github/webhook.ts).  *)
(* An install needs the caller's session and GitHub link, so it runs beside *)
(* the requests of Accounts, in the same slots.  It creates a hook on GitHub *)
(* with a fresh signing key and then writes both into the repository's row;  *)
(* installing again rotates the key.                                        *)
(*                                                                         *)
(* GitHub numbers hooks upwards, and every hook has a key of its own, so a   *)
(* hook's number stands for its key too.  0 is no hook.                     *)
(***************************************************************************)
EXTENDS Accounts

CONSTANTS
  Repos,    \* repositories the wallets' GitHub accounts administer
  MaxHooks  \* hooks ever created (bound)

ASSUME HooksAssumption == Nil \notin Repos

VARIABLES
  hooks,    \* hooks created on GitHub so far, of all repositories
  row,      \* [Repos -> the repository's document]
  install,  \* [Slots -> the install being handled]
  (* history *)
  newest,   \* [Repos -> the repository's last created hook]
  replaced, \* [Repos -> the one before it]
  muddled   \* repositories whose installs overlapped or were cut

hookVars == <<hooks, row, install, newest, replaced, muddled>>
allVars  == <<vars, hookVars>>

InstallPcs == {"find", "create", "save"}

(* `hook` is webhookId, `key` and `previous` are the two secrets, `fresh`     *)
(* says that webhookSecretRotatedAt is less than 24 h ago                    *)
Row == [owner : Wallets \cup {Nil}, hook : Nat, key : Nat, previous : Nat, fresh : BOOLEAN]

NoRow == [owner |-> Nil, hook |-> 0, key |-> 0, previous |-> 0, fresh |-> FALSE]

(* `existing` is the current key of the document read, `hook` the new hook    *)
Install == [pc : {"idle"} \cup InstallPcs, wallet : Wallets \cup {Nil},
            repo : Repos \cup {Nil}, existing : Nat, hook : Nat]

NoInstall == [pc |-> "idle", wallet |-> Nil, repo |-> Nil, existing |-> 0, hook |-> 0]

HooksInit ==
  /\ Init
  /\ hooks = 0
  /\ row = [r \in Repos |-> NoRow]
  /\ install = [s \in Slots |-> NoInstall]
  /\ newest = [r \in Repos |-> 0] /\ replaced = [r \in Repos |-> 0]
  /\ muddled = {}

-----------------------------------------------------------------------------
Doing(s, pc)      == install[s].pc = pc
FinishInstall(s)  == install' = [install EXCEPT ![s] = NoInstall]
Installing(r)     == {s \in Slots : install[s].repo = r}

(* the wallet's grant, if it has one *)
LinkedAccessToken(w) == {g \in Githubs : grant[g] = w}

InstallBegin(s, w, r) ==
  /\ Doing(s, "idle") /\ w \in loggedIn
  /\ LinkedAccessToken(w) # {}
  /\ install' = [install EXCEPT ![s] = [NoInstall EXCEPT !.pc = "find", !.wallet = w,
                                                         !.repo = r]]
  /\ muddled' = muddled \cup (IF Installing(r) = {} THEN {} ELSE {r})
  /\ UNCHANGED <<hooks, row, newest, replaced>>

(* seeded fault: whoever can see the repository may install *)
FaultAnyOwner(s) ==
  /\ Doing(s, "find")
  /\ install' = [install EXCEPT ![s].pc = "create",
                                ![s].existing = row[install[s].repo].key]
  /\ UNCHANGED <<hooks, row, newest, replaced, muddled>>

(* findOne({githubRepoId}): a repository of another wallet is refused         *)
InstallFind(s) ==
  LET found == row[install[s].repo] IN
  /\ Doing(s, "find")
  /\ IF found.owner \in {Nil, install[s].wallet}
     THEN install' = [install EXCEPT ![s].pc = "create", ![s].existing = found.key]
     ELSE FinishInstall(s)
  /\ UNCHANGED <<hooks, row, newest, replaced, muddled>>

(* GitHub makes another hook of the repository, numbers it and delivers to it *)
(* from now on, beside the old one                                          *)
CreateRepoWebhook(r) ==
  /\ hooks < MaxHooks
  /\ hooks' = hooks + 1
  /\ newest' = [newest EXCEPT ![r] = hooks + 1]
  /\ replaced' = [replaced EXCEPT ![r] = newest[r]]

InstallCreate(s) ==
  /\ Doing(s, "create")
  /\ CreateRepoWebhook(install[s].repo)
  /\ install' = [install EXCEPT ![s].pc = "save", ![s].hook = hooks + 1]
  /\ UNCHANGED <<row, muddled>>

(* seeded fault: a rotation stores the new key under the old hook's number *)
FaultKeepsHookId(s) ==
  LET new == install[s]
      old == row[new.repo] IN
  /\ Doing(s, "save")
  /\ row' = [row EXCEPT ![new.repo] =
       [owner |-> new.wallet, hook |-> IF old.hook = 0 THEN new.hook ELSE old.hook,
        key |-> new.hook, previous |-> new.existing, fresh |-> new.existing # 0]]
  /\ FinishInstall(s)
  /\ UNCHANGED <<hooks, newest, replaced, muddled>>

(* seeded fault: the update leaves the owner alone *)
FaultOwnerUnset(s) ==
  LET new == install[s]
      old == row[new.repo] IN
  /\ Doing(s, "save")
  /\ row' = [row EXCEPT ![new.repo] =
       [owner |-> old.owner, hook |-> new.hook, key |-> new.hook,
        previous |-> new.existing, fresh |-> new.existing # 0]]
  /\ FinishInstall(s)
  /\ UNCHANGED <<hooks, newest, replaced, muddled>>

(* the upsert; with a document found, its key becomes the previous one        *)
InstallSave(s) ==
  LET new == install[s]
      old == row[new.repo] IN
  /\ Doing(s, "save")
  /\ row' = [row EXCEPT ![new.repo] =
       [owner |-> new.wallet, hook |-> new.hook, key |-> new.hook,
        previous |-> IF new.existing = 0 THEN old.previous ELSE new.existing,
        fresh |-> IF new.existing = 0 THEN old.fresh ELSE TRUE]]
  /\ FinishInstall(s)
  /\ UNCHANGED <<hooks, newest, replaced, muddled>>

(* GitHub or MongoDB rejects a call, or the process dies; after the hook was  *)
(* created GitHub has a hook nobody has written down                         *)
InstallAbort(s) ==
  /\ ~ Doing(s, "idle")
  /\ muddled' = muddled \cup (IF Doing(s, "save") THEN {install[s].repo} ELSE {})
  /\ FinishInstall(s)
  /\ UNCHANGED <<hooks, row, newest, replaced>>

(* 24 h after a rotation *)
WindowCloses(r) ==
  /\ row[r].fresh
  /\ row' = [row EXCEPT ![r].fresh = FALSE]
  /\ UNCHANGED <<hooks, install, newest, replaced, muddled>>

InstallRequest(s) ==
  \/ \E w \in Wallets, r \in Repos : InstallBegin(s, w, r)
  \/ InstallFind(s) \/ InstallCreate(s) \/ InstallSave(s) \/ InstallAbort(s)

(* a slot serves one request at a time, of either kind                       *)
HooksNext ==
  \/ LoginNonce /\ UNCHANGED hookVars
  \/ \E s \in Slots : Doing(s, "idle") /\ AccountRequest(s) /\ UNCHANGED hookVars
  \/ \E s \in Slots : At(s, "idle") /\ InstallRequest(s) /\ UNCHANGED vars
  \/ \E r \in Repos : WindowCloses(r) /\ UNCHANGED vars

HooksSpec == HooksInit /\ [][HooksNext]_allVars

-----------------------------------------------------------------------------
(* verifyWebhookSignature: the current key, or the previous one for 24 h      *)
Verifies(doc, key) == key = doc.key \/ (doc.fresh /\ key = doc.previous)

(* A delivery of that hook is looked up by the hook's number, never by what   *)
(* its body says, and then verified; anything else is 404 or 401.           *)
Accepted(hook, key) ==
  hook # 0 /\ \E r \in Repos : row[r].hook = hook /\ Verifies(row[r], key)

-----------------------------------------------------------------------------
(* Documents, installs and histories have their types; a row has an owner     *)
(* and a hook that was created, or is not there.                             *)
HooksTypeOK ==
  /\ hooks \in Nat
  /\ row \in [Repos -> Row]
  /\ \A r \in Repos : row[r].owner = Nil <=> row[r].hook = 0
  /\ \A r \in Repos : row[r].hook <= hooks
  /\ install \in [Slots -> Install]
  /\ newest \in [Repos -> Nat] /\ replaced \in [Repos -> Nat]
  /\ muddled \subseteq Repos

(* A merge is heard of: once its installs are over, deliveries of the hook    *)
(* last put on a repository are accepted, whatever was installed, refused,   *)
(* rotated or aged before; and while the window is open the key it replaced   *)
(* is kept (repos.ts:53-56).  Except where installs of the repository        *)
(* overlapped, or one died between GitHub and the document.                  *)
NewestHookHeard ==
  \A r \in Repos \ muddled :
    Installing(r) = {} /\ newest[r] # 0 =>
      /\ Accepted(newest[r], newest[r])
      /\ row[r].fresh => Verifies(row[r], replaced[r])

(* "refuse to overwrite a record another wallet owns" (repos.ts:74-75): a      *)
(* repository changes hands only if installs of it overlapped.              *)
OwnerKept ==
  [][\A r \in Repos \ muddled :
       row[r].owner # Nil => row'[r].owner = row[r].owner]_allVars
=============================================================================

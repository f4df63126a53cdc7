--------------------------- MODULE RepoHooks_proofs ---------------------------
(* Proofs about RepoHooks: for any number of wallets, repositories, hooks and *)
(* requests, the documents stay typed, the newest hook of a repository is     *)
(* heard and its owner stays, except where installs overlapped or were cut.   *)
EXTENDS RepoHooks, Accounts_proofs

(* An install that is under way is some wallet's and some repository's, and   *)
(* once it has a hook the hook exists.                                       *)
InstallsSound ==
  \A s \in Slots :
    /\ Doing(s, "idle") => install[s] = NoInstall
    /\ ~ Doing(s, "idle") => install[s].wallet \in Wallets /\ install[s].repo \in Repos
    /\ Doing(s, "save") => install[s].hook \in Nat /\ 0 < install[s].hook
                             /\ install[s].hook <= hooks

OneAtATime ==
  \A r \in Repos \ muddled, s, t \in Slots :
    install[s].repo = r /\ install[t].repo = r => s = t

(* The document lags GitHub by at most the install that is about to save.     *)
DocumentSound ==
  \A r \in Repos \ muddled :
    /\ row[r].key = row[r].hook
    /\ row[r].hook = 0 => ~ row[r].fresh
    /\ (\A s \in Slots : install[s].repo = r => ~ Doing(s, "save")) =>
         /\ newest[r] = row[r].hook
         /\ row[r].fresh => row[r].previous = replaced[r]

(* What an install has read is still so when it saves.                       *)
ReadStands ==
  \A r \in Repos \ muddled, s \in Slots :
    install[s].repo = r =>
      /\ install[s].pc \in {"create", "save"} =>
           install[s].existing = row[r].key /\ row[r].owner \in {Nil, install[s].wallet}
      /\ Doing(s, "save") => install[s].hook = newest[r] /\ replaced[r] = row[r].key

HInv == HooksTypeOK /\ InstallsSound /\ OneAtATime /\ DocumentSound /\ ReadStands

-----------------------------------------------------------------------------
LEMMA HooksInitInv == HooksInit => HInv
  BY HooksAssumption
  DEF HooksInit, HInv, HooksTypeOK, InstallsSound, OneAtATime, DocumentSound, ReadStands,
      Row, NoRow, Install, NoInstall, InstallPcs, Doing

LEMMA BeginKeeps ==
  ASSUME HInv, NEW s \in Slots, NEW w \in Wallets, NEW r \in Repos, InstallBegin(s, w, r)
  PROVE  HInv'
<1> USE HooksAssumption DEF HInv, InstallBegin, Doing
<1>1. HooksTypeOK'
  BY DEF HooksTypeOK, Install, NoInstall, InstallPcs
<1>2. InstallsSound'
  BY DEF InstallsSound, HooksTypeOK, Install, NoInstall, InstallPcs
<1>3. /\ \A t \in Slots \ {s} : install'[t] = install[t]
      /\ install'[s].repo = r /\ install'[s].pc = "find"
      /\ install[s].repo = Nil
  BY DEF InstallsSound, HooksTypeOK, Install, NoInstall
<1>4. \A q \in Repos \ muddled' :
        q \notin muddled /\ (q = r => \A t \in Slots : install[t].repo # r)
  BY DEF Installing
<1>5. OneAtATime'
  BY <1>3, <1>4 DEF OneAtATime
<1>6. DocumentSound'
  BY <1>3, <1>4 DEF DocumentSound
<1>7. ReadStands'
  BY <1>3, <1>4 DEF ReadStands
<1>8. QED  BY <1>1, <1>2, <1>5, <1>6, <1>7

LEMMA FindKeeps ==
  ASSUME HInv, NEW s \in Slots, InstallFind(s)
  PROVE  HInv'
<1> USE HooksAssumption DEF HInv, InstallFind, Doing
<1>1. /\ install[s].pc = "find" /\ install[s].repo \in Repos
      /\ \A t \in Slots \ {s} : install'[t] = install[t]
      /\ \/ install'[s] = NoInstall
         \/ /\ install'[s].pc = "create" /\ install'[s].repo = install[s].repo
            /\ install'[s].wallet = install[s].wallet
            /\ install'[s].existing = row[install[s].repo].key
            /\ row[install[s].repo].owner \in {Nil, install[s].wallet}
  BY DEF InstallsSound, HooksTypeOK, Install, FinishInstall
<1>2. HooksTypeOK'
  <2>1. row[install[s].repo].key \in Nat /\ install[s] \in Install
    BY <1>1 DEF HooksTypeOK, Row
  <2>2. NoInstall \in Install
    BY DEF Install, NoInstall
  <2>3. [install[s] EXCEPT !.pc = "create", !.existing = row[install[s].repo].key] \in Install
    BY <2>1 DEF Install, InstallPcs
  <2>4. install' \in [Slots -> Install]
    BY <2>2, <2>3 DEF HooksTypeOK, FinishInstall
  <2>5. QED  BY <2>4 DEF HooksTypeOK
<1>3. InstallsSound'
  BY <1>1 DEF InstallsSound, NoInstall
<1>4. OneAtATime'
  BY <1>1 DEF OneAtATime, NoInstall
<1>5. DocumentSound'
  BY <1>1 DEF DocumentSound, NoInstall
<1>6. ReadStands'
  BY <1>1 DEF ReadStands, NoInstall
<1>7. QED  BY <1>2, <1>3, <1>4, <1>5, <1>6

LEMMA CreateKeeps ==
  ASSUME HInv, NEW s \in Slots, InstallCreate(s)
  PROVE  HInv'
<1> USE HooksAssumption DEF HInv, InstallCreate, CreateRepoWebhook, Doing
<1> DEFINE q == install[s].repo
<1>1. /\ install[s].pc = "create" /\ q \in Repos /\ hooks \in Nat
      /\ \A t \in Slots \ {s} : install'[t] = install[t]
      /\ install'[s].pc = "save" /\ install'[s].repo = q /\ install'[s].hook = hooks + 1
      /\ install'[s].wallet = install[s].wallet
      /\ install'[s].existing = install[s].existing
  BY DEF InstallsSound, HooksTypeOK, Install
<1>2. /\ newest'[q] = hooks + 1 /\ replaced'[q] = newest[q]
      /\ \A r \in Repos \ {q} : newest'[r] = newest[r] /\ replaced'[r] = replaced[r]
  BY <1>1 DEF HooksTypeOK
<1>3. HooksTypeOK'
  <2>1. install' \in [Slots -> Install]
    <3>1. install[s] \in Install /\ hooks + 1 \in Nat
      BY <1>1 DEF HooksTypeOK
    <3>2. [install[s] EXCEPT !.pc = "save", !.hook = hooks + 1] \in Install
      BY <3>1 DEF Install, InstallPcs
    <3>3. QED  BY <3>2 DEF HooksTypeOK
  <2>2. newest' \in [Repos -> Nat] /\ replaced' \in [Repos -> Nat] /\ hooks' \in Nat
    BY <1>1 DEF HooksTypeOK
  <2>3. \A r \in Repos : row[r].hook \in Nat
    BY DEF HooksTypeOK, Row
  <2>4. QED  BY <1>1, <2>1, <2>2, <2>3 DEF HooksTypeOK
<1>4. InstallsSound'
  <2>1. SUFFICES ASSUME NEW t \in Slots PROVE
          /\ Doing(t, "idle")' => install'[t] = NoInstall
          /\ ~ Doing(t, "idle")' => install'[t].wallet \in Wallets /\ install'[t].repo \in Repos
          /\ Doing(t, "save")' => install'[t].hook \in Nat /\ 0 < install'[t].hook
                                    /\ install'[t].hook <= hooks'
    BY DEF InstallsSound
  <2>2. CASE t = s  BY <1>1, <2>2 DEF InstallsSound
  <2>3. CASE t # s
    <3>1. install'[t] = install[t] /\ hooks' = hooks + 1
      BY <1>1, <2>3
    <3>2. QED  BY <1>1, <3>1 DEF InstallsSound
  <2>4. QED  BY <2>2, <2>3
<1>5. OneAtATime'
  <2>1. \A t \in Slots : install'[t].repo = install[t].repo
    BY <1>1
  <2>2. QED  BY <2>1 DEF OneAtATime
<1>6. DocumentSound'
  <2>1. SUFFICES ASSUME NEW r \in Repos \ muddled PROVE
          /\ row[r].key = row[r].hook
          /\ row[r].hook = 0 => ~ row[r].fresh
          /\ (\A t \in Slots : install'[t].repo = r => install'[t].pc # "save") =>
               /\ newest'[r] = row[r].hook
               /\ row[r].fresh => row[r].previous = replaced'[r]
    BY DEF DocumentSound
  <2>2. CASE r = q  BY <1>1, <2>2 DEF DocumentSound
  <2>3. CASE r # q
    <3>1. newest'[r] = newest[r] /\ replaced'[r] = replaced[r]
      BY <1>2, <2>3
    <3>2. (\A t \in Slots : install'[t].repo = r => install'[t].pc # "save") =>
            \A t \in Slots : install[t].repo = r => install[t].pc # "save"
      BY <1>1, <2>3
    <3>3. /\ row[r].key = row[r].hook
          /\ row[r].hook = 0 => ~ row[r].fresh
          /\ (\A t \in Slots : install[t].repo = r => install[t].pc # "save") =>
               /\ newest[r] = row[r].hook
               /\ row[r].fresh => row[r].previous = replaced[r]
      BY DEF DocumentSound
    <3>4. ASSUME \A t \in Slots : install'[t].repo = r => install'[t].pc # "save"
          PROVE  newest'[r] = row[r].hook /\ (row[r].fresh => row[r].previous = replaced'[r])
      <4>1. \A t \in Slots : install[t].repo = r => install[t].pc # "save"
        BY <3>2, <3>4
      <4>2. newest[r] = row[r].hook /\ (row[r].fresh => row[r].previous = replaced[r])
        BY <3>3, <4>1
      <4>3. QED  BY <3>1, <4>2
    <3>5. QED  BY <3>3, <3>4
  <2>4. QED  BY <2>2, <2>3
<1>7. ReadStands'
  <2>1. q \notin muddled =>
          /\ newest[q] = row[q].hook /\ row[q].key = row[q].hook
          /\ install[s].existing = row[q].key /\ row[q].owner \in {Nil, install[s].wallet}
    BY <1>1 DEF DocumentSound, OneAtATime, ReadStands
  <2>2. \A t \in Slots \ {s} : q \notin muddled => install[t].repo # q
    BY <1>1 DEF OneAtATime
  <2>3. muddled' = muddled /\ row' = row
    OBVIOUS
  <2>4. ASSUME NEW r \in Repos \ muddled, NEW t \in Slots, install'[t].repo = r
        PROVE  /\ install'[t].pc \in {"create", "save"} =>
                    /\ install'[t].existing = row[r].key
                    /\ row[r].owner \in {Nil, install'[t].wallet}
               /\ install'[t].pc = "save" =>
                    install'[t].hook = newest'[r] /\ replaced'[r] = row[r].key
    <3>1. CASE t = s  BY <1>1, <1>2, <2>1, <2>4, <3>1
    <3>2. CASE t # s
      <4>1. install'[t] = install[t] /\ r # q
        BY <1>1, <2>2, <2>4, <3>2
      <4>2. newest'[r] = newest[r] /\ replaced'[r] = replaced[r]
        BY <1>2, <4>1
      <4>3. QED  BY <2>4, <4>1, <4>2 DEF ReadStands
    <3>3. QED  BY <3>1, <3>2
  <2> HIDE DEF InstallCreate, HInv, CreateRepoWebhook
  <2>5. QED  BY <2>3, <2>4 DEF ReadStands
<1>8. QED  BY <1>3, <1>4, <1>5, <1>6, <1>7

LEMMA RowBuilt ==
  ASSUME NEW w \in Wallets, NEW h \in Nat, NEW p \in Nat, NEW f \in BOOLEAN
  PROVE  [owner |-> w, hook |-> h, key |-> h, previous |-> p, fresh |-> f] \in Row
  BY DEF Row

LEMMA SaveKeeps ==
  ASSUME HInv, NEW s \in Slots, InstallSave(s)
  PROVE  HInv'
<1> USE HooksAssumption DEF HInv, InstallSave, FinishInstall, Doing
<1> DEFINE q == install[s].repo
<1>1. /\ install[s].pc = "save" /\ q \in Repos /\ install[s].wallet \in Wallets
      /\ install[s].hook \in Nat /\ 0 < install[s].hook /\ install[s].hook <= hooks
      /\ install[s].existing \in Nat
      /\ \A t \in Slots \ {s} : install'[t] = install[t]
      /\ install'[s] = NoInstall
  BY DEF InstallsSound, HooksTypeOK, Install
<1>2. /\ row[q] \in Row
      /\ row'[q] = [owner |-> install[s].wallet, hook |-> install[s].hook,
                    key |-> install[s].hook,
                    previous |-> IF install[s].existing = 0 THEN row[q].previous
                                 ELSE install[s].existing,
                    fresh |-> IF install[s].existing = 0 THEN row[q].fresh ELSE TRUE]
      /\ \A r \in Repos \ {q} : row'[r] = row[r]
  BY <1>1 DEF HooksTypeOK
<1>3. HooksTypeOK'
  <2>1. row'[q] \in Row
    <3>1. row[q].previous \in Nat /\ row[q].fresh \in BOOLEAN
      BY <1>2 DEF Row
    <3> DEFINE previous == IF install[s].existing = 0 THEN row[q].previous
                           ELSE install[s].existing
               fresh == IF install[s].existing = 0 THEN row[q].fresh ELSE TRUE
    <3>2. previous \in Nat /\ fresh \in BOOLEAN
      <4>1. CASE install[s].existing = 0
        <5>1. previous = row[q].previous /\ fresh = row[q].fresh
          BY <4>1
        <5>2. QED  BY <3>1, <5>1
      <4>2. CASE install[s].existing # 0
        <5>1. previous = install[s].existing /\ fresh = TRUE
          BY <4>2
        <5>2. QED  BY <1>1, <5>1
      <4>3. QED  BY <4>1, <4>2
    <3>3. row'[q] = [owner |-> install[s].wallet, hook |-> install[s].hook,
                     key |-> install[s].hook, previous |-> previous, fresh |-> fresh]
      BY <1>2
    <3> HIDE DEF previous, fresh
    <3>4. QED  BY <1>1, <3>2, <3>3, RowBuilt
  <2>2. row' \in [Repos -> Row]
    BY <1>1, <1>2, <2>1 DEF HooksTypeOK
  <2>3. install' \in [Slots -> Install]
    BY DEF HooksTypeOK, Install, NoInstall, InstallPcs
  <2>4. row'[q].owner # Nil /\ row'[q].hook # 0 /\ row'[q].hook <= hooks
    BY <1>1, <1>2, AccountsAssumption
  <2>5. QED  BY <1>1, <1>2, <2>2, <2>3, <2>4 DEF HooksTypeOK
<1>4. InstallsSound'
  BY <1>1 DEF InstallsSound, NoInstall
<1>5. OneAtATime'
  BY <1>1 DEF OneAtATime, NoInstall
<1>6. q \notin muddled =>
        /\ install[s].existing = row[q].key /\ row[q].key = row[q].hook
        /\ install[s].hook = newest[q] /\ replaced[q] = row[q].key
        /\ row[q].hook = 0 => ~ row[q].fresh
        /\ \A t \in Slots \ {s} : install[t].repo # q
  BY <1>1 DEF ReadStands, DocumentSound, OneAtATime
<1>7. DocumentSound'
  <2>1. SUFFICES ASSUME NEW r \in Repos \ muddled PROVE
          /\ row'[r].key = row'[r].hook
          /\ row'[r].hook = 0 => ~ row'[r].fresh
          /\ (\A t \in Slots : install'[t].repo = r => install'[t].pc # "save") =>
               /\ newest[r] = row'[r].hook
               /\ row'[r].fresh => row'[r].previous = replaced[r]
    BY DEF DocumentSound
  <2>2. CASE r = q  BY <1>1, <1>2, <1>6, <2>2
  <2>3. CASE r # q  BY <1>1, <1>2, <2>3 DEF DocumentSound
  <2>4. QED  BY <2>2, <2>3
<1>8. ReadStands'
  BY <1>1, <1>2, <1>6 DEF ReadStands, NoInstall
<1>9. QED  BY <1>3, <1>4, <1>5, <1>7, <1>8

LEMMA AbortKeeps ==
  ASSUME HInv, NEW s \in Slots, InstallAbort(s)
  PROVE  HInv'
<1> USE HooksAssumption DEF HInv, InstallAbort, FinishInstall, Doing
<1>1. /\ install[s].repo \in Repos
      /\ \A t \in Slots \ {s} : install'[t] = install[t]
      /\ install'[s] = NoInstall
      /\ muddled \subseteq muddled'
      /\ install[s].pc = "save" => install[s].repo \in muddled'
  BY DEF InstallsSound, HooksTypeOK
<1>2. HooksTypeOK'
  BY <1>1 DEF HooksTypeOK, Install, NoInstall, InstallPcs
<1>3. InstallsSound'
  BY <1>1 DEF InstallsSound, NoInstall
<1>4. OneAtATime'
  BY <1>1 DEF OneAtATime, NoInstall
<1>5. DocumentSound'
  BY <1>1 DEF DocumentSound, NoInstall
<1>6. ReadStands'
  BY <1>1 DEF ReadStands, NoInstall
<1>7. QED  BY <1>2, <1>3, <1>4, <1>5, <1>6

LEMMA WindowKeeps ==
  ASSUME HInv, NEW q \in Repos, WindowCloses(q)
  PROVE  HInv'
<1> USE DEF HInv, WindowCloses, Doing
<1>1. /\ row'[q] = [row[q] EXCEPT !.fresh = FALSE] /\ row[q] \in Row
      /\ \A r \in Repos \ {q} : row'[r] = row[r]
  BY DEF HooksTypeOK
<1>2. \A r \in Repos :
        /\ row'[r].owner = row[r].owner /\ row'[r].hook = row[r].hook
        /\ row'[r].key = row[r].key /\ row'[r].previous = row[r].previous
        /\ row'[r].fresh => row[r].fresh
  BY <1>1 DEF Row
<1>3. HooksTypeOK'
  <2>1. row' \in [Repos -> Row]
    BY <1>1 DEF HooksTypeOK, Row
  <2>2. QED  BY <1>2, <2>1 DEF HooksTypeOK
<1>4. InstallsSound' /\ OneAtATime'
  BY DEF InstallsSound, OneAtATime
<1>5. DocumentSound'
  BY <1>2 DEF DocumentSound
<1>6. ReadStands'
  BY <1>2 DEF ReadStands
<1>7. QED  BY <1>3, <1>4, <1>5, <1>6

LEMMA HooksNextInv == HInv /\ [HooksNext]_allVars => HInv'
<1>1. ASSUME HInv, UNCHANGED hookVars PROVE HInv'
  BY <1>1 DEF hookVars, HInv, HooksTypeOK, InstallsSound, OneAtATime, DocumentSound,
              ReadStands, Doing
<1>2. ASSUME HInv, NEW s \in Slots, InstallRequest(s) PROVE HInv'
  BY <1>2, BeginKeeps, FindKeeps, CreateKeeps, SaveKeeps, AbortKeeps DEF InstallRequest
<1>3. ASSUME HInv, HooksNext PROVE HInv'
  BY <1>1, <1>2, <1>3, WindowKeeps DEF HooksNext
<1>4. QED  BY <1>1, <1>3 DEF allVars

LEMMA HooksInductive == HooksSpec => []HInv
  BY HooksInitInv, HooksNextInv, PTL DEF HooksSpec

-----------------------------------------------------------------------------
(* Rows, installs and histories keep their types, and a row has an owner      *)
(* exactly when it has a hook.                                               *)
THEOREM HooksTyped == HooksSpec => []HooksTypeOK
  BY HooksInductive, PTL DEF HInv

(* Once its installs are over, the hook last put on a repository is heard and *)
(* the key it replaced is kept for the window.                               *)
THEOREM NewestHeard == HooksSpec => []NewestHookHeard
<1>1. HInv => NewestHookHeard
  BY DEF HInv, NewestHookHeard, DocumentSound, Installing, Accepted, Verifies, HooksTypeOK
<1>2. QED  BY <1>1, HooksInductive, PTL

(* A repository changes hands only if installs of it overlapped or were cut.  *)
THEOREM OwnerStays == HooksSpec => OwnerKept
<1> DEFINE Kept == \A r \in Repos \ muddled :
                     row[r].owner # Nil => row'[r].owner = row[r].owner
<1>1. ASSUME HInv, NEW s \in Slots, InstallRequest(s) PROVE Kept
  <2>1. CASE UNCHANGED row  BY <2>1
  <2>2. CASE InstallSave(s)
    <3>1. /\ install[s].pc = "save" /\ install[s].repo \in Repos
          /\ row'[install[s].repo].owner = install[s].wallet
          /\ \A r \in Repos \ {install[s].repo} : row'[r] = row[r]
      BY <1>1, <2>2 DEF HInv, InstallSave, InstallsSound, HooksTypeOK, Doing
    <3>2. QED  BY <1>1, <3>1 DEF HInv, ReadStands, Doing
  <2>3. QED
    BY <1>1, <2>1, <2>2 DEF InstallRequest, InstallBegin, InstallFind, InstallCreate,
                            CreateRepoWebhook, InstallAbort
<1>2. ASSUME HInv, NEW q \in Repos, WindowCloses(q) PROVE Kept
  BY <1>2 DEF WindowCloses, HInv, HooksTypeOK, Row
<1>3. HInv /\ [HooksNext]_allVars => [Kept]_allVars
  BY <1>1, <1>2 DEF HooksNext, hookVars, allVars
<1>4. QED  BY <1>3, HooksInductive, PTL DEF HooksSpec, OwnerKept

(* Installs write nothing that logins and links read: with them the system is *)
(* one that Accounts describes.                                              *)
LEMMA LinksUndisturbed == HooksSpec => Spec
<1>1. HooksInit => Init
  BY DEF HooksInit
<1>2. [HooksNext]_allVars => [Next]_vars
  BY DEF HooksNext, Next, allVars
<1>3. QED  BY <1>1, <1>2, PTL DEF HooksSpec, Spec

(* A nonce starts one session, and grant and hunter document agree, beside    *)
(* installs too: what LinksAgree and NonceSpentOnce say of Accounts alone.    *)
COROLLARY LoginsBesideHooks == HooksSpec => [](OneSessionPerNonce /\ BindingAgrees)
  BY LinksUndisturbed, NonceSpentOnce, LinksAgree, PTL
=============================================================================

----------------------------- MODULE Extension -----------------------------
(***************************************************************************)
(* The service worker of the browser extension (extension/background.js):  *)
(* the session and its copy in chrome.storage.session, the cache of        *)
(* decrypted items, credentials staged by the tabs until the user agrees   *)
(* to save them, and passkeys.                                             *)
(*                                                                         *)
(* The worker handles messages, each in an async function cut at its       *)
(* awaits: storage, WebCrypto, requests.  Each member of Handlers is a     *)
(* message that may be in hand: with one, a message comes when the last    *)
(* one is answered; with two, they overlap.  The browser may kill the      *)
(* worker at any time: its variables are lost, the storage stays.          *)
(*                                                                         *)
(* All items are of one site, and the user is one account.  A call of the  *)
(* storage takes effect in the order of the calls; what a get returns may  *)
(* be old when it arrives.  The items of a vault enter the cache together. *)
(***************************************************************************)
EXTENDS Naturals, FiniteSets

CONSTANTS
    Handlers, Tabs, Vaults, Items,
    Personal,    \* the vaults whose items are encrypted under the user's own key
    Home,        \* Home[i]: the vault item i is in at first, or None
    Name,        \* the user name of the items there at first
    MaxToken,    \* bound: sessions
    MaxStage,    \* bound: credentials submitted
    MaxVersion,  \* bound: versions of an item
    MaxOther,    \* bound: the version up to which another client edits an item
    None

ASSUME ExtensionAssumption ==
    /\ Personal \subseteq Vaults
    /\ Home \in [Items -> Vaults \union {None}]
    /\ {MaxToken, MaxStage, MaxVersion, MaxOther} \subseteq Nat \ {0} /\ MaxOther <= MaxVersion

VARIABLES
    rows,          \* rows[i]: item i at the server
    tokens,        \* the session tokens the server has issued: 1..tokens
    expired,       \* those it no longer accepts
    mem,           \* the session, vaults and vault keys the worker has in memory
    cache,         \* allItemsCache
    kept,          \* entries no longer in the cache that a handler still has
    store,         \* the session in chrome.storage.session
    pendingSaves,  \* pendingSaves[t]: the credentials staged for tab t, there too
    staged, aged,  \* the credentials submitted are 1..staged; those past their TTL
    banner,        \* the tabs whose page offers to save
    closed,        \* the tabs that are closed
    op             \* op[h]: the message that h handles

server == <<rows, tokens, expired>>
worker == <<mem, cache, kept>>
pages == <<staged, aged, banner, closed>>
vars == <<server, worker, store, pendingSaves, pages, op>>

\* What is in an item: user name, password (0 at first, then the credential it was
\* submitted with), a passkey, the credential that was saved in it last, and the
\* version its author had before them.
Content == [name : {Name, None}, pw : 0..MaxStage, passkey : BOOLEAN, by : 0..MaxStage,
            from : 0..MaxVersion]
Row == [vault : Vaults, data : Content, version : 1..MaxVersion]

\* An entry of the cache.  The same item loaded twice is two objects.
Loads == 0..(2 * Cardinality(Handlers) + 1)
Ref == [item : Items, load : Loads]
Entry == [ref : Ref, vault : Vaults, data : Content, version : 1..MaxVersion]

\* An item in an answer of the server.
Shown == [item : Items, data : Content, version : 1..MaxVersion]

Show(i) == [item |-> i, data |-> rows[i].data, version |-> rows[i].version]

Session == [token : 0..MaxToken, encKey : BOOLEAN, privateKey : BOOLEAN, pendingSSO : 0..MaxToken]
Memory == [token : 0..MaxToken, encKey : BOOLEAN, privateKey : BOOLEAN, pendingSSO : 0..MaxToken,
           primed : BOOLEAN, vaults : SUBSET Vaults, keys : SUBSET Vaults]
NoSession == [token |-> 0, encKey |-> FALSE, privateKey |-> FALSE, pendingSSO |-> 0]
NoMemory == [token |-> 0, encKey |-> FALSE, privateKey |-> FALSE, pendingSSO |-> 0,
             primed |-> FALSE, vaults |-> {}, keys |-> {}]

Submitted == [n : 1..MaxStage, name : {Name, None}, pw : 0..MaxStage]
Pending == [n : 1..MaxStage, name : {Name, None}, pw : 0..MaxStage,
            kind : {"new", "update"}, item : Items \union {None}]

Request == [verb : {"login", "sso", "vaults", "key", "items", "put", "post"},
            token : 0..MaxToken, vault : Vaults \union {None}, item : Items \union {None},
            data : Content \union {None}, version : 0..MaxVersion]

\* The reads are getAllItems, getMatchingItems, getVaults, passkeyCandidates and
\* passkeyAssert.
PopupKinds == {"login", "ssoStart", "ssoUnlock", "logout", "read", "refresh"}
TabKinds == {"stage", "check", "commit", "dismiss", "passkey", "close"}
Steps == {"start", "restore", "import", "run", "sent", "answered", "unauthorized", "derive",
          "unwrap", "save", "ensure", "refresh", "next", "go", "get", "got", "write", "encrypt"}

\* A message in hand: what has been read from the storage, the credentials it is
\* about, the request and its answer, the vaults left to load, the vault whose key
\* it takes, the entry it updates and the content it writes.
Operation == [kind : PopupKinds \union TabKinds, tab : Tabs \union {None}, at : Steps,
              session : Session, saves : [Tabs -> Pending \union {None}] \union {None},
              cred : Submitted \union Pending \union {None}, req : Request \union {None},
              answer : SUBSET Shown, left : SUBSET Vaults, load : Loads,
              vault : Vaults \union {None},
              obj : Ref \union {None}, data : Content \union {None}]

LoggedIn == mem.token # 0 /\ mem.encKey
Idle(h) == op[h] = None
At(h, k, s) == op[h] # None /\ op[h].kind \in k /\ op[h].at = s
Kinds == PopupKinds \union TabKinds
Has(i) == rows[i] # None
Objects == cache \union kept
Object(ref) == CHOOSE e \in Objects : e.ref = ref
Held(others) == {op[h].obj : h \in {x \in others : op[x] # None}} \ {None}

Set(h, r) == op' = [op EXCEPT ![h] = r]
End(h) == Set(h, None)
Go(h, s) == Set(h, [op[h] EXCEPT !.at = s])
Ask(r, m, v) ==
    [r EXCEPT !.at = "sent",
              !.req = [verb |-> m, token |-> mem.token, vault |-> v, item |-> None,
                       data |-> None, version |-> 0]]

-----------------------------------------------------------------------------
(* Messages *)

Message(k, t) ==
    [kind |-> k, tab |-> t, at |-> IF k = "close" THEN "get" ELSE "start", session |-> NoSession,
     saves |-> None, cred |-> None, req |-> None, answer |-> {}, left |-> {}, load |-> 0,
     vault |-> None, obj |-> None, data |-> None]

\* The popup asks for a log-in when it has no session, or the last log-in has failed
\* half way; for the password after an SSO.
Popup(h) ==
    /\ Idle(h)
    /\ \E k \in PopupKinds :
         /\ k \in {"login", "ssoStart"} => store.token = 0 /\ tokens < MaxToken
         /\ k = "ssoUnlock" => store.pendingSSO # 0
         /\ k = "logout" => mem.token # 0 \/ store.token # 0
         /\ Set(h, Message(k, None))
    /\ UNCHANGED <<server, worker, store, pendingSaves, pages>>

\* The user submits credentials in a page: the password the site has had all along,
\* or another one.
Submit(h) ==
    \E t \in Tabs \ closed, name \in {Name, None} :
        /\ Idle(h) /\ staged < MaxStage
        /\ staged' = staged + 1
        /\ \E pw \in {0, staged'} :
             Set(h, [Message("stage", t) EXCEPT !.cred = [n |-> staged', name |-> name, pw |-> pw]])
        /\ UNCHANGED <<server, worker, store, pendingSaves, aged, banner, closed>>

\* A page asks what to offer, and the user answers once.
Page(h) ==
    \E t \in Tabs \ closed :
        /\ Idle(h)
        /\ \/ t \notin banner /\ Set(h, Message("check", t)) /\ UNCHANGED banner
           \/ t \in banner /\ banner' = banner \ {t}
              /\ \E k \in {"commit", "dismiss"} : Set(h, Message(k, t))
           \/ Set(h, Message("passkey", t)) /\ UNCHANGED banner
        /\ UNCHANGED <<server, worker, store, pendingSaves, staged, aged, closed>>

\* The page of a tab is left, or its offer hides.
Navigate ==
    /\ \E t \in banner : banner' = banner \ {t}
    /\ UNCHANGED <<server, worker, store, pendingSaves, staged, aged, closed, op>>

\* chrome.tabs.onRemoved
Close(h) ==
    \E t \in Tabs \ closed :
        /\ Idle(h)
        /\ closed' = closed \union {t}
        /\ banner' = banner \ {t}
        /\ Set(h, Message("close", t))
        /\ UNCHANGED <<server, worker, store, pendingSaves, staged, aged>>

\* restoreSession: the session is read, ...
ReadSession(h) ==
    /\ At(h, Kinds, "start")
    /\ Set(h, [op[h] EXCEPT !.at = "restore", !.session = store])
    /\ UNCHANGED <<server, worker, store, pendingSaves, pages>>

\* ... its token is there at once, and its keys when they are imported.
RestoreToken(h) ==
    LET s == op[h].session IN
    /\ At(h, Kinds, "restore")
    /\ mem' = [mem EXCEPT !.token = IF s.token # 0 THEN s.token ELSE @,
                          !.pendingSSO = IF @ = 0 THEN s.pendingSSO ELSE @]
    /\ Go(h, IF s.encKey \/ s.privateKey THEN "import" ELSE "run")
    /\ UNCHANGED <<server, cache, kept, store, pendingSaves, pages>>

ImportKeys(h) ==
    LET s == op[h].session IN
    /\ At(h, Kinds, "import")
    /\ mem' = [mem EXCEPT !.encKey = @ \/ s.encKey, !.privateKey = @ \/ s.privateKey]
    /\ Set(h, [op[h] EXCEPT !.at = "run", !.session = NoSession])
    /\ UNCHANGED <<server, cache, kept, store, pendingSaves, pages>>

\* handleMessage, up to the first await of what it calls.
Run(h) ==
    LET r == op[h] IN
    /\ At(h, Kinds \ {"logout"}, "run")
    /\ \/ r.kind = "login" /\ Set(h, Ask(r, "login", None))
       \/ r.kind = "ssoStart" /\ Set(h, Ask(r, "sso", None))
       \/ r.kind = "ssoUnlock" /\ IF mem.pendingSSO = 0 THEN End(h) ELSE Go(h, "derive")
       \/ r.kind = "read" /\ Go(h, "ensure")
       \/ r.kind = "refresh" /\ Go(h, "refresh")
       \/ r.kind \in {"stage", "passkey"} /\ IF LoggedIn THEN Go(h, "ensure") ELSE End(h)
       \/ r.kind \in {"check", "commit", "dismiss"} /\ Go(h, "get")
    /\ UNCHANGED <<server, worker, store, pendingSaves, pages>>

\* Mutant of LoggedOut: the items stay.
LoggedOutButItems(o) ==
    /\ mem' = NoMemory
    /\ store' = NoSession
    /\ pendingSaves' = [t \in Tabs |-> None]
    /\ UNCHANGED <<cache, kept>>

\* Everything is emptied, and the storage is told to.
LoggedOut(o) ==
    /\ mem' = NoMemory
    /\ cache' = {}
    /\ kept' = {e \in Objects : e.ref \in Held(o)}
    /\ store' = NoSession
    /\ pendingSaves' = [t \in Tabs |-> None]

logout(h) ==
    /\ At(h, {"logout"}, "run")
    /\ LoggedOut(Handlers \ {h})
    /\ End(h)
    /\ UNCHANGED <<server, pages>>

-----------------------------------------------------------------------------
(* Sessions *)

\* The server has issued a token: it is the session's, or waits for the password.
TakeToken(h) ==
    LET t == op[h].session.token IN
    /\ At(h, {"login", "ssoStart"}, "answered") /\ op[h].req.verb \in {"login", "sso"}
    /\ IF op[h].kind = "login"
         THEN mem' = [mem EXCEPT !.token = t] /\ Go(h, "derive") /\ UNCHANGED store
         ELSE /\ mem' = [mem EXCEPT !.pendingSSO = t]
              /\ store' = [store EXCEPT !.pendingSSO = t]
              /\ End(h)
    /\ UNCHANGED <<server, cache, kept, pendingSaves, pages>>

DeriveKey(h) ==
    /\ At(h, {"login"}, "derive")
    /\ mem' = [mem EXCEPT !.encKey = TRUE]
    /\ Go(h, "unwrap")
    /\ UNCHANGED <<server, cache, kept, store, pendingSaves, pages>>

\* The key need not open the private key the account has by now: that ends the
\* login with the token and the key in memory.
UnwrapKey(h) ==
    /\ At(h, {"login"}, "unwrap")
    /\ \/ /\ mem' = [mem EXCEPT !.privateKey = TRUE, !.keys = {}]
          /\ Set(h, [op[h] EXCEPT !.at = "write",
                        !.session = [NoSession EXCEPT !.token = mem.token, !.encKey = mem.encKey]])
       \/ End(h) /\ UNCHANGED mem
    /\ UNCHANGED <<server, cache, kept, store, pendingSaves, pages>>

\* ssoUnlock: with the right password, everything is there at once.
ssoUnlock(h) ==
    /\ At(h, {"ssoUnlock"}, "derive")
    /\ IF mem.pendingSSO = 0 THEN End(h) /\ UNCHANGED <<mem, store>>
       ELSE \/ End(h) /\ UNCHANGED <<mem, store>>
            \/ /\ mem' = [mem EXCEPT !.token = mem.pendingSSO, !.encKey = TRUE,
                                     !.privateKey = TRUE, !.keys = {}, !.pendingSSO = 0]
               /\ store' = [store EXCEPT !.pendingSSO = 0]
               /\ Go(h, "save")
    /\ UNCHANGED <<server, cache, kept, pendingSaves, pages>>

\* saveSession: the token and the key as they are now, the private key as it is
\* when the key has been exported.
saveSession(h) ==
    /\ At(h, {"ssoUnlock"}, "save")
    /\ Set(h, [op[h] EXCEPT !.at = "write",
                  !.session = [NoSession EXCEPT !.token = mem.token, !.encKey = mem.encKey]])
    /\ UNCHANGED <<server, worker, store, pendingSaves, pages>>

\* Mutant of WriteSession: the private key is forgotten.
WriteSessionKey(h) ==
    LET s == op[h].session IN
    /\ At(h, {"login", "ssoUnlock"}, "write")
    /\ store' = [store EXCEPT !.token = s.token, !.encKey = @ \/ s.encKey]
    /\ Set(h, [op[h] EXCEPT !.at = "refresh", !.session = NoSession])
    /\ UNCHANGED <<server, worker, pendingSaves, pages>>

WriteSession(h) ==
    LET s == op[h].session IN
    /\ At(h, {"login", "ssoUnlock"}, "write")
    /\ store' = [store EXCEPT !.token = s.token, !.encKey = @ \/ s.encKey,
                              !.privateKey = @ \/ mem.privateKey]
    /\ Set(h, [op[h] EXCEPT !.at = "refresh", !.session = NoSession])
    /\ UNCHANGED <<server, worker, pendingSaves, pages>>

-----------------------------------------------------------------------------
(* The cache *)

\* ensureItemsCache
ensureItemsCache(h) ==
    /\ At(h, Kinds, "ensure")
    /\ Go(h, IF LoggedIn /\ ~ mem.primed THEN "refresh" ELSE "go")
    /\ UNCHANGED <<server, worker, store, pendingSaves, pages>>

\* refreshAllItems, up to its first request.
refreshAllItems(h) ==
    /\ At(h, Kinds, "refresh")
    /\ IF LoggedIn
         THEN mem' = [mem EXCEPT !.primed = TRUE] /\ Set(h, Ask(op[h], "vaults", None))
         ELSE Go(h, "go") /\ UNCHANGED mem
    /\ UNCHANGED <<server, cache, kept, store, pendingSaves, pages>>

\* The cache is empty when the vaults are there; what others still hold is kept.
NewLoad(h) ==
    CHOOSE n \in Loads \ {0} :
        /\ \A e \in Objects : e.ref.load # n
        /\ \A x \in Handlers \ {h} : op[x] # None => op[x].load # n

Emptied(h) == {}

TakeVaults(h) ==
    /\ At(h, Kinds, "answered") /\ op[h].req.verb = "vaults"
    /\ mem' = [mem EXCEPT !.vaults = Vaults]
    /\ cache' = Emptied(h)
    /\ kept' = {e \in Objects : e.ref \in Held(Handlers \ {h})}
    /\ Set(h, [op[h] EXCEPT !.at = "next", !.left = Vaults, !.load = NewLoad(h), !.obj = None,
                         !.req = None])
    /\ UNCHANGED <<server, store, pendingSaves, pages>>

\* getVaultDecryptionKey: the key is there, or the private key can open it, or none.
HasKey(v) == IF v \in Personal THEN mem.encKey ELSE v \in mem.keys
CanOpen(v) == v \notin Personal \cup mem.keys /\ mem.privateKey

NextVault(h) ==
    LET r == op[h] IN
    /\ At(h, Kinds, "next")
    /\ \/ r.left = {} /\ Set(h, [r EXCEPT !.at = "go", !.vault = None, !.load = 0])
       \/ \E v \in r.left :
            \/ HasKey(v) /\ Set(h, Ask([r EXCEPT !.vault = v], "items", v))
            \/ CanOpen(v) /\ Set(h, Ask([r EXCEPT !.vault = v], "key", v))
            \/ ~ HasKey(v) /\ ~ CanOpen(v) /\ Set(h, [r EXCEPT !.left = @ \ {v}])
    /\ UNCHANGED <<server, worker, store, pendingSaves, pages>>

\* Loading the vault it is at, or saving to it.
Loading(r) == r.vault \in r.left

\* A key that cannot be had: the refresh skips the vault, a save fails.
NoKey(h) ==
    IF Loading(op[h])
    THEN Set(h, [op[h] EXCEPT !.at = "next", !.left = @ \ {op[h].vault}, !.req = None])
    ELSE End(h)

\* What is saved, when its key is there: staged credentials, or a passkey, in the
\* content of the entry that is updated or in a new item.
Ready(r) ==
    LET old == IF r.obj = None
               THEN [name |-> None, pw |-> 0, passkey |-> FALSE, by |-> 0, from |-> 0]
               ELSE [Object(r.obj).data EXCEPT !.from = Object(r.obj).version]
    IN  [r EXCEPT !.at = "encrypt",
           !.data = IF r.kind = "passkey" THEN [old EXCEPT !.passkey = TRUE]
                    ELSE [old EXCEPT !.name = IF r.obj = None THEN r.cred.name ELSE @,
                                     !.pw = r.cred.pw, !.by = r.cred.n]]

TakeKey(h) ==
    LET r == op[h] IN
    /\ At(h, Kinds, "answered") /\ r.req.verb = "key"
    /\ IF mem.privateKey
         THEN /\ mem' = [mem EXCEPT !.keys = @ \union {r.vault}]
              /\ Set(h, IF Loading(r) THEN Ask(r, "items", r.vault) ELSE Ready(r))
         ELSE NoKey(h) /\ UNCHANGED mem
    /\ UNCHANGED <<server, cache, kept, store, pendingSaves, pages>>

TakeItems(h) ==
    LET r == op[h] IN
    /\ At(h, Kinds, "answered") /\ r.req.verb = "items"
    /\ cache' = cache \union {[ref |-> [item |-> s.item, load |-> r.load], vault |-> r.vault,
                                data |-> s.data, version |-> s.version] : s \in r.answer}
    /\ Set(h, [r EXCEPT !.at = "next", !.left = @ \ {r.vault}, !.answer = {}, !.req = None])
    /\ UNCHANGED <<server, mem, kept, store, pendingSaves, pages>>

\* Nothing more to do than to answer.
Answer(h) ==
    /\ At(h, Kinds \ {"stage", "commit", "passkey"}, "go")
    /\ End(h)
    /\ UNCHANGED <<server, worker, store, pendingSaves, pages>>

-----------------------------------------------------------------------------
(* Staged credentials *)

getPendingSaves(h) ==
    /\ At(h, Kinds, "get") \/ At(h, {"stage"}, "go")
    /\ Set(h, [op[h] EXCEPT !.at = "got", !.saves = pendingSaves])
    /\ UNCHANGED <<server, worker, store, pendingSaves, pages>>

\* setPendingSaves, with the whole map as it was read.
setPendingSaves(h, p) == pendingSaves' = [op[h].saves EXCEPT ![op[h].tab] = p]

stagePendingSave(h) ==
    LET c == op[h].cred
        same == {e \in cache : e.data.name = c.name}
        pending(k, i) == [n |-> c.n, name |-> c.name, pw |-> c.pw, kind |-> k, item |-> i]
    IN  /\ At(h, {"stage"}, "got")
        /\ IF \E e \in same : e.data.pw = c.pw THEN setPendingSaves(h, None)
           ELSE IF c.name = None \/ same = {} THEN setPendingSaves(h, pending("new", None))
           ELSE \E e \in same : setPendingSaves(h, pending("update", e.ref.item))
        /\ End(h)
        /\ UNCHANGED <<server, worker, store, pages>>

checkPendingSave(h) ==
    LET t == op[h].tab
        p == op[h].saves[t]
    IN  /\ At(h, {"check"}, "got")
        /\ IF p = None THEN UNCHANGED <<pendingSaves, banner>>
           ELSE IF p.n \in aged \/ ~ LoggedIn
             THEN setPendingSaves(h, None) /\ UNCHANGED banner
             ELSE banner' = banner \union ({t} \ closed) /\ UNCHANGED pendingSaves
        /\ End(h)
        /\ UNCHANGED <<server, worker, store, staged, aged, closed>>

\* dismissPendingSave, and the listener of chrome.tabs.onRemoved.
dismissPendingSave(h) ==
    /\ At(h, {"dismiss", "close"}, "got")
    /\ IF op[h].kind = "close" /\ op[h].saves[op[h].tab] = None THEN UNCHANGED pendingSaves
       ELSE setPendingSaves(h, None)
    /\ End(h)
    /\ UNCHANGED <<server, worker, store, pages>>

commitPendingSave(h) ==
    LET p == op[h].saves[op[h].tab] IN
    /\ At(h, {"commit"}, "got")
    /\ IF p = None \/ ~ LoggedIn THEN End(h)
       ELSE Set(h, [op[h] EXCEPT !.at = "ensure", !.cred = p])
    /\ UNCHANGED <<server, worker, store, pendingSaves, pages>>

\* Mutant of Unstage: the entry stays.
Unstaged(h) ==
    /\ At(h, {"commit"}, "go")
    /\ Set(h, [op[h] EXCEPT !.at = "save", !.saves = None])
    /\ UNCHANGED <<server, worker, store, pendingSaves, pages>>

\* The entry is taken out before it is saved.
Unstage(h) ==
    /\ At(h, {"commit"}, "go")
    /\ setPendingSaves(h, None)
    /\ Set(h, [op[h] EXCEPT !.at = "save", !.saves = None])
    /\ UNCHANGED <<server, worker, store, pages>>

-----------------------------------------------------------------------------
(* Saves *)

\* getVaultDecryptionKey, on the way to a save.
WithKey(h, r) ==
    IF HasKey(r.vault) THEN Set(h, Ready(r))
    ELSE IF CanOpen(r.vault) THEN Set(h, Ask(r, "key", r.vault))
    ELSE End(h)

\* passkeyRegister: a passkey of the same account is replaced.
passkeyRegister(h) ==
    LET existing == {e \in cache : e.data.passkey} IN
    /\ At(h, {"passkey"}, "go")
    /\ \/ existing # {} /\ End(h)
       \/ \E o \in {e.ref : e \in existing} \union {None} :
            Set(h, [op[h] EXCEPT !.at = "save", !.obj = o])
    /\ UNCHANGED <<server, worker, store, pendingSaves, pages>>

\* updateItemPassword, and passkeyRegister when it replaces.
updateItem(h) ==
    LET r == op[h]
        found == IF r.kind = "passkey" THEN {r.obj} \ {None}
                 ELSE {e.ref : e \in {x \in cache : r.cred.kind = "update" /\ x.ref.item = r.cred.item}}
    IN  /\ At(h, {"commit", "passkey"}, "save")
        /\ \E o \in found :
             IF Object(o).vault \notin mem.vaults THEN End(h)
             ELSE WithKey(h, [r EXCEPT !.obj = o, !.vault = Object(o).vault])
        /\ UNCHANGED <<server, worker, store, pendingSaves, pages>>

\* The item that was to be updated is not in the cache.
ItemNotFound(h) ==
    /\ At(h, {"commit"}, "save") /\ op[h].cred.kind = "update"
    /\ ~ \E e \in cache : e.ref.item = op[h].cred.item
    /\ End(h)
    /\ UNCHANGED <<server, worker, store, pendingSaves, pages>>

saveNewItem(h) ==
    LET r == op[h] IN
    /\ At(h, {"commit", "passkey"}, "save")
    /\ IF r.kind = "passkey" THEN r.obj = None ELSE r.cred.kind = "new"
    /\ \E v \in Vaults : IF LoggedIn /\ v \in mem.vaults
                           THEN WithKey(h, [r EXCEPT !.vault = v])
                           ELSE End(h)
    /\ UNCHANGED <<server, worker, store, pendingSaves, pages>>

\* The version is read when the data has been encrypted.
Encrypted(h) ==
    LET r == op[h]
        body(m, i, n) == [verb |-> m, token |-> mem.token, vault |-> r.vault, item |-> i,
                          data |-> r.data, version |-> n]
    IN  /\ At(h, {"commit", "passkey"}, "encrypt")
        /\ Set(h, [r EXCEPT !.at = "sent",
                     !.req = IF r.obj = None THEN body("post", None, 0)
                             ELSE body("put", r.obj.item, Object(r.obj).version)])
        /\ UNCHANGED <<server, worker, store, pendingSaves, pages>>

\* Mutant of Updated: the object keeps its data.
UpdatedVersion(h) ==
    LET r == op[h]
        new(e) == IF e.ref = r.obj THEN [e EXCEPT !.version = r.req.version + 1] ELSE e
    IN  IF r.kind = "passkey"
        THEN Set(h, [r EXCEPT !.kind = "refresh", !.at = "refresh", !.obj = None]) /\ UNCHANGED <<cache, kept>>
        ELSE cache' = {new(e) : e \in cache} /\ kept' = {new(e) : e \in kept} /\ End(h)

\* The object that was updated has the new data, if it is still in the cache or not;
\* after a passkey, the cache is loaded again.
Updated(h) ==
    LET r == op[h]
        new(e) == IF e.ref = r.obj THEN [e EXCEPT !.data = r.data, !.version = r.req.version + 1]
                  ELSE e
    IN  IF r.kind = "passkey"
        THEN Set(h, [r EXCEPT !.kind = "refresh", !.at = "refresh", !.obj = None]) /\ UNCHANGED <<cache, kept>>
        ELSE cache' = {new(e) : e \in cache} /\ kept' = {new(e) : e \in kept} /\ End(h)

TakePut(h) ==
    /\ At(h, Kinds, "answered") /\ op[h].req.verb = "put"
    /\ Updated(h)
    /\ UNCHANGED <<server, mem, store, pendingSaves, pages>>

TakePost(h) ==
    /\ At(h, Kinds, "answered") /\ op[h].req.verb = "post"
    /\ cache' = cache \union {[ref |-> [item |-> s.item, load |-> 0], vault |-> op[h].vault,
                                data |-> s.data, version |-> s.version] : s \in op[h].answer}
    /\ End(h)
    /\ UNCHANGED <<server, mem, kept, store, pendingSaves, pages>>

-----------------------------------------------------------------------------
(* The server, the browser, another client *)

Accepted(q) == q.verb \in {"login", "sso"} \/ q.token \in (1..tokens) \ expired
Answered(h, its) == Set(h, [op[h] EXCEPT !.at = "answered", !.answer = its])

SignIn(h) ==
    /\ At(h, {"login", "ssoStart"}, "sent") /\ op[h].req.verb \in {"login", "sso"}
    /\ tokens < MaxToken
    /\ tokens' = tokens + 1
    /\ Set(h, [op[h] EXCEPT !.at = "answered", !.session.token = tokens'])
    /\ UNCHANGED <<rows, expired, worker, store, pendingSaves, pages>>

Read(h) ==
    LET q == op[h].req IN
    /\ At(h, Kinds, "sent") /\ q.verb \in {"vaults", "key", "items"} /\ Accepted(q)
    /\ Answered(h, IF q.verb = "items" THEN {Show(i) : i \in {j \in Items : Has(j) /\ rows[j].vault = q.vault}}
                   ELSE {})
    /\ UNCHANGED <<server, worker, store, pendingSaves, pages>>

\* Mutant of Put: the version is not compared.
PutAnyVersion(h) ==
    LET q == op[h].req IN
    /\ At(h, Kinds, "sent") /\ q.verb = "put" /\ Accepted(q)
    /\ Has(q.item) /\ rows[q.item].vault = q.vault /\ rows[q.item].version < MaxVersion
    /\ rows' = [rows EXCEPT ![q.item].data = q.data, ![q.item].version = @ + 1]
    /\ Answered(h, {})
    /\ UNCHANGED <<tokens, expired, worker, store, pendingSaves, pages>>

Put(h) ==
    LET q == op[h].req IN
    /\ At(h, Kinds, "sent") /\ q.verb = "put" /\ Accepted(q)
    /\ Has(q.item) /\ rows[q.item].vault = q.vault /\ rows[q.item].version = q.version
    /\ q.version < MaxVersion
    /\ rows' = [rows EXCEPT ![q.item].data = q.data, ![q.item].version = @ + 1]
    /\ Answered(h, {})
    /\ UNCHANGED <<tokens, expired, worker, store, pendingSaves, pages>>

Post(h) ==
    LET q == op[h].req IN
    /\ At(h, Kinds, "sent") /\ q.verb = "post" /\ Accepted(q)
    /\ \E i \in Items :
         /\ rows[i] = None
         /\ rows' = [rows EXCEPT ![i] = [vault |-> q.vault, data |-> q.data, version |-> 1]]
         /\ Answered(h, {[item |-> i, data |-> q.data, version |-> 1]})
    /\ UNCHANGED <<tokens, expired, worker, store, pendingSaves, pages>>

\* A token is not accepted, or a password.
Refuse(h) ==
    /\ At(h, Kinds, "sent") /\ (~ Accepted(op[h].req) \/ op[h].req.verb = "login")
    /\ Go(h, "unauthorized")
    /\ UNCHANGED <<server, worker, store, pendingSaves, pages>>

\* api: a 401 to a request with a token ends the session, whichever it is by now.
Unauthorized(h) ==
    /\ At(h, Kinds, "unauthorized")
    /\ IF op[h].req.token # 0 THEN LoggedOut(Handlers \ {h})
       ELSE UNCHANGED <<worker, store, pendingSaves>>
    /\ IF op[h].req.verb = "key" THEN NoKey(h) ELSE End(h)
    /\ UNCHANGED <<server, pages>>

\* A request or its answer is lost, or the server refuses what it is about.
Fail(h) ==
    /\ At(h, Kinds, "sent") \/ At(h, Kinds, "answered")
    /\ IF op[h].req.verb = "key" THEN NoKey(h) ELSE End(h)
    /\ UNCHANGED <<server, worker, store, pendingSaves, pages>>

Expire ==
    /\ \E t \in (1..tokens) \ expired : expired' = expired \union {t}
    /\ UNCHANGED <<rows, tokens, worker, store, pendingSaves, pages, op>>

\* Another client edits an item.  One that it deletes is a request that fails.
OtherClient ==
    \E i \in Items :
        /\ Has(i) /\ rows[i].version < MaxOther
        /\ rows' = [rows EXCEPT ![i].data.from = rows[i].version, ![i].version = @ + 1]
        /\ UNCHANGED <<tokens, expired, worker, store, pendingSaves, pages, op>>

\* A minute has passed since credentials were staged.
Age ==
    /\ \E t \in Tabs : pendingSaves[t] # None /\ pendingSaves[t].n \notin aged
                       /\ aged' = aged \union {pendingSaves[t].n}
    /\ UNCHANGED <<server, worker, store, pendingSaves, staged, banner, closed, op>>

\* The browser kills the worker.
Kill ==
    /\ mem # NoMemory \/ \E h \in Handlers : ~ Idle(h)
    /\ mem' = NoMemory /\ cache' = {} /\ kept' = {}
    /\ op' = [h \in Handlers |-> None]
    /\ UNCHANGED <<server, store, pendingSaves, pages>>

-----------------------------------------------------------------------------
Init ==
    /\ rows = [i \in Items |->
                 IF Home[i] = None THEN None
                 ELSE [vault |-> Home[i], version |-> 1,
                       data |-> [name |-> Name, pw |-> 0, passkey |-> FALSE, by |-> 0, from |-> 0]]]
    /\ tokens = 0 /\ expired = {}
    /\ mem = NoMemory /\ cache = {} /\ kept = {}
    /\ store = NoSession /\ pendingSaves = [t \in Tabs |-> None]
    /\ staged = 0 /\ aged = {} /\ banner = {} /\ closed = {}
    /\ op = [h \in Handlers |-> None]

Messages(h) == Popup(h) \/ Submit(h) \/ Page(h) \/ Close(h)

Sessions(h) ==
    \/ ReadSession(h) \/ RestoreToken(h) \/ ImportKeys(h) \/ Run(h) \/ logout(h)
    \/ TakeToken(h) \/ DeriveKey(h) \/ UnwrapKey(h) \/ ssoUnlock(h) \/ saveSession(h) \/ WriteSession(h)

Refreshes(h) ==
    \/ ensureItemsCache(h) \/ refreshAllItems(h) \/ TakeVaults(h) \/ NextVault(h) \/ TakeKey(h)
    \/ TakeItems(h) \/ Answer(h)

Saves(h) ==
    \/ getPendingSaves(h) \/ stagePendingSave(h) \/ checkPendingSave(h) \/ dismissPendingSave(h)
    \/ commitPendingSave(h) \/ Unstage(h) \/ passkeyRegister(h) \/ updateItem(h) \/ ItemNotFound(h)
    \/ saveNewItem(h) \/ Encrypted(h) \/ TakePut(h) \/ TakePost(h)

Requests(h) ==
    \/ SignIn(h) \/ Read(h) \/ Put(h) \/ Post(h) \/ Refuse(h) \/ Unauthorized(h) \/ Fail(h)

Next ==
    \/ \E h \in Handlers : Messages(h) \/ Sessions(h) \/ Refreshes(h) \/ Saves(h) \/ Requests(h)
    \/ Navigate \/ Expire \/ OtherClient \/ Age \/ Kill

Spec == Init /\ [][Next]_vars

-----------------------------------------------------------------------------
(* Properties *)

\* Every variable holds what the worker, the browser and the server may hold.
TypeOK ==
    /\ rows \in [Items -> Row \union {None}]
    /\ tokens \in 0..MaxToken /\ expired \subseteq 1..tokens
    /\ mem \in Memory /\ store \in Session
    /\ cache \subseteq Entry /\ kept \subseteq Entry
    /\ pendingSaves \in [Tabs -> Pending \union {None}]
    /\ staged \in 0..MaxStage /\ aged \subseteq 1..staged
    /\ banner \subseteq Tabs \ closed /\ closed \subseteq Tabs
    /\ op \in [Handlers -> Operation \union {None}]

Quiet == \A h \in Handlers : Idle(h)

\* An update of an item, whatever has been lost on its way to the server and back,
\* replaces the version its data were made from.
UpdatesFollow ==
    [][\A i \in Items : Has(i) /\ rows'[i] # rows[i]
         => rows'[i].data.from = rows[i].version]_vars

\* What the user has submitted and agreed to save once is saved once, although the
\* worker may be killed, or an answer lost, at any point of it.
SavedOnce ==
    [][\A h \in Handlers, i \in Items :
         At(h, {"commit"}, "sent") /\ op'[h] # op[h] /\ rows' # rows /\ Has(i)
           => rows[i].data.by # op[h].req.data.by]_vars

\* An entry of the cache has the data of its version, so that a save under that
\* version undoes nothing.
CacheIsOfItsVersion ==
    \A e \in Objects :
        LET i == e.ref.item IN Has(i) /\ rows[i].version = e.version => rows[i].data = e.data

\* No item is offered twice.
OneEntryPerItem == \A e, f \in cache : e.ref.item = f.ref.item => e = f

\* When the session is over, by the user or by a 401 in the middle of a refresh,
\* neither a key nor an item stays in the memory of the worker.
LoggedOutHoldsNothing == Quiet /\ mem.token = 0 => mem = [NoMemory EXCEPT !.pendingSSO = mem.pendingSSO] /\ cache = {}

\* A login whose private key could not be decrypted: the worker goes on with the
\* rest of the session, and nothing of it is in the storage.
HalfLoggedIn ==
    /\ mem.encKey /\ ~ mem.privateKey
    /\ store = [NoSession EXCEPT !.pendingSSO = mem.pendingSSO]

\* The worker can be killed at any time and finds the session it had, if the login
\* or the SSO that began it came to its end.
SessionIsSaved ==
    Quiet /\ mem.token # 0 /\ ~ HalfLoggedIn
        => store = [token |-> mem.token, encKey |-> mem.encKey, privateKey |-> mem.privateKey,
                    pendingSSO |-> mem.pendingSSO]

\* The same of every session, which is refuted.
EverySessionIsSaved ==
    Quiet /\ mem.token # 0 => store.token = mem.token

\* extension/background.js:612-614: "Re-prime on demand so the popup/dropdown never show an
\* empty vault after a worker restart."
NeverEmpty ==
    \A h \in Handlers :
        At(h, {"read"}, "go") /\ LoggedIn /\ (\E i \in Items : Home[i] # None /\ Has(i)) => cache # {}

\* extension/content.js:279: "Stage right away so the generated secret survives even if we never
\* see a recognizable submit".  What a tab has staged goes by what that tab does,
\* or by a logout.
StagedSurvives ==
    [][\A t \in Tabs :
         pendingSaves[t] # None /\ pendingSaves'[t] = None
           => \/ \E h \in Handlers : op[h] # None /\ op[h].tab = t
              \/ \A x \in Tabs : pendingSaves'[x] = None]_vars
=============================================================================

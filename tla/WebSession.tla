----------------------------- MODULE WebSession -----------------------------
(***************************************************************************)
(* The session of the web client: the keys a page holds in memory, the     *)
(* copy it keeps in IndexedDB (web/keystore.js), and what opens, locks and *)
(* closes it (web/app.js).                                                 *)
(*                                                                         *)
(* The tabs of one browser, signed in to one account, share the record of  *)
(* the keystore.  A handler of a page runs up to an await and goes on with *)
(* the page as it is by then; the calls of the keystore are not awaited,   *)
(* open a connection of their own, and run in any order.  A user starts    *)
(* one sign-in of a page at a time, and may lock, log out or reload in the *)
(* middle of it.                                                           *)
(*                                                                         *)
(* Passwords are numbered; a recovery sets the next one.  A number also    *)
(* stands for the key derived from that password, and for the private key  *)
(* encrypted under it.  Before the keys of the account are set up there is *)
(* at most a verifier, of password 0.                                      *)
(***************************************************************************)
EXTENDS Naturals, FiniteSets

CONSTANTS
    Tabs,
    Plain,       \* where a page keeps decrypted items: "opened" in the item itself,
                 \* and in lists: the vault's, the search's
    MaxResets,   \* bound: how often the password is reset
    MaxCalls,    \* bound: calls of the keystore a page has open at a time
    AutoLock,    \* autoLockMinutes > 0, as it is unless the local storage says otherwise
    NoKeys,      \* for a private key: the account has none yet
    None

ASSUME AutoLockAssumption == AutoLock \in BOOLEAN
ASSUME NoKeysAssumption == NoKeys \notin Nat /\ NoKeys # None
ASSUME BoundsAssumption == MaxResets \in Nat /\ MaxCalls \in Nat \ {0}

VARIABLES
    password,     \* the password of the account, once its keys are set up
    data,         \* the keys that items of personal vaults are encrypted under
    record,       \* the record of the keystore: a key, and whether it is fresh
    page,         \* page[t]: the screen tab t shows
    token,        \* token[t]: it has a token, which the storage of the tab keeps or not
    encKey,       \* encKey[t]: the key it holds
    unproved,     \* unproved[t]: the key is of a password that was typed, and nothing has
                  \* confirmed it (the code does not keep this)
    lockContext,  \* lockContext[t]: the private key it can unlock again
    iapSession,   \* iapSession[t]: the private key its last session came with
    timer,        \* timer[t]: it will lock itself, and notices activity
    plain,        \* plain[t]: where it keeps decrypted items
    reading,      \* reading[t]: the lists it is decrypting
    flow,         \* flow[t]: the sign-in it is in the middle of
    calls         \* calls[t]: its calls of the keystore that have not ended

keys == <<encKey, unproved, lockContext, iapSession, timer>>
view == <<plain, reading>>
vars == <<password, data, record, page, token, keys, view, flow, calls>>

Passwords == 0..MaxResets
Key == Passwords \union {None}
Lists == Plain \ {"opened"}
Record == [key : Passwords, fresh : BOOLEAN]
Pages == {"boot", "login", "unlock", "setup", "lock", "app"}
TabTokens == {"none", "page", "tab"}
Ops == {"boot", "login", "unlock", "iap", "setup", "passkey"}
Steps == {"session", "load", "decrypt", "derive", "prove", "passkey", "prf", "open", "vaults",
          "items"}
Flow == [op : Ops, step : Steps, key : Key]
Call == [op : {"save"}, key : Passwords]
        \union [op : {"touch"}, got : Record \union {None}]
        \union [op : {"clear"}]

At(t, s) == flow[t] # None /\ flow[t].step = s
Go(t, s) == flow' = [flow EXCEPT ![t].step = s]
End(t) == flow' = [flow EXCEPT ![t] = None]
Start(t, o, s, k) ==
    /\ flow[t] = None
    /\ flow' = [flow EXCEPT ![t] = [op |-> o, step |-> s, key |-> k]]

Show(t, p) == page' = [page EXCEPT ![t] = p]
Issue(t, c) ==
    /\ Cardinality(calls[t] \union {c}) <= MaxCalls
    /\ calls' = [calls EXCEPT ![t] = @ \union {c}]

saveSessionKey(t, k) == Issue(t, [op |-> "save", key |-> k])
clearSessionKey(t) == Issue(t, [op |-> "clear"])

\* Of the key it holds, if that has not been wiped by now.
SaveHeld(t) ==
    IF encKey[t] = None THEN UNCHANGED calls ELSE saveSessionKey(t, encKey[t])

\* The key of the page is right, it can unlock itself with the private key b,
\* and locks itself: startAutoLock.
Arm(t, b) ==
    /\ unproved' = [unproved EXCEPT ![t] = FALSE]
    /\ lockContext' = [lockContext EXCEPT ![t] = b]
    /\ timer' = [timer EXCEPT ![t] = AutoLock]

Hold(t, k, b) ==
    /\ encKey' = [encKey EXCEPT ![t] = k]
    /\ Arm(t, b)
    /\ UNCHANGED iapSession

DropKey(t) ==
    /\ encKey' = [encKey EXCEPT ![t] = None]
    /\ unproved' = [unproved EXCEPT ![t] = FALSE]
    /\ UNCHANGED <<lockContext, iapSession, timer>>

\* The memory of a page that is loaded.
Forget(t) ==
    /\ encKey' = [encKey EXCEPT ![t] = None]
    /\ unproved' = [unproved EXCEPT ![t] = FALSE]
    /\ lockContext' = [lockContext EXCEPT ![t] = None]
    /\ iapSession' = [iapSession EXCEPT ![t] = None]
    /\ timer' = [timer EXCEPT ![t] = FALSE]

-----------------------------------------------------------------------------
(* The keystore *)

\* saveSessionKey puts the record once the key has been made non-extractable.
Save(t) ==
    \E c \in calls[t] :
        /\ c.op = "save"
        /\ record' = [key |-> c.key, fresh |-> TRUE]
        /\ calls' = [calls EXCEPT ![t] = @ \ {c}]
        /\ UNCHANGED <<password, data, page, token, keys, view, flow>>

\* touchSessionKey: one transaction gets the record, another one puts it back.
Touch(t) ==
    \E c \in calls[t] :
        /\ c.op = "touch"
        /\ IF c.got = None
             THEN /\ calls' = [calls EXCEPT ![t] =
                         (@ \ {c}) \union (IF record = None THEN {}
                                           ELSE {[op |-> "touch", got |-> record]})]
                  /\ UNCHANGED record
             ELSE /\ record' = [c.got EXCEPT !.fresh = TRUE]
                  /\ calls' = [calls EXCEPT ![t] = @ \ {c}]
        /\ UNCHANGED <<password, data, page, token, keys, view, flow>>

Clear(t) ==
    \E c \in calls[t] :
        /\ c.op = "clear"
        /\ record' = None
        /\ calls' = [calls EXCEPT ![t] = @ \ {c}]
        /\ UNCHANGED <<password, data, page, token, keys, view, flow>>

\* Nobody touches the record for as long as the auto-lock allows.
Age ==
    /\ record # None
    /\ record' = [record EXCEPT !.fresh = FALSE]
    /\ UNCHANGED <<password, data, page, token, keys, view, flow, calls>>

-----------------------------------------------------------------------------
(* Signing in *)

\* A page is loaded with token k, or without: nothing else is left of it.
Boot(t, k) ==
    /\ token' = [token EXCEPT ![t] = k]
    /\ Show(t, IF k = "tab" THEN "boot" ELSE "login")
    /\ flow' = [flow EXCEPT ![t] = IF k = "tab"
                  THEN [op |-> "boot", step |-> "session", key |-> None] ELSE None]
    /\ Forget(t)
    /\ plain' = [plain EXCEPT ![t] = {}]
    /\ reading' = [reading EXCEPT ![t] = {}]
    /\ calls' = [calls EXCEPT ![t] = {}]
    /\ UNCHANGED <<password, data, record>>

Load(t) == Boot(t, IF token[t] = "tab" THEN "tab" ELSE "none")

\* The SSO callback loads the page with a token.
SingleSignOn(t) ==
    /\ page[t] = "login" /\ flow[t] = None
    /\ Boot(t, "tab")

\* A boot that fails anywhere gives up its token, and nothing else.
BootFails(t) ==
    /\ End(t)
    /\ token' = [token EXCEPT ![t] = "none"]
    /\ Show(t, "login")

\* initIAPSession has thrown, at boot or in passkeyLogin.
Abandon(t) ==
    IF flow[t].op = "boot" THEN BootFails(t) ELSE End(t) /\ UNCHANGED <<page, token>>

\* initIAPSession, at boot or after a passkey that cannot unlock.
FetchSession(t) ==
    /\ At(t, "session")
    /\ \/ /\ token[t] # "none"
          /\ token' = [token EXCEPT ![t] = "tab"]
          /\ iapSession' = [iapSession EXCEPT ![t] = password]
          /\ IF password = NoKeys THEN End(t) /\ Show(t, "setup")
             ELSE Go(t, "load") /\ UNCHANGED page
       \/ Abandon(t) /\ UNCHANGED iapSession
    /\ UNCHANGED <<password, data, record, encKey, unproved, lockContext, timer, view, calls>>

\* initIAPSession asks for the password; that of a boot fails when a logout has
\* taken its session away.
AskPassword(t) ==
    IF iapSession[t] = None /\ flow[t].op = "boot" THEN BootFails(t)
    ELSE End(t) /\ Show(t, "unlock") /\ UNCHANGED token

\* restoreSessionFromKeystore up to its second await.
LoadSessionKey(t) ==
    /\ At(t, "load")
    /\ \/ /\ record # None /\ iapSession[t] # None /\ (record.fresh \/ ~AutoLock)
          /\ flow' = [flow EXCEPT ![t] = [@ EXCEPT !.step = "decrypt", !.key = record.key]]
          /\ UNCHANGED <<page, token, calls>>
       \/ /\ record # None /\ iapSession[t] # None /\ ~record.fresh /\ AutoLock
          /\ clearSessionKey(t)
          /\ AskPassword(t)
       \/ record # None /\ iapSession[t] = None /\ Abandon(t) /\ UNCHANGED calls
       \/ record = None /\ AskPassword(t) /\ UNCHANGED calls
    /\ UNCHANGED <<password, data, record, keys, view>>

\* Mutant of Restore: the key of the record is taken without a proof.
RestoreUnproved(t) ==
    /\ At(t, "decrypt") /\ iapSession[t] # None
    /\ Hold(t, flow[t].key, iapSession[t])
    /\ Go(t, "vaults")
    /\ UNCHANGED <<page, calls, password, data, record, token, view>>

\* ... and from there: the stored key must open the private key.  When a logout
\* has taken the session away, the page has set encKey before it finds out.
Restore(t) ==
    LET k == flow[t].key IN
    /\ At(t, "decrypt")
    /\ \/ /\ k = iapSession[t] /\ Hold(t, k, k) /\ Go(t, "vaults")
          /\ UNCHANGED <<page, token, calls>>
       \/ /\ k # iapSession[t] /\ clearSessionKey(t) /\ AskPassword(t) /\ UNCHANGED keys
       \/ /\ iapSession[t] = None /\ Abandon(t)
          /\ encKey' = [encKey EXCEPT ![t] = k]
          /\ unproved' = [unproved EXCEPT ![t] = FALSE]
          /\ UNCHANGED <<lockContext, iapSession, timer, calls>>
    /\ UNCHANGED <<password, data, record, view>>

\* The user types a password, right or wrong, and login, unlockVault, iapUnlock
\* or iapSetup derives its key.
Type(t) ==
    /\ \E k \in Passwords :
         \/ page[t] = "login" /\ Start(t, "login", "derive", k)
         \/ page[t] = "lock" /\ Start(t, "unlock", "derive", k)
         \/ page[t] = "unlock" /\ Start(t, "iap", "derive", k)
         \/ page[t] = "setup" /\ Start(t, "setup", "derive", k)
    /\ UNCHANGED <<password, data, record, page, token, keys, view, calls>>

\* The key is held, before anything has shown that it is right.
HoldUnproved(t) ==
    /\ encKey' = [encKey EXCEPT ![t] = flow[t].key]
    /\ unproved' = [unproved EXCEPT ![t] = TRUE]
    /\ Go(t, "prove")
    /\ UNCHANGED <<lockContext, iapSession, timer>>

\* login, once the server has answered its proof of the password.
Login(t) ==
    /\ At(t, "derive") /\ flow[t].op = "login"
    /\ \/ /\ flow[t].key = IF password = NoKeys THEN 0 ELSE password
          /\ token' = [token EXCEPT ![t] = IF @ = "tab" THEN @ ELSE "page"]
          /\ HoldUnproved(t)
       \/ End(t) /\ UNCHANGED <<token, keys>>
    /\ UNCHANGED <<password, data, record, page, view, calls>>

\* Keys with password k are uploaded to an account without; the answer may be lost.
Upload(k) == password' = IF password = NoKeys THEN k ELSE password

\* It decrypts the private key, or makes one and uploads it.  Its catch leaves
\* the page as it is by then.
FinishLogin(t) ==
    /\ At(t, "prove") /\ flow[t].op = "login"
    /\ \/ /\ Upload(flow[t].key)
          /\ Arm(t, flow[t].key) /\ UNCHANGED <<encKey, iapSession>>
          /\ token' = [token EXCEPT ![t] = IF @ = "none" THEN @ ELSE "tab"]
          /\ SaveHeld(t)
          /\ Go(t, "vaults")
       \/ /\ Upload(flow[t].key) \/ UNCHANGED password
          /\ End(t)
          /\ UNCHANGED <<token, keys, calls>>
    /\ UNCHANGED <<data, record, page, view>>

\* Mutant of unlockVault: the timer is not started again.
UnlockForEver(t) ==
    LET k == flow[t].key IN
    /\ At(t, "derive") /\ flow[t].op = "unlock"
    /\ IF k = lockContext[t]
         THEN /\ encKey' = [encKey EXCEPT ![t] = k]
              /\ unproved' = [unproved EXCEPT ![t] = FALSE]
              /\ UNCHANGED <<lockContext, iapSession, timer>>
              /\ saveSessionKey(t, k)
              /\ Show(t, "app")
              /\ Go(t, "items")
         ELSE DropKey(t) /\ End(t) /\ UNCHANGED <<page, calls>>
    /\ UNCHANGED <<password, data, record, token, view>>

\* unlockVault: the key must open the private key the page has kept.
unlockVault(t) ==
    LET k == flow[t].key IN
    /\ At(t, "derive") /\ flow[t].op = "unlock"
    /\ IF k = lockContext[t]
         THEN Hold(t, k, k) /\ saveSessionKey(t, k) /\ Show(t, "app") /\ Go(t, "items")
         ELSE DropKey(t) /\ End(t) /\ UNCHANGED <<page, calls>>
    /\ UNCHANGED <<password, data, record, token, view>>

\* ... which then loads the items of the vault that was open.  A request that
\* fails ends in the same catch as a wrong password.
ReloadItems(t) ==
    /\ At(t, "items")
    /\ End(t)
    /\ \/ UNCHANGED keys
       \/ DropKey(t)
    /\ UNCHANGED <<password, data, record, page, token, view, calls>>

\* iapUnlock and iapSetup set encKey from the password, for the session of the
\* page; without one they end in their catch.
DeriveKey(t) ==
    /\ At(t, "derive") /\ flow[t].op \in {"iap", "setup"}
    /\ \/ iapSession[t] # None /\ HoldUnproved(t)
       \/ iapSession[t] = None /\ flow[t].op = "iap" /\ DropKey(t) /\ End(t)
       \/ iapSession[t] = None /\ flow[t].op = "setup" /\ End(t) /\ UNCHANGED keys
    /\ UNCHANGED <<password, data, record, page, token, view, calls>>

\* iapUnlock: the key must open the private key of the session.
iapUnlock(t) ==
    /\ At(t, "prove") /\ flow[t].op = "iap"
    /\ IF flow[t].key = iapSession[t]
         THEN /\ Arm(t, flow[t].key) /\ UNCHANGED <<encKey, iapSession>>
              /\ SaveHeld(t)
              /\ Go(t, "vaults")
         ELSE DropKey(t) /\ End(t) /\ UNCHANGED calls
    /\ UNCHANGED <<password, data, record, page, token, view>>

\* iapSetup: SetupEncryption accepts the keys of an account that has none.  The
\* screen with the recovery key is part of the page it stays on until it is
\* done.  Its catch leaves encKey as it is by then.
iapSetup(t) ==
    /\ At(t, "prove") /\ flow[t].op = "setup"
    /\ \/ /\ password = NoKeys /\ iapSession[t] # None
          /\ Upload(flow[t].key)
          /\ Arm(t, flow[t].key) /\ UNCHANGED <<encKey, iapSession>>
          /\ SaveHeld(t)
          /\ Go(t, "vaults")
       \/ /\ Upload(flow[t].key) \/ UNCHANGED password
          /\ End(t)
          /\ UNCHANGED <<keys, calls>>
    /\ UNCHANGED <<data, record, page, token, view>>

StartPasskey(t) ==
    /\ page[t] \in {"login", "lock", "unlock"}
    /\ Start(t, "passkey", "passkey", None)
    /\ UNCHANGED <<password, data, record, page, token, keys, view, calls>>

\* passkeyLogin: the server accepts the assertion, whatever the page has
\* become by then; the passkey wraps the key of the password it was made with,
\* or none.
passkeyLogin(t) ==
    /\ At(t, "passkey")
    /\ \/ /\ token' = [token EXCEPT ![t] = "tab"]
          /\ \/ Go(t, "session")
             \/ \E k \in Passwords :
                  flow' = [flow EXCEPT ![t] = [@ EXCEPT !.step = "prf", !.key = k]]
       \/ End(t) /\ UNCHANGED token
    /\ UNCHANGED <<password, data, record, page, keys, view, calls>>

\* The session is fetched: the key must open its private key.
FetchForPasskey(t) ==
    /\ At(t, "prf")
    /\ \/ token[t] # "none" /\ flow[t].key = password /\ Go(t, "open")
       \/ End(t)
    /\ UNCHANGED <<password, data, record, page, token, keys, view, calls>>

\* The private key has been decrypted.
UnlockWithPasskey(t) ==
    LET k == flow[t].key IN
    /\ At(t, "open")
    /\ encKey' = [encKey EXCEPT ![t] = k]
    /\ Arm(t, k)
    /\ iapSession' = [iapSession EXCEPT ![t] = k]
    /\ saveSessionKey(t, k)
    /\ Go(t, "vaults")
    /\ UNCHANGED <<password, data, record, page, token, view>>

\* loadVaults and loadTeams, before the page shows the vaults.  What becomes of
\* a page for which they fail depends on how it signed in.
LoadVaults(t) ==
    /\ At(t, "vaults")
    /\ \/ token[t] # "none" /\ Show(t, "app") /\ End(t) /\ UNCHANGED <<token, keys>>
       \/ /\ flow[t].op = "iap" /\ DropKey(t) /\ End(t) /\ UNCHANGED <<page, token>>
       \/ flow[t].op # "iap" /\ Abandon(t) /\ UNCHANGED keys
    /\ UNCHANGED <<password, data, record, view, calls>>

-----------------------------------------------------------------------------
(* An open page *)

\* handleRoute, for a step in the history of the browser: what a page shows
\* depends on its token, and on its having been locked.
handleRoute(t) ==
    /\ \/ token[t] # "none" /\ lockContext[t] # None /\ encKey[t] = None /\ Show(t, "lock")
       \/ token[t] # "none" /\ (lockContext[t] = None \/ encKey[t] # None) /\ Show(t, "app")
       \/ token[t] = "none" /\ Show(t, "login")
    /\ UNCHANGED <<password, data, record, token, keys, view, flow, calls>>

\* A mouse or a key moves: the timer starts again, the record is touched.
Activity(t) ==
    /\ timer[t]
    /\ Issue(t, [op |-> "touch", got |-> None])
    /\ UNCHANGED <<password, data, record, page, token, keys, view, flow>>

\* lockVault, by the button or by the timer.
lockVault(t) ==
    /\ page[t] = "app" \/ timer[t]
    /\ lockContext[t] # None
    /\ clearSessionKey(t)
    /\ encKey' = [encKey EXCEPT ![t] = None]
    /\ unproved' = [unproved EXCEPT ![t] = FALSE]
    /\ timer' = [timer EXCEPT ![t] = FALSE]
    /\ plain' = [plain EXCEPT ![t] = @ \ Lists]
    /\ Show(t, "lock")
    /\ UNCHANGED <<password, data, record, token, lockContext, iapSession, reading, flow>>

logout(t) ==
    /\ page[t] \in {"app", "lock"}
    /\ clearSessionKey(t)
    /\ token' = [token EXCEPT ![t] = "none"]
    /\ Forget(t)
    /\ plain' = [plain EXCEPT ![t] = {}]
    /\ Show(t, "login")
    /\ UNCHANGED <<password, data, record, reading, flow>>

\* openItemDirect leaves the decrypted item in the list of items.
openItem(t) ==
    /\ page[t] = "app" /\ encKey[t] # None /\ "opened" \in Plain
    /\ plain' = [plain EXCEPT ![t] = @ \union {"opened"}]
    /\ UNCHANGED <<password, data, record, page, token, keys, reading, flow, calls>>

\* renderItems, or collectAllItems for the search: several awaits long.
StartReading(t) ==
    /\ page[t] = "app" /\ encKey[t] # None
    /\ \E l \in Lists : reading' = [reading EXCEPT ![t] = @ \union {l}]
    /\ UNCHANGED <<password, data, record, page, token, keys, plain, flow, calls>>

FinishReading(t) ==
    \E l \in reading[t] :
        /\ reading' = [reading EXCEPT ![t] = @ \ {l}]
        /\ plain' = [plain EXCEPT ![t] = @ \union {l}]
        /\ UNCHANGED <<password, data, record, page, token, keys, flow, calls>>

\* An item of a personal vault is saved: its key is encKey itself.
saveItem(t) ==
    /\ page[t] = "app" /\ encKey[t] # None
    /\ data' = data \union {encKey[t]}
    /\ UNCHANGED <<password, record, page, token, keys, view, flow, calls>>

\* recover, in any browser: the private key is encrypted under the new key, the
\* items are not.
recover ==
    /\ password # NoKeys /\ password < MaxResets
    /\ password' = password + 1
    /\ UNCHANGED <<data, record, page, token, keys, view, flow, calls>>

-----------------------------------------------------------------------------
Init ==
    /\ password \in {0, NoKeys}
    /\ data = {}
    /\ record = None
    /\ page = [t \in Tabs |-> "login"]
    /\ token = [t \in Tabs |-> "none"]
    /\ encKey = [t \in Tabs |-> None]
    /\ unproved = [t \in Tabs |-> FALSE]
    /\ lockContext = [t \in Tabs |-> None]
    /\ iapSession = [t \in Tabs |-> None]
    /\ timer = [t \in Tabs |-> FALSE]
    /\ plain = [t \in Tabs |-> {}]
    /\ reading = [t \in Tabs |-> {}]
    /\ flow = [t \in Tabs |-> None]
    /\ calls = [t \in Tabs |-> {}]

SignIn(t) ==
    \/ Load(t) \/ SingleSignOn(t) \/ FetchSession(t) \/ LoadSessionKey(t) \/ Restore(t)
    \/ Type(t) \/ Login(t) \/ FinishLogin(t) \/ unlockVault(t) \/ ReloadItems(t)
    \/ DeriveKey(t) \/ iapUnlock(t) \/ iapSetup(t)
    \/ StartPasskey(t) \/ passkeyLogin(t) \/ FetchForPasskey(t) \/ UnlockWithPasskey(t)
    \/ LoadVaults(t)

Use(t) ==
    \/ handleRoute(t) \/ Activity(t) \/ lockVault(t) \/ logout(t) \/ openItem(t)
    \/ StartReading(t) \/ FinishReading(t) \/ saveItem(t)

Next ==
    \/ \E t \in Tabs : SignIn(t) \/ Use(t) \/ Save(t) \/ Touch(t) \/ Clear(t)
    \/ Age
    \/ recover

Spec == Init /\ [][Next]_vars

-----------------------------------------------------------------------------
(* Properties *)

\* Every variable holds what the pages, their calls and the keystore may hold.
TypeOK ==
    /\ password \in Passwords \union {NoKeys}
    /\ data \subseteq Passwords
    /\ record \in Record \union {None}
    /\ page \in [Tabs -> Pages]
    /\ token \in [Tabs -> TabTokens]
    /\ {encKey, lockContext} \subseteq [Tabs -> Key]
    /\ iapSession \in [Tabs -> Key \union {NoKeys}]
    /\ {timer, unproved} \subseteq [Tabs -> BOOLEAN]
    /\ plain \in [Tabs -> SUBSET Plain]
    /\ reading \in [Tabs -> SUBSET Lists]
    /\ flow \in [Tabs -> Flow \union {None}]
    /\ calls \in [Tabs -> SUBSET Call]

\* The page holds a key that is right, and has the private key to unlock it by.
Opened(t) == encKey[t] # None /\ ~unproved[t] /\ lockContext[t] # None

\* The key of a page that is open opens the private key it keeps for unlocking:
\* whatever sign-in was overtaken by a lock or a logout, however old the stored
\* copy was, the page can be unlocked with the password it was opened with.
KeyOpensContext ==
    \A t \in Tabs : Opened(t) => encKey[t] = lockContext[t]

\* A page that is open will lock itself, unless the auto-lock is switched off.
HolderLocksItself ==
    AutoLock => \A t \in Tabs : Opened(t) => timer[t]

\* app.js:537: a page without a lock context has "nothing to lock".  It is refuted:
\* it holds a key when its login or set-up has failed half way.
NothingToLock ==
    \A t \in Tabs : page[t] = "app" /\ flow[t] = None /\ lockContext[t] = None
                     => encKey[t] = None

\* keystore.js:6: "Lock and logout delete it", the stored copy of the key.
LockDeletesKey ==
    (\A t \in Tabs : page[t] = "lock" /\ calls[t] = {} /\ flow[t] = None) => record = None

\* app.js:535: "Lock: wipe decryption keys and plaintext caches from memory".
LockWipesPlaintext ==
    \A t \in Tabs : page[t] = "lock" => plain[t] = {}

\* app.js:536: "unlocking is a local key re-derivation": a page that shows the
\* vaults loses its key by a lock, a logout or a reload, never by a request that
\* fails.
UnlockIsLocal ==
    [][\A t \in Tabs : page[t] = "app" /\ encKey[t] # None /\ encKey'[t] = None
         => page'[t] # "app"]_vars

\* i18n.js:838, of the recovery key: "With it you can reset the master password
\* without losing your data".
ResetLosesNothing ==
    [][recover /\ data \subseteq {password} => data' \subseteq {password'}]_vars
=============================================================================

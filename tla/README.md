# Sésamo (maspassword): a verification project

Sésamo is a zero-knowledge password manager: a Go server (`src/internal`) over
PostgreSQL, a web client (`src/web`), a browser extension (`src/extension`) and
two mobile apps (`src/ios`, `src/android`). The server stores ciphertext, keys
wrapped for somebody, SRP verifiers; everything that opens them happens in the
clients. This directory holds TLA+ models of the parts whose correctness lies in
the order of steps, the runs that check them with TLC, and proofs checked with
TLAPS. `PROJECT.json` maps every definition to the lines it stands for.

Two remarks hold for all modules.

* **Statements, not transactions.** Apart from one transaction
  (`itemRepo.Update`), a request of the server is a chain of SQL statements,
  each of which commits on its own. A model has one action for each statement
  that reads or writes what another request may change; the statements of
  concurrent requests interleave, and a chain may break off between any two.
* **Data is opaque.** A ciphertext, a key or a password is a model value, or a
  record that says what it opens and with what. SRP, RSA and AES are left out; they
  are the subject of test vectors, not of a model checker. What is modelled of the
  formats is what they must bring back: the fields of an item through a file, the
  block an Argon2 block is made from, the carries of its arithmetic.

## 1. The system

| Component | State it keeps | Operations | What is hard | What makes it correct |
|---|---|---|---|---|
| Items and history (`item_handler/service/repo`) | tables `items`, `item_history` | create, update with a version check, delete, list, history | concurrent updates, a copy taken before the row is locked, lost answers, vault deletion in the middle | exact history, no lost update, no write without access |
| Teams and vault keys (`team_*`, `vault_*`, `vault_key_repo`, `app.js`) | `teams`, `team_members`, `vaults`, `vault_keys`, `vault_teams`; the page of a tab | create, add, promote, remove; create, share, delete a vault; pending keys | keys are handed out by browsers, in chains of requests that break off; lists that are old when used | keys reach the members, and nobody else; somebody can manage a team |
| Share links (`share_link_*`, `app.js`) | `share_links` | create, revoke, status, redeem | two visitors at once, expiry, lost answers, deletion of the item | one-time secrets |
| Accounts (`auth_service`, `user_handler`, `user_repo`, `srp/store`) | `users`, the in-memory stores of handshakes | sign-up, set-up, login, upload of keys, recovery, creation on sight | check and write in two statements, a check that passes when it cannot read, three UPDATEs for one set-up, expiry | one key pair for good, opened by the password and by the recovery key |
| Web client, sessions (`app.js`, `keystore.js`) | keys in memory, a copy of the key in IndexedDB, tokens | unlock, lock, logout, reload, recovery | asynchronous saves and deletions of the copy in several tabs, sign-ins that are overtaken or fail half way | nothing opens after a lock; what was readable stays readable |
| Web client, items (`app.js`) | `currentVault`, `currentItem`, `items` | open, save, move, delete, import | globals read again after an `await` | an edit reaches the item it was made for |
| Web client, searches and what surrounds the items (`app.js`, `breach.js`) | the index of the search, the palette, the dashboard, the list of vaults, chips, menu, dialogs, the code of an item | search, look up breaches, visit, create, delete and export a vault | answers that come when the page shows something else | what is shown is of what it stands beside |
| Extension, worker (`background.js`) | cached items, pending saves, session storage | login, refresh, save, fill, passkeys | logout during a refresh, pages that navigate | no item outlives the session |
| Extension, popup (`popup.js`) | the screen, the list, the login options, the code of an item | log in, unlock, change the server, open an item | answers in any order, timers set after their screen was left | codes and lists are of what is shown |
| Extension, passkeys of a page (`page.js`, `content.js`) | open requests of the site, dialogs, the list under a field | create, use, abort | two worlds and a worker that talk by messages, aborts at any time | each request gets its own answer, or the user is asked |
| Files and key derivation (`export.js`, `kdbx-read.js`, `import.js`) | none | write and read KDBX and CSV, Argon2 | one stream of keystream over a whole document, damaged files, 64-bit numbers without 64-bit integers | what is read is what was written, or an error |
| Login passkeys (`passkey_*`) | credentials and their counters; challenges travel in signed tokens | register, log in, remove | logins that overlap each other and the removal, expiry | nobody logs in with a passkey that is gone |
| Device tokens (`device_*`) | token hashes | link, use, revoke | revocation during a request, by the token itself too | a revoked token stays revoked, one that is not works |
| SSO, OIDC, IAP (`oidc`, `iap`, `sso_handler`) | caches of discovery documents and keys | start, callback, validate | refreshes that overlap, fail or end in another order; rotated keys | no token passes with a key that was withdrawn long ago |
| Mobile apps | keychain, offline snapshot, keys in memory | link, unlock, lock, unlink, sync | a sync that ends after an unlink | nothing is left after an unlink |
| Audit, mail, settings | rows, output | write | | out of scope |
| Other cryptography, generators | none | pure functions | numerical | out of scope |
| User interface, packaging, scripts | none | | | out of scope |

The components meet in the database (row locks, foreign keys that cascade:
vault → items → history and links, vault → keys and team shares), in the calls
between client and server, and in what a client remembers: a version, a wrapped
key, the item a page shows. The list `hazards` of `PROJECT.json` names the lines
where that goes wrong first, and the properties that look at each.

## 2. Modules

```
ItemLog <--implements-- ItemStore          <-- ItemStoreProofs      MCItemStore
OneTimeSecret <--implements-- ShareLinks   <-- CredentialProofs     MCTokens
Credential <--implements-- LoginPasskeys,
    DeviceTokens; KeyCache <-- Credentials <-- CredentialProofs     MCTokens
TeamVaults                                 <-- TeamVaultsProofs     MCTeamVaults, MCTeamVaultsTwo
Accounts                                   <-- AccountsProofs       MCAccounts
WebSession                                 <-- WebClientProofs      (checked as it is)
WebItems                                   <-- WebItemsProofs       MCWebItems
WebSearch, WebViews, Popup,
    PasskeyRelay           <-- Clients     <-- ClientsProofs        MCClients
Extension                                  <-- ExtensionProofs      MCExtension
Argon2, Csv                <-- Formats     <-- WebClientProofs      MCFormats
Kdbx                       <-- Formats     <-- ClientsProofs        MCFormats
```

Credentials, Clients and Formats put modules side by side that share nothing; in MCTokens,
MCClients and MCFormats `part` says which one a behaviour is of. Credentials (P, D and K are its
instances of LoginPasskeys, DeviceTokens and KeyCache), Clients (Search, Views, Pop and Relay:
WebSearch, WebViews, Popup, PasskeyRelay) and Formats (K, A and C: Kdbx, Argon2, Csv) have the constants and
the variables of their parts, what the constants are assumed to be, and the properties under the
names the runs and the theorems use. WebClientProofs has the theorems of two components that both
run in the web client and have nothing else in common; ClientsProofs extends it for its lemmas about
induction and sequences, and adds to the theorems about the clients' pages the one about KeePass files.
Where one component uses another, it has the other's visible behaviour in place of its steps:
WebItems and Extension have the server of ItemStore as one action per request, with `Put` the
version check that ItemStore proves to be atomic; TeamVaults hands out the keys whose use
WebItems and Extension model; Popup and PasskeyRelay have the worker of Extension as one action
per message, answered in any order.

Each module defines its type invariant `TypeOK` where it has one of its own shape. The runs
spend their time on the other properties: those of ItemStore, ShareLinks, TeamVaults,
Accounts, WebSession and WebItems are theorems, and any of them can be added to its
configuration.

### ItemStore, ItemLog

A handler (`Handlers`) is a goroutine with a request and the label of its next
statement. `VerifyAccess`, `GetByID`, `Snapshot`, `Update`, `Commit`, `Insert`,
`Delete` are the statements of `item_service.go` and `item_repo.go`; `Abort` is
a cancelled context, a lost connection or a crash before COMMIT. PostgreSQL is
external and modelled at READ COMMITTED: `Snapshot` reads the committed row and
holds nothing but the shared lock of the foreign key (`KeyShared`), `Update`
waits while another transaction holds the row (`RowLocked`), looks at the version
it then finds, and `Commit` publishes the copy and the new row together. A
`Delete`, and the cascade of `DeleteVault`, wait for open copies. The server takes
any version and any vault path from anybody. Users of a vault send the versions they were
told of its items (`known`, `Sent`), however long ago: an answer that came late, another
device. Everybody else sends any version and any delete, under the path of any vault.

Properties: `HistoryExact` (version n has exactly the history 1 to n-1, although
the copy is made before the row is held; it rests on clients with access naming
versions they were told, since a version ahead of the row could be the row's by the time of
the UPDATE), `AcknowledgedIsKept`, `OutsidersChangeNothing` (no version is by a
user without access to the item's vault, and no delete of one gets to its DELETE),
and `ImplementsItemLog`: with the history and the row read as
one log, the store implements `ItemLog`, where a user appends only on top of the
version it was told and only with access, and where what is removed stays removed.
`EveryRequestAnswered` is the absence of deadlock and starvation between the two
kinds of locks.

### TeamVaults

Tabs (`Tabs`) run one chain of requests at a time (`pc`, `job`): open the team page
and hand out the missing keys (`GetPendingVaultKeys`, then for each vault
`GetVaultKey`, `ShareVault`, `InsertVaultKey`, `AddTeamShare`), add a member
(`VerifyAdmin`, `AddMember`, `GetPublicKey`, `ListTeamVaults`, then the same), change
or remove a member, create a vault (`GetMembers`, `CheckVaultRight`,
`CreateTeamVault`, `AddTeamShare`, `InsertVaultKey`), delete one. `Break` is a
request that fails, on either side, or a closed tab. Where the web client reads
`currentTeam` again after an `await`, any team may be current by then.

Properties: `TeamCanBeManaged`, `HoldersBelong`, `OnlyHoldersShare` (an action
property: only the creating request or a holder adds a copy), and under fairness
`KeysReachMembers`. Removing a member leaves its copies: the code promises no
revocation, and `HoldersBelong` asks for none.

### ShareLinks, OneTimeSecret

Requests of members (`call`) and pages of visitors (`visit`) over the table
`link`, with the clock `now`, changes of admins and deletions of items. `Redeem` is
the conditional UPDATE that decides, `CheckExists` the second statement that tells
a used link from an unknown one. A request, a statement or an answer may fail (`Fail`): the
page then shows the same notice as for a link that is gone, and the visitor was not answered
(`lost`).

Properties: `RefusedRightly` (what the server answers is true: nobody is answered that a link
is used or unknown that is still open; of the notice of the page that does not hold, section 5) and
`ImplementsOneTimeSecret`: the payload is handed out at most once, in time, and never
after the link, or the item it is of, was withdrawn.

### Credential, LoginPasskeys, DeviceTokens

What lets a request in without a password. Credential says what both promise: it is
issued once, to one user, and withdrawn once, for good; a request that shows it is
decided at one moment between its arrival and its answer, as that user while it is
valid and not otherwise. LoginPasskeys has the rows of `user_passkeys` (`row`, with
`gone` for one that is deleted), the counters of the authenticators and the requests
(`call`), cut at their statements: `Get` (the age of the challenge, the SELECT and the
checks of what it returned), `TouchUsed` (an UPDATE by id whose result is ignored),
`Answer`. DeviceTokens has `device_tokens`; a request comes with a session or a token
(`GetByID`, `TouchLastUsed`) and may then create or revoke tokens, its own included.

Properties: `PasskeysAreCredentials`, `TokensAreCredentials`, the two refinements.
A login that has read its row goes on when the row is deleted: the moment it is
decided at is the SELECT, which is before the deletion is answered.

### KeyCache

The keys of an identity provider in one server process: `getKey` and `fetchKeys` of
`oidc/client.go`, which `iap/validator.go` repeats without discovery. `published` is
what the provider publishes, `seen` (of no variable of the code) when each key last
was. A validation (`req`) is cut where it locks the cache or waits for the provider;
answers come in any order, fail, or are cut off by `Timeout`; `Rotate` adds and
withdraws keys, `Restart` empties the cache.

Property: `AcceptedRecently`. A token is accepted with a key that was published within
`keysTTL + Timeout`, although an old answer is stored as if it were fresh; only a
request whose own fetch has failed may use an older one ("A stale key beats a failed
fetch", `client.go:286`).

### Accounts

One account (the row of one email), attempts (`Clients`) to sign up, set up (with
and without keys), log in, recover, and requests (`Callers`) that create the
account when they first see the email (SSO, IAP, invitations). Everything an
attempt draws at random — password, key pair, recovery key — is named by the
attempt. Statements are separate, and a SELECT may fail: SetupEncryption then refuses,
Signup goes on to its INSERT, `UploadCheck` lets the upload pass
(`user_handler.go:39`), and a login is answered like that of an account without keys
(`auth_service.go:208`). The entries of the handshake and challenge
stores expire (`Expire`), which a restart of the process does too.

Properties: `KeyPairMatches`, `PasswordOpensKey`, `AcknowledgedIsUsable`. A set-up is a check followed by up to
three UPDATEs, so two of them at once can mix; `AtOnce` bounds how many run at the
same time. With `AtOnce = 1` the properties hold until an upload replaces a key pair that is there
(`Overwritten`, which the attempt of that upload is labelled by and nothing ends); that it
may, and what happens beyond `AtOnce = 1`, is in section 5.

### WebSession

The keys a page holds (`encKey`, `lockContext`, `iapSession`), its auto-lock
(`timer`), what it keeps decrypted (`plain`), its token, and the `record` that
`keystore.js` keeps in IndexedDB. A sign-in (`flow`) is cut at its awaits: load of
the session, of the stored key, derivation of a key, proof of the key against the private
key, load of the vaults; the user may lock, log out, reload or go back in the history of the
browser (`handleRoute`) between any two, and each may fail, with what the catch of that
sign-in leaves. A login, an unlock after SSO and a first set-up hold their key before anything
has confirmed it (`HoldUnproved`); `unproved`, of no variable of the code, says so. A key of
the keystore is held only when it has opened the private key (`Restore`), after a passkey
that only authenticates, too. Calls of the
keystore (`calls`) are not awaited by the code and end in any order; `Touch` takes
two transactions. A password is a number, which also names the key derived from it
and the private key encrypted under it, so that "the stored key opens the private
key" is an equation; an account may begin without keys (`NoKeys`).

Properties: `KeyOpensContext`, `HolderLocksItself`, of a page that is open (`Opened`: its key is
confirmed and it has kept the private key to unlock by). A page whose login or set-up failed
after it took its key is not open in this sense and has no timer, which section 5 has a
property for. `AutoLock` is the setting `autoLockMinutes > 0`, without which no timer is promised.
What the comments promise of a lock and a recovery is in section 5, too.
One tab is enough to see all of it: tabs share nothing but the
record, and a page that is reloaded is a second reader of the record already.

### WebItems

One page over a personal and a team vault (`page`: the globals `currentVault`,
`items`, `currentItem`, `editingItem` of `app.js`), the handlers it has running
(`op`), the server's rows and another client that edits and deletes. A handler is
cut at its awaits: the vault's key, WebCrypto, the request. What a handler reads
again after an await (`currentVault` in `Encrypted` and `importItems`,
`currentItem` in `TakeCopy`) is read again by the model. A request or its answer
may be lost; `Fail` is what the code does then, which is why the page can have the
list of one vault under the name of another. The content of an item says what it
was made from, and the key it is under.

Properties: `EditsFollowTheItem` (every update succeeds the version its author saw
of the same item, whatever list or form the page shows), `ReadableInVault` (an item
is under the key of the vault it is in), `MoveKeepsItem` (a move deletes only an
item of which it has created a copy, as the page had it: an edit of another client that came in
between is not in the copy, section 5). `Ops` are the operations that may be running: with one, the user waits
for each; the code has no lock that makes the user wait, and what happens without is
in section 5. `Covered` says that the user opens nothing else behind the dialog of a
history, which `closeHistory` ends.

### Extension

The service worker of the extension. Each member of `Handlers` is a message in hand
(`op`), cut at the awaits of `background.js`; `mem` is the session and the keys in
its memory, `cache` its decrypted items, `store` and `pendingSaves` what
`chrome.storage.session` keeps. `Kill` is the browser, which stops the worker at
any await: memory goes, storage stays, and `ReadSession`, `RestoreToken`,
`ImportKeys` begin every message. A login holds its token and its key before it decrypts
the private key, and `UnwrapKey` may fail there. The entries of the cache are objects: an update
writes to the object it has found, even if a refresh has replaced the cache by then
(`kept`). A 401 (`Refuse`, `Unauthorized`) logs out in the middle of whatever the
message does; during a refresh, `NoKey` is the `catch` that goes on with the next
vault. Items are of one site, and users of one account. A vault's items enter the
cache in one step, and an item that somebody deletes is a request that fails.
`getVaults` is its call of `ensureItemsCache`: the vault keys it may still fetch for
names have no step.

Properties: `SavedOnce` (staged credentials are taken out before they are saved, so
that a lost answer and a second click do not save twice), `UpdatesFollow` (an update
replaces the version its data come from, although the version is read after the
data), `CacheIsOfItsVersion`, `LoggedOutHoldsNothing` (no key and
no item in a worker without a session, also after a 401 in the middle of a refresh)
and `SessionIsSaved` (a worker may be killed and finds the session it had, unless the login
of that session failed half way, `HalfLoggedIn`). They are
checked for messages that do not overlap; section 5 says what overlapping ones do.

### WebSearch

The three parts of the web client that decrypt the items of all vaults: the search of
the sidebar with its index, the command palette, the dashboard. A collection (`work`)
is `collectAllItems`, cut at the two awaits of each vault; `Jobs` bounds how many are
under way. Of an index matters whether it misses an edit made on this page
(`misses`), of `gsToken` which search has the latest number. An answer of the breach
list may fail or be an error page (`Verdict`). `Inherited` are passwords that are
called like a property every object has, which the dashboard's table of passwords
takes for its own.

Properties: `ResultsAreOfInput` (results are of the text in the field, whichever search
ends last), `BreachesAreOfReport`, `NothingLoadsForever`.

### WebViews

What surrounds the items: the chips of the teams a vault is shared with, its menu and
the role it depends on, the dialogs that create, delete and export a vault, the code of
an item that changes every second. A step back in the history of the browser
(`Visit`) goes to another vault under an open dialog. The lists and roles arrive when
their requests end; each handler is cut at its awaits.

Property: `SurroundingsAreOfVault`, of the chips and of the menu. What the dialog that deletes a vault
says (`DeletesTheVaultNamed`) is the run `clients_delete`.

### Popup

The screens of the popup and the messages it has under way (`call`), which the worker
handles one beside the other. A ticker that computes its first code (`starting`) sets
its interval afterwards; the one in `totpTimer` is the only one `stopTotp` stops
(`lost`: the others).

Property: `CodeIsOfItem`, although such tickers exist.

### PasskeyRelay

The requests a site makes of `navigator.credentials` (`page`), the two queues of posted
messages (`toRelay`, `toPage`, and `outbox` until the relay is there), the handlers of
`content.js` (`handler`) with the list and the dialog they show, and the worker. The
site may abort a request at any time, the popup may lock the vault between two calls,
and a call may get no answer (`Unanswered`, `UnansweredCallback`), because the worker
was restarted.

Properties: `AnswersMatch` (an answer is over the challenge of its own request, by a
passkey that had been saved), `DropdownIsArmed` (the list under a field has a request
its pick can go to), `EveryRequestIsPut` (a request is settled or the user is asked).

### Kdbx, Argon2, Csv

Kdbx is a file between two programs. `buildKdbx` writes one, `Foreign` is what KeePass
may write, `Damage` cuts it short, moves or repeats a block or alters a part;
`readKdbx` takes it apart in the order of the code, with each refusal where it
happens. A byte remembers the keystream bytes it has been XORed with (`pads`), so
that a value decrypted out of turn is rubbish; hashes and ciphers are the terms they
are computed from. Argon2 follows the filling of the memory (`at`, `written`) and
computes, for every pair of words, which block is referred to; the arithmetic on
half words is checked against that of whole numbers, for a limb of 2 bits instead
of 16. Csv is `buildCsv`, the parser and the two tables of columns.

Properties: `ReadsWhatWasWritten` (an import ends with an error, or has the entries that
were written, history and recycle bin decrypted in passing), `ItemsComeBack` (a typed item
comes back as it was, and of no item is a value lost, whatever a custom field is called but for
one name the reader drops), `RefersAsPrescribed` (each block refers to the one RFC 9106 prescribes, which
is computed and is not being computed), `NumbersAreExact`, `CsvRoundTrip`.

## 3. Runs

| Run | Shows | Bounds, and why they are enough |
|---|---|---|
| `item_store` | all properties of ItemStore, the refinement, and that every request is answered | two handlers are a conflict and its winner; one item (items share no lock but the vault's) in the own vault of a user with two devices; a second user, who shares another vault with the first, sends updates of the item with every version and deletes of it under the paths of both vaults; versions up to 3: a conflict over a version that is itself an update |
| `team_vaults` | the safety of TeamVaults | an owner, two users, two tabs, one team, one vault: both tabs may be admins of the team, and the third user is added, removed and added again |
| `team_vaults_live` | `KeysReachMembers` | owner and one user; both tabs hand out the same key |
| `credentials` | the properties of ShareLinks, LoginPasskeys, DeviceTokens and KeyCache, with their refinements | one link (links share nothing), two visitors who race for it and whose requests fail at any step, life times 1 and 2 with a clock to 3, an item in a personal and one in a team vault; two requests at a time, for one passkey with a counter to 2 and a clock that exceeds the age of a challenge, for two tokens, one of which may revoke the other, and for two keys of a provider with a clock that lets the cache expire twice. Visitors, requests, tokens and keys are symmetric |
| `accounts` | Accounts, set-ups one after the other | four attempts: a set-up that breaks off, a second one, a login whose upload replaces keys it could not read, and a recovery |
| `web_session` | the invariants of WebSession | one tab, an account with or without keys, one recovery, the auto-lock on, two keystore calls open at a time: a save and a deletion, or a touch and a deletion, pass each other |
| `web_session_reset` | a finding | the same instance |
| `web_items` | the properties of WebItems for a user who waits | two vaults, one under the derived key and one under a vault key; an item in each and the room for a third: a copy, a move, an imported item; versions up to 2: an edit that crosses one of another client; a file of two items, so that the second follows the first's failure |
| `extension` | the properties of Extension, one message after the other | a personal and a team vault, an item and the room for a new one, one session that may expire or fail to begin, one submission from one tab that is committed, repeated or lost, versions up to 3, of which another client makes the second at most: an edit that crosses a save, and a save that is repeated. A second session, with one item and versions up to 2, has been checked by hand (`MaxToken = 2`) |
| `clients` | the properties of WebSearch, WebViews, Popup and PasskeyRelay | two vaults to collect, two collections at a time: a search that overtakes another, a scan after a scan; three vaults, one the user's own, one of a team they lead, one of a team they do not, one of them not created yet, two operations at a time; two messages of the popup at a time, two servers, two items; two requests of a site, the second with the challenge of the first or its own |
| `clients_delete` | a finding | the same instance |
| `formats` | the properties of Kdbx, Argon2 and Csv | a block of keystream of 3 bytes and secrets that end within, at and beyond it; items of each type with up to two custom fields, called like each kind of field that has a meaning, "TOTP Settings" included; of the fields of cards and identities those that tell the type and one of each kind of the others; databases of both versions, each cipher and stream, with two groups and earlier versions of entries; up to three lanes and passes, less memory than the least and more than whole segments fill; lengths on both sides of each multiple of a digest; CSV cells of up to two characters |

Every property of a passing run has a mutant in `PROJECT.json`: a plausible bug in
one definition that makes the run fail. The mutated forms stand beside the
definitions they replace, under the comment "Mutant of".

Fairness. `item_store` assumes that Gin runs a handler to its end
(`WF(Serve)`) and that PostgreSQL grants a row lock to each waiter in turn
(`SF(Update)`, `SF(Delete)`); it assumes nothing of clients. `team_vaults_live`
assumes that the owner of a team opens its page again and again and that the
requests of that page do not fail every time (strong fairness of the steps of an
opened page, for the owner's tab only); that is what "shared later" in the web
client rests on, and nothing else hands out keys. `clients` assumes that a
request of a page ends, with an answer or an error (`WF(Collect)`), that posted
messages are delivered and handled, and that a call to the worker is answered or known
to have failed, as `bg()` resolves either way (`WF(Answers)`); it assumes nothing of
the user, so `EveryRequestIsPut` ends where the user is asked, and
`NothingLoadsForever` excludes a user who starts the same thing again and again.
Safety runs assume no fairness.
Deadlock checking is off only where everything may have been done: every attempt
of Accounts ends, a team's only user may have nothing left to do, in WebItems and Extension
versions and submissions run out, a site has made its two requests, and a file has
been read.

## 4. Proofs

TLC shows a property for the instance of a run, the theorems for every value of the
constants. Each theorem of a safety property has the same shape: an inductive invariant, a
lemma for each action that it preserves it, and the property from it. The invariants have
been checked with TLC on the instances of the runs before they were proved.

| Module | Theorems about properties of the runs | Under |
|---|---|---|
| ItemStoreProofs | `HistoryIsExact`, `AcknowledgedWritesAreKept`, `OutsidersNeverChangeAnything`, `Refinement` (of ItemLog) | `ASSUME`s of ItemStore only |
| CredentialProofs | `NobodyRefusedInError`, `LinksAreOneTimeSecrets`, `DeviceTokensAreCredentials`, `LoginPasskeysAreCredentials`, `KeysAreRecent` | those of ShareLinks and Credentials |
| TeamVaultsProofs | `TeamsCanBeManaged`, `HoldersShare`; `HoldersOfOneTeam` | those of TeamVaults; one team for the last |
| AccountsProofs | `KeyPairs`, `PasswordsOpenKeys`, `AcknowledgedStays` | `AtOnce = 1` |
| WebClientProofs | `HeldKeyUnlocks`, `HoldersLock`; `NumbersAreExact`, `RefersAsPrescribed`, `CsvRoundTrip` | those of WebSession; `FormatsAssumption` |
| WebItemsProofs | `ItemsAreReadable`, `EditsFollow`, `MovesKeep` | `UserWaits` |
| ExtensionProofs | `CacheIsCurrent`; `LogoutEmpties`, `SessionSurvives`; `Updates`, `SavesOnce` | `NoneIsNoRow`; `OneAtATime` and `NoneIsNoOperation`; `OneAtATime` and `NoneIsNoRow` |
| ClientsProofs | `Results`, `Breaches`, `Codes`, `Surroundings`, `Answers`, `Dropdown` | those of Clients |
| ClientsProofs | `DocumentsComeBack`, which is half of `ReadsWhatWasWritten` for files of version 4 | `FormatsAssumption` |

The modules also prove the type invariants named in section 2. The number of users, handlers,
tabs, visitors, requests, items, versions, ticks is nowhere bounded by a theorem but as the
constants say.

**What is assumed.** Everywhere, that `None` and the other sentinels are no row, request or
message (an `ASSUME` of each module, which TLC evaluates, since model values differ from everything;
for Extension they are the hypotheses `NoneIsNoRow` and `NoneIsNoOperation`, which say that
`None` is not a record with the fields of one). In KeyCache, `Timeout <= keysTTL` (10 seconds and an hour in the code).
Formats assumes that limbs and digests have an even size and two digests fit into a word of two
limbs (65536 and 64 bytes in the code), that Argon2 has a lane and an address in each block of
addresses, and that its variant is one of the three; of CSV, that cells are texts of characters, among them
those the format gives a meaning, that a line ends with LF or with CR and LF, and that a table of
another program that is written without quotes does not end in a row of one empty cell, of which
such a file holds nothing; of KeePass files, that a block of keystream has a byte in it, that what is
secret in an item or an entry is a text nothing has encrypted yet, and that data can be told from the end
of a file and a document from what a wrong key makes of one. The hypotheses that restrict
what may happen at the same time are those of the runs, and section 5 shows what happens without
each: `AtOnce = 1` (one set-up of an account at a time), one team for `HoldersBelong`,
`OneAtATime` (messages of the worker do not overlap), `UserWaits` (one operation of the page, and
nothing behind an open history). `CacheIsCurrent` holds for any number of messages that overlap,
and the types of Accounts for any number of set-ups.

**ItemStore.** `IInv` adds to the properties: what kind of request each statement serves
(`Requests`); that a user with access knows and sends no version later than the item's (`Causal`), and what a handler
has found out about its request (`Progress`); that a request to create has its item for itself
(`FreshIds`); that the copy of an open transaction has the version of the row or an older one,
and that it is the row as long as the version the request names is current (`Copies`); that two
transactions never hold the same row (`Locks`); that deleted items have no history
(`NoOrphans`). The heart of the argument: versions only grow, so if the UPDATE finds the version
the client sent, no transaction has committed between the copy and it, and the copy is of the row
it replaces. A request of a user without access does not get that far: `Progress` has the access
of its user to the vault that its item was found in. The refinement maps `Insert` and `Commit` to `Write`, `Delete` and `DeleteVault` to
`Remove`, `Reply` and `ListByVault` to `Tell`, everything else to a stutter.

**ShareLinks, LoginPasskeys, DeviceTokens, KeyCache.** `LinkInv`: a request that creates has its
id for itself (`FreshLinks`), a visitor's link was in the table once (`VisitsKnown`), and what
has a row has its item. No INSERT then brings a link to life that a visitor was refused, and the
UPDATE that decides is the moment the secret is given away. `TokenInv` and `PasskeyInv` say that
what a request goes on with after its SELECT was in the database then, which gives the moment
at which the abstract credential decides; registrations and creations again have their ids for
themselves. The mapping (`Owner`, `Since`, `Verdict` of the two modules) reads the database and
the requests. `KeyInv`: a key in the cache was published no longer than `Timeout` before the
cache was filled (`SeenInTime`), because the request that filled it began no earlier (`InTime`),
whatever other answers are installed in between.

**TeamVaults.** `IInv` has what each tab has found out and may therefore do next (`TabOK`), that a
vault that is being created is one tab's (`FreshVaults`), and that keys go with their vault and
are held by users with a public key who are or were in a team (`Held`). Nothing takes a copy away
but the deletion of the vault, so the check of a holder is still true at its INSERT. With two
teams nothing better than `Held` holds (`MCTeamVaultsTwo.cfg`).

**Accounts.** `IInv`: with one set-up at a time, the columns of the row fill in their order
(`RowInOrder`), and what a set-up found in its check is so at its UPDATEs (`SetUpsInOrder`); a
recovery was challenged for an account with a recovery key (`Recoveries`); a login that may upload
keys has the password of the verifier, unless a set-up left it (`Logins`). All this holds until an upload
has replaced a key pair (`IInv == TInv /\ (Overwritten \/ SInv)`), and once one has, the
properties claim nothing more (`OnceOverwritten`).

**WebSession.** `IInv` has, beside the two properties, that a sign-in that has a key has one of a
password (`FlowOK`); that a sign-in that waits for the proof of its key finds that key held or
wiped, but no other, and one that waits for the proof of a stored key finds no private key to unlock by if a
logout has taken its session (`SyncOK`); and the types of the rest. It is `SyncOK` that lets a
sign-in arm a page that was locked or logged out while it waited.

**WebItems.** `IInv`: what the page knows of an item, in its list, its detail, its form or the
answer to a request, is of that item and under its key, however old (`Known`); the detail is
decrypted with the key of the vault that is shown (`DetailOK`), the form has what the item had at
the version it was filled from (`FormOK`); an operation goes on with the vault, the data and
the form it began with (`VaultOK`, `DataOK`); what it sends is under the key of the vault it goes
to, and an update is of the item it names if the server finds that in the vault it names
(`RequestOK`); the DELETE of a move is of the item it copied, whatever its version by then (`MoveOK`). The last two are where
an item of another vault, shown because a load had failed, comes to no harm: what its
decryption gives is rubbish, and the server does not find it.

**Extension.** Four invariants. `VInv`, for any number of messages: what is known of an item is
the present version with its data, or an earlier one. `SInv`: memory and storage
agree (`Kept`: they are equal, or a login has failed half way and nothing is stored), unless the memory is empty
or a message has changed the session and not come to its save (`Entering`); a login begins when nothing is stored
(`Begun`); a message that acts for a session has the session that is stored. `UInv`:
what an update encrypts was made from the version of the cached entry it names, and that version
is in its request. `DInv`: a submission is staged for one tab only; a message that has agreed to
save it has it in its own copy, out of the map, and until the answer its content is nowhere on the
server or in the cache (`Written`), so no second click and no lost answer finds it again.

**WebSearch, WebViews, Popup, PasskeyRelay.** `SearchInv`: the search with the latest number is
for the text in the field of a page that is not locked, and the only check that may write to a
report is the one that looks up what is in it. `ViewInv`: a role that is known is one there is.
`CodeInv`: a ticker, lost or not, was started for the item whose detail is shown, or writes to
no place on the screen. `RelayInv` follows a request from the page through the outbox, the queue
and the handlers back: no request is twice on its way, a handler and an answer have the
challenge of their request, a list or a dialog on the page is of a handler that waits for it.

**Argon2.** The numbers need induction, which no theorem of the library can be cited for here, as
its hypothesis is an operator: `Induction` proves it for a set of numbers, from the cardinality of
finite sets (an interval that meets a set has a least member of it), and `Recursive` and `Recursion` give a
recursive function its equations. A product of two words is the sum of four products of limbs;
`Squared` and `Mixed` compare it, limb by limb, with that of integers, `Counters` the carry of the counter,
`Pieces` the parts of a long hash. `MemInv`: where the filling is (`PlaceOK`), what has been
computed is what comes before that place and nothing else (`MemoryOK`, by `Reached`), the block
of addresses is that of the position (`AddressesOK`). `Advance` says that a step moves to the next
place in the order of passes, slices, lanes and columns; then the window a block may refer to
(`WindowIs`) is that of RFC 9106, in its one or two pieces, and all of it comes earlier in that
order (`Before`, `Referred`).

**Csv.** `Reads(t, p, q)` says that reading `t` takes the parser from `p` to `q`, and it composes:
`ReadsJoin` for two texts one after the other, `ReadsAll` for a sequence of them. A cell, quoted or not, is
read as itself up to its delimiter (`CellIsRead`, by induction on its length), so a row is
(`RowIsRead`) and a table (`TableIsParsed`), of which the parser drops the rows that are one empty cell.
The columns are those of the header by the fixed `Header` of the export, or those counted
in a table without one (`PickedMap`); the rest of `CsvRoundTrip` compares two selections of the same
sequence, which commute with the map from items to rows.

**Kdbx.** `StreamAt` says which byte of the keystream comes next after n bytes, and what is left of
a block, so `TextIsCiphered` gives what becomes of a text that begins anywhere in it. Sealing and
reading a document are folds over its values in one order, each of which leaves the stream where the
next begins; the parser keeps that order, so a value meets the bytes it was sealed with and the elements
that are read are those of the document before it was encrypted (`DocumentIsRead`), for the program's
own stream and for that of another program. Whatever happened to a file, each MAC in it is one that was
written (`Marked`), and a MAC names its key, its place and its data; the reader, which asks for each place in
turn, therefore finds the blocks that were written, all of them, or ends with an error (`OnlyWhatWasWritten`,
`WrittenIsRead`). `KdbxInv` joins the two: the file is what its source makes of its
document, or a damaged one, and what has been read without an error is `EntriesOf` the document.

**Only model-checked.** Liveness, since the proof system has no fairness: `EveryRequestAnswered`,
`KeysReachMembers`, `EveryRequestIsPut`, `NothingLoadsForever`. Of the safety properties,
two of Kdbx. `DocumentsComeBack` proves what is hard about `ReadsWhatWasWritten`, that
encryption, damage and the order of reading do not change what a document of version 4 says; that what it says
is what the items and their history held is a comparison of a writer and a reader of one tree, which
does without any state, and files of version 3, whose blocks have hashes in place of MACs, are a second
reader. Both are left to TLC, and so is `ItemsComeBack`, the fields of an item by their names.
The findings are counterexamples, and need no proof.

## 5. Findings

Runs that end in a violation:

* `web_session_reset`: items of personal vaults are encrypted under the key of the
  password itself, and a recovery leaves them under the old one (`i18n.js:838`).
* `clients_delete`: the dialog that deletes a vault stays open while the user goes back
  in the history of the browser, and what is deleted is the vault that is then current
  and not the one whose name was typed (`app.js:1762` against `i18n.js:639`).

Further configurations and properties, each of which TLC refutes. A configuration is kept beside
the runs and started by hand (`tlc -config MC...cfg <module>`); a property without one is to be
named in place of those of the configuration of its run:

* `MCTeamVaultsTwo.cfg` (module MCTeamVaultsTwo, `HoldersBelong`): a tab that moves to
  another team in the middle of adding a member or creating a vault gives keys to people
  outside of the team (`app.js:2401`).
* `MCTeamVaultsLater.cfg` (`KeysSharedLater`): a vault whose creation broke off before
  its first key is never shared (`vault_service.go:90` against `app.js:2417`).
* `UploadKeepsKeyPair` (Accounts): `UploadKeys` overwrites a key pair when its own SELECT
  fails (`user_handler.go:39`, `err == nil && ...`, against the comment in line 36, "never
  overwrite an existing keypair"), and the recovery key of the old pair stays. Such an
  upload comes from a login that was answered before the set-up, or for which the row could not be
  read either (`auth_service.go:208`).
* `MCAccountsRace.cfg` (`KeyPairMatches`): two set-ups at once leave the private key of one with
  the public key of the other, no SELECT failing (`auth_service.go:268`).
* `CallersGetTheAccount` (Accounts): `FindOrCreateByEmail` fails when it
  loses the race it means to handle (`user_repo.go:147` against line 24).
* `LockDeletesKey` (WebSession): a save or a touch of the stored key that
  ends after the deletion puts it back (`app.js:565` against `keystore.js:6`).
* `LockWipesPlaintext` (WebSession): an opened item, and a list whose
  decryption was under way, stay decrypted behind the lock screen (`app.js:535`).
* `NothingToLock` (WebSession): a login that fails after it has taken its key leaves a page with
  a key, no private key to unlock by and no timer (`app.js:419` to `455`); a step back in the history
  shows the vaults, and a lock returns at once, as if there were nothing to lock
  (`app.js:537`). A first set-up that fails does the same (`app.js:1048`).
* `UnlockIsLocal` (WebSession, an action property): an unlock whose reload of the items fails
  is treated as a wrong password, and the page has no key (`app.js:536`).
* `MCWebItemsSwitch.cfg` (`ReadableInVault`): the user opens another vault while an
  import runs, and the rest of the file goes there under the key of the first one
  (`app.js:2959`). It refutes `MoveKeepsItem`, too: the DELETE of a move is of the item that
  is current when the copy exists.
* `MoveKeepsEdits` (WebItems, an action property): the DELETE of a move names no version, and what
  another client has saved since the page read the item is in neither vault (`app.js:1698`).
* `EverySessionIsSaved` (Extension): a login whose private key cannot be decrypted has set the
  token and the key and ends before `saveSession`; the worker has a session until it is
  killed (`background.js:375`).
* `NeverEmpty` (Extension): `refreshAllItems` sets `cachePrimed` before
  its first request and never takes it back: after a failed refresh the popup shows an
  empty vault for as long as the worker lives (`background.js:408` against its comment in
  lines 613-614).
* `MCExtensionBusy.cfg` (`LoggedOutHoldsNothing`): with two messages at a time, what is under
  way at a logout goes on after it: a login sets its key (`background.js:376`), items
  enter the emptied cache (`background.js:421`). The same
  instance refutes `OneEntryPerItem`, for two refreshes at once, and `SessionIsSaved`.
* `MCExtensionTabs.cfg` (`StagedSurvives`): `pendingSaves` is written back as a whole,
  and what another tab has staged meanwhile is gone (`background.js:571`).
* `NothingIsLost` (MCFormats): a custom field called "TOTP Settings" is written
  (`export.js:342`), taken for a setting of the one-time code when it is read, and dropped
  (`kdbx-read.js:915`, `919`).
* `RefusalsAreCoded` (MCFormats): a KDBX 3 file whose header says that it is
  compressed, and is not, ends in an error without a code (`kdbx-read.js:716` against its
  comment in line 20).

Properties of MCClients that do not hold; name one in place of those of `MCClients.cfg`
(the constants are the same where nothing else is said):

| Property | What TLC finds |
|---|---|
| `PaletteMatchesInput` | the palette's collection ends after the user has typed, and shows all rows (`app.js:3136`) |
| `EditsAreFound` | an index that was being built during an edit misses it for a minute (`app.js:3060`) |
| `LockLeavesNoIndex` | a collection that ends after a lock puts the index, decrypted, back (`app.js:3060`) |
| `ClearedIsClear` | an error page of the breach list is read as an empty list: no password is breached (`breach.js:37`) |
| `NothingLoadsForever`, with `Inherited = {"constructor"}` | a password called like an inherited property stops the dashboard (`app.js:3204`) |
| `ExportIsOfOneVault`, with `Owned = {own, led}`, `OfTeam = {read}` | an export that is under way when another vault is opened has the items of one under the name of the other (`app.js:1815`) |
| `TickerIsOfItem` | two openings of an item at once leave an interval nobody stops (`app.js:1613`) |
| `LeavingStopsTicker` | so does the popup, when the detail is left before its first code (`popup.js:595`) |
| `OptionsAreOfServer` | login options are kept for the server of the moment they arrive in (`background.js:294`) |
| `ListIsOfAccount`, with `Accounts = {"a", "b"}` | the list of an account that was logged out is shown to the next one (`popup.js`, `loadItems`) |
| `AbortIsMatched` | an abort that overtakes the lookup of passkeys is dropped, and the request is armed after it (`content.js:601`) |
| `NativeOnOwnServer` | without the first answer of the worker the extension takes the requests of its own server for those of any site (`content.js:731`) |

Properties of MCTokens that do not hold, to be named in place of those of `MCTokens.cfg`:

| Property | What TLC finds |
|---|---|
| `CounterMovesForward` | two logins with one passkey read the row before either stores its counter, and the later UPDATE may store the lower one; the comment says "only move ours forward" (`passkey_handler.go:184`). No login is refused for its counter |
| `NoticeIsTrue` | the page tells a visitor "This link has expired or has already been used" (`i18n.js:903`) after any failure, also of a link that is still open (`app.js:2573`, `2546`) |
| `PublishedKeyIsFound` | a request fetches a key that is published, another one installs an older answer over it, and the first finds "unknown kid" (`client.go:304`) |

## 6. Plan

1. Done: the modules of section 2; theorems for every safety and action property of the passing runs
   but the two of Kdbx, the larger part of one of these, and the four refinements.
2. What remains: that the document of a KeePass file says what its items held (`EntriesOf` the document
   is `Written`), and its files of version 3; the types of
   Extension and of the modules of Clients; the parts of `HoldersBelong` that survive several
   teams.

Not modelled, and why:

* The flow of an SSO login: the state, the nonce and the verifier travel in one signed
  token and the server keeps nothing of them; what it does keep is KeyCache, and the
  account it finds or creates is in Accounts.
* The mobile apps, in Swift and Kotlin. They read only; the requests they make are those
  of DeviceTokens. What they have of their own is a snapshot of the items on the device,
  of which a synchronisation that ends after an unlink saves another one
  (`AppState.swift:136` against the comment in line 107), read but not checked here.
* Audit rows, mail and settings only put out what happened.
* SRP, BLAKE2b's rounds, AES and RSA, the generator and the strength of a password
  compute, without steps to interleave and without a shorter reference than themselves;
  the repository has test vectors for them.
* Attachments, tags, drag and drop and the 1Password archive of the import: one item at
  a time goes through the steps WebItems has.
* Filling forms, URL matching and the DOM of the pages in the extension; translations
  and rendering; packaging and scripts.

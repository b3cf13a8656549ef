------------------------------- MODULE WebViews -------------------------------
(***************************************************************************)
(* What surrounds the items of a vault in the web client (web/app.js): the *)
(* chips of the teams it is shared with, its menu, the dialogs to delete   *)
(* and to export it and the code of an item that changes every second.     *)
(* Each is filled by requests of its own while the user goes on: back in   *)
(* the history of the browser, which no dialog covers, to another vault or *)
(* to a team.  The items themselves are the subject of WebItems.           *)
(*                                                                         *)
(* A vault has one item here.  The teams, the menu with what it offers, the*)
(* export and the code have nothing in common but the vault that is shown, *)
(* so a behaviour follows one of them, and leaves what only the others     *)
(* read as it is; vaults are created in those that follow the teams.       *)
(***************************************************************************)
EXTENDS FiniteSets

CONSTANTS
  Vaults,
  Owned,   \* vaults of the user
  OfTeam,  \* vaults of a team, each of another
  Admin,   \* those whose team the user is an admin of
  Start,   \* the sets of vaults there may be at first
  Jobs,    \* bound: operations under way at a time
  None

VARIABLES
  follows,      \* teams | menu | export | code
  row,          \* per vault at the server: later | there | gone
  vaults,       \* the list of the page
  currentVault,
  loadFailed,   \* the last vault was not loaded, and the page is that of an earlier one
  items,        \* the vault whose items the page has
  chips,        \* the vault whose teams are shown
  fetching,     \* vaults whose teams are asked for
  menu,         \* the button of the menu is shown
  teamRoleCache,\* per vault: unknown | admin | none, the latter after an error, too
  checking,     \* vaults for which the role is asked for
  settings,     \* the vault named in the dialog that deletes it
  exporting,    \* the dialog of the export is shown
  currentItem,  \* the item that is shown, called like its vault
  totpInterval, \* the item whose code is updated,
  leaked,       \* and those whose code is as well, until the page is closed
  job           \* [at, vault, name, items]: operations under way

around == <<chips, fetching, menu, teamRoleCache, checking>>
ticker == <<currentItem, totpInterval, leaked>>
vars == <<follows, row, vaults, currentVault, loadFailed, items, around, settings, exporting, ticker, job>>

There == {v \in Vaults : row[v] = "there"}
Idle == [at |-> "idle", vault |-> None, name |-> None, items |-> None]
Await(j, at, v) == job' = [job EXCEPT ![j] = [Idle EXCEPT !.at = at, !.vault = v]]
End(j) == job' = [job EXCEPT ![j] = Idle]

Init ==
  /\ follows \in {"teams", "menu", "export", "code"}
  /\ row \in {[v \in Vaults |-> IF v \in S THEN "there" ELSE "later"] : S \in Start} /\ vaults = There
  /\ currentVault = None /\ loadFailed = FALSE /\ items = None
  /\ chips = None /\ fetching = {}
  /\ menu = FALSE /\ teamRoleCache = [v \in Vaults |-> "unknown"] /\ checking = {}
  /\ settings = None /\ exporting = FALSE
  /\ currentItem = None /\ totpInterval = None /\ leaked = {}
  /\ job = [j \in Jobs |-> Idle]

stopTOTP == totpInterval' = None /\ UNCHANGED leaked

-----------------------------------------------------------------------------
(* Going to a vault or a team *)

\* From here the operation goes on with vault v.
navigateToVault(j, v, list, current) ==
  CASE v \notin list -> Await(j, "list", v) /\ currentVault' = current /\ UNCHANGED ticker
    [] v \in list /\ v = current -> End(j) /\ currentVault' = current /\ UNCHANGED ticker
    [] OTHER -> /\ Await(j, "items", v) /\ currentVault' = v
                /\ currentItem' = None /\ stopTOTP

\* selectVault, or handleRoute after a step in the history of the browser.
Visit(j, v) ==
  /\ job[j].at = "idle" /\ row[v] # "later" /\ v # currentVault
  /\ navigateToVault(j, v, vaults, currentVault)
  /\ UNCHANGED <<follows, row, vaults, loadFailed, items, around, settings, exporting>>

\* A vault that is not in the list may be new.
TakeList(j) ==
  /\ job[j].at = "list" /\ vaults' = There
  /\ IF job[j].vault \in There THEN navigateToVault(j, job[j].vault, There, currentVault)
     ELSE End(j) /\ UNCHANGED <<currentVault, ticker>>
  /\ UNCHANGED <<follows, row, loadFailed, items, around, settings, exporting>>

\* The role is known, or asked for.
canManageVault(v) == v # None /\ (v \in Owned \/ teamRoleCache[v] = "admin")
Asks(v) == v # None /\ v \notin Owned /\ v \in OfTeam /\ teamRoleCache[v] = "unknown"

\* navigateToVault at its end, with the items of its vault; loadVaultShares and
\* updateVaultMenuButton begin.  Without a current vault items cannot be decrypted.
\* The teams it has known for less than a minute are an answer that comes at once.
TakeItems(j) ==
  LET v == job[j].vault
  IN /\ job[j].at = "items" /\ End(j)
     /\ items' = IF follows \in {"export", "code"} THEN v ELSE items
     /\ \/ /\ loadFailed' = FALSE /\ currentItem' = None /\ stopTOTP
           /\ chips' = None /\ fetching' = fetching \cup {w \in {v} : follows = "teams"}
           /\ menu' = (follows = "menu" /\ canManageVault(currentVault))
           /\ checking' = checking \cup {w \in {currentVault} : follows = "menu" /\ Asks(w)}
        \/ currentVault = None /\ UNCHANGED <<loadFailed, ticker, chips, fetching, menu, checking>>
     /\ UNCHANGED <<follows, row, vaults, currentVault, teamRoleCache, settings, exporting>>

navigateToTeam ==
  /\ currentVault # None /\ currentVault' = None
  /\ chips' = None /\ currentItem' = None /\ stopTOTP
  /\ UNCHANGED <<follows, row, vaults, loadFailed, items, fetching, menu, teamRoleCache,
                 checking, settings, exporting, job>>

\* An answer that fails is an answer without teams.
loadVaultShares(v) ==
  /\ v \in fetching /\ fetching' = fetching \ {v}
  /\ \E answered \in BOOLEAN :
       chips' = IF answered /\ v \in OfTeam /\ v = currentVault THEN v ELSE chips
  /\ UNCHANGED <<follows, row, vaults, currentVault, loadFailed, items, menu, teamRoleCache, checking,
                 settings, exporting, ticker, job>>

Role(v, answered) == IF answered /\ v \in Admin THEN "admin" ELSE "none"

\* Mutant of updateVaultMenuButton: the answer is for the vault that is shown.
updateVaultMenuButtonHere(v) ==
  /\ v \in checking /\ checking' = checking \ {v}
  /\ \E answered \in BOOLEAN :
       /\ teamRoleCache' = [teamRoleCache EXCEPT ![v] = Role(v, answered)]
       /\ menu' = (Role(v, answered) = "admin")
  /\ UNCHANGED <<follows, row, vaults, currentVault, loadFailed, items, chips, fetching,
                 settings, exporting, ticker, job>>

updateVaultMenuButton(v) ==
  /\ v \in checking /\ checking' = checking \ {v}
  /\ \E answered \in BOOLEAN :
       /\ teamRoleCache' = [teamRoleCache EXCEPT ![v] = Role(v, answered)]
       /\ menu' = IF v = currentVault THEN Role(v, answered) = "admin" ELSE menu
  /\ UNCHANGED <<follows, row, vaults, currentVault, loadFailed, items, chips, fetching,
                 settings, exporting, ticker, job>>

-----------------------------------------------------------------------------
(* Creating and deleting vaults *)

createVault(j) ==
  /\ follows = "teams" /\ job[j].at = "idle" /\ Await(j, "post", None)
  /\ UNCHANGED <<follows, row, vaults, currentVault, loadFailed, items, around, settings, exporting, ticker>>

Created(j) ==
  /\ job[j].at = "post"
  /\ \E v \in Owned : row[v] = "later" /\ row' = [row EXCEPT ![v] = "there"] /\ Await(j, "list", v)
  /\ UNCHANGED <<follows, vaults, currentVault, loadFailed, items, around, settings, exporting, ticker>>

openVaultSettings ==
  /\ follows = "menu" /\ currentVault # None /\ menu /\ settings' = currentVault
  /\ UNCHANGED <<follows, row, vaults, currentVault, loadFailed, items, around, exporting, ticker, job>>

closeModal ==
  /\ settings # None \/ exporting
  /\ settings' = None /\ exporting' = FALSE
  /\ UNCHANGED <<follows, row, vaults, currentVault, loadFailed, items, around, ticker, job>>

\* The user has typed the name that the dialog shows.
deleteCurrentVault(j) ==
  /\ settings # None /\ currentVault # None
  /\ job[j].at = "idle" /\ \A k \in Jobs : job[k].at # "delete"
  /\ Await(j, "delete", currentVault)
  /\ UNCHANGED <<follows, row, vaults, currentVault, loadFailed, items, around, settings, exporting, ticker>>

\* The server allows it to who may manage the vault.  Whatever is shown by then,
\* there is no current vault.
Deleted(j) ==
  LET v == job[j].vault
  IN /\ job[j].at = "delete" /\ row[v] = "there" /\ v \in Owned \cup Admin
     /\ row' = [row EXCEPT ![v] = "gone"]
     /\ settings' = None /\ currentItem' = None /\ currentVault' = None
     /\ Await(j, "deleted", None)
     /\ UNCHANGED <<follows, vaults, loadFailed, items, chips, fetching, menu, teamRoleCache, checking,
                    exporting, totpInterval, leaked>>

\* Then the first vault of the list is selected.
SelectFirst(j) ==
  /\ job[j].at = "deleted" /\ vaults' = There
  /\ \/ \E v \in There : navigateToVault(j, v, There, currentVault) /\ UNCHANGED items
     \/ /\ There = {} /\ End(j) /\ items' = None /\ currentItem' = None /\ stopTOTP
        /\ UNCHANGED currentVault
  /\ UNCHANGED <<follows, row, loadFailed, around, settings, exporting>>

\* A request fails, and what was to follow does not.
Fail(j) ==
  /\ job[j].at \in {"list", "items", "post", "delete", "deleted"} /\ End(j)
  /\ loadFailed' = (loadFailed \/ job[j].at \in {"items", "deleted"})
  /\ UNCHANGED <<follows, row, vaults, currentVault, items, around, settings, exporting, ticker>>

-----------------------------------------------------------------------------
(* The export *)

openExportModal ==
  /\ follows = "export" /\ currentVault # None
  /\ settings' = None /\ exporting' = TRUE
  /\ UNCHANGED <<follows, row, vaults, currentVault, loadFailed, items, around, ticker, job>>

\* It takes the key of the vault first,
runExport(j) ==
  /\ exporting /\ currentVault # None
  /\ job[j].at = "idle" /\ \A k \in Jobs : job[k].at \notin {"key", "build"}
  /\ Await(j, "key", currentVault)
  /\ UNCHANGED <<follows, row, vaults, currentVault, loadFailed, items, around, settings, exporting, ticker>>

\* The items of vault v that the key of vault w decrypts, called like v: the
\* user's own key is that of all personal vaults.
Decrypted(v, w) == IF v = w \/ {v, w} \subseteq Vaults \ OfTeam THEN v ELSE None

\* then the name and the items, of which it leaves out what it cannot decrypt,
Collect(j) ==
  /\ job[j].at = "key"
  /\ IF currentVault = None THEN Await(j, "build", None)
     ELSE job' = [job EXCEPT ![j].at = "build", ![j].name = currentVault, ![j].items = Decrypted(items, job[j].vault)]
  /\ UNCHANGED <<follows, row, vaults, currentVault, loadFailed, items, around, settings, exporting, ticker>>

\* and tells the server of which vault the file is, when it is there.
Download(j) ==
  /\ job[j].at = "build" /\ End(j) /\ exporting' = FALSE
  /\ UNCHANGED <<follows, row, vaults, currentVault, loadFailed, items, around, settings, ticker>>

-----------------------------------------------------------------------------
(* The code of an item *)

openItemDirect(j) ==
  /\ follows = "code" /\ currentVault # None /\ items # None
  /\ job[j].at = "idle" /\ Await(j, "decrypt", items) /\ currentItem' = items
  /\ UNCHANGED <<follows, row, vaults, currentVault, loadFailed, items, around, settings, exporting,
                 totpInterval, leaked>>

Opened(j) ==
  /\ job[j].at = "decrypt" /\ Await(j, "code", job[j].vault) /\ stopTOTP
  /\ UNCHANGED <<follows, row, vaults, currentVault, loadFailed, items, around, settings, exporting,
                 currentItem>>

\* The interval is set after the first code has been shown.
updateTOTP(j) ==
  /\ job[j].at = "code" /\ End(j)
  /\ totpInterval' = job[j].vault /\ leaked' = leaked \cup ({totpInterval} \ {None})
  /\ UNCHANGED <<follows, row, vaults, currentVault, loadFailed, items, around, settings, exporting,
                 currentItem>>

-----------------------------------------------------------------------------
Next ==
  \/ \E j \in Jobs :
       \/ \E v \in Vaults : Visit(j, v)
       \/ TakeList(j) \/ TakeItems(j) \/ createVault(j) \/ Created(j) \/ deleteCurrentVault(j)
       \/ Deleted(j) \/ SelectFirst(j) \/ Fail(j) \/ runExport(j) \/ Collect(j) \/ Download(j)
       \/ openItemDirect(j) \/ Opened(j) \/ updateTOTP(j)
  \/ \E v \in Vaults : loadVaultShares(v) \/ updateVaultMenuButton(v)
  \/ navigateToTeam \/ openVaultSettings \/ closeModal \/ openExportModal

Spec == Init /\ [][Next]_vars

-----------------------------------------------------------------------------
(* What must hold *)

\* A vault is loaded, no other is being loaded.
Loaded == currentVault # None /\ ~loadFailed /\ \A j \in Jobs : job[j].at # "items"

\* The teams that are shown are those of the vault that is shown, whichever of
\* the vaults visited on the way here sends its items or its teams last.  So is
\* the menu: who may not manage the vault is not offered to delete it, although
\* the role in its team is asked for while the user goes on.
SurroundingsAreOfVault ==
  Loaded => /\ chips \in {None, currentVault}
            /\ menu => currentVault \in Owned \cup Admin

\* "To delete it, type the vault name": the vault that is deleted is the one
\* whose name the dialog shows and the user has typed.
DeletesTheVaultNamed ==
  [][\A j \in Jobs : deleteCurrentVault(j) => currentVault = settings]_vars

\* A file has the items of the vault it is called after, and that vault is told
\* to the server.
ExportIsOfOneVault ==
  [][\A j \in Jobs : Download(j) /\ job[j].items # None =>
       job[j].items = job[j].name /\ currentVault = job[j].name]_vars

\* The code that is updated is that of the item that is shown.
TickerIsOfItem == ({totpInterval} \cup leaked) \ {None} \subseteq {currentItem}
===============================================================================

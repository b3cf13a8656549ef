-------------------------------- MODULE Clients --------------------------------
(***************************************************************************)
(* The pages of the clients: search, palette and dashboard of the web      *)
(* client (Search), what surrounds its items (Views), the popup of the     *)
(* extension (Pop) and its passkeys (Relay).  Each has state of its own;   *)
(* no step of one is a step of another.                                    *)
(***************************************************************************)
EXTENDS Integers, Sequences

CONSTANTS
  Absent, Jobs,                                  \* Jobs: WebSearch and WebViews
  Listed, Password, Breached, Inherited, Queries, \* WebSearch; Listed: the vaults, in their order
  Vaults, Owned, OfTeam, Admin, AtFirst,         \* WebViews
  Accounts, Servers, Items, Calls,               \* Popup
  Req, Challenges                                \* PasskeyRelay

VARIABLES
  uses, locked, globalIndex, gsToken, input, results, palette, dash, work,        \* WebSearch
  follows, row, vaults, currentVault, loadFailed, items, chips, fetching, menu,
  teamRoleCache, checking, settings, exporting, currentItem, totpInterval, leaked, job, \* WebViews
  about, session, pendingSSO, serverUrl, serverMode, screen, allItems, options,
  detail, starting, totpTimer, lost, call,                                        \* Popup
  ownServer, inPage, relayReady, outbox, toRelay, toPage, handler, passthroughNative,
  conditional, armed, pkDropdown, pkOverlay, signedOut, stored, saved             \* PasskeyRelay

Search == INSTANCE WebSearch WITH Vaults <- Listed, None <- Absent
Views == INSTANCE WebViews WITH Start <- AtFirst, None <- Absent
Pop == INSTANCE Popup WITH None <- Absent
Relay == INSTANCE PasskeyRelay WITH page <- inPage, None <- Absent

-----------------------------------------------------------------------------
(* What Absent stands beside, and is none of, as a model value is not.         *)

SearchConstants == Absent \notin Jobs /\ Absent \notin {"search", "palette", "scan", "breaches"}

Ticker == [item : Items, attached : BOOLEAN]

PopupConstants == Absent \notin Ticker

Credentials == Req \cup {0}
Challenge == Challenges \cup {Absent}
Offer == [id : Req, challenge : Challenge, items : SUBSET Credentials]

\* Passkeys are numbered by the requests that save them, except the one there may
\* be at first.
RelayConstants == Req \subseteq Nat \ {0} /\ Absent \notin Offer

ASSUME ClientsAssumption == SearchConstants /\ PopupConstants /\ RelayConstants

-----------------------------------------------------------------------------
\* The properties the modules state, in their order: those that hold,
ResultsAreOfInput == Search!ResultsAreOfInput
BreachesAreOfReport == Search!BreachesAreOfReport
SurroundingsAreOfVault == Views!SurroundingsAreOfVault
CodeIsOfItem == Pop!CodeIsOfItem
AnswersMatch == Relay!AnswersMatch
DropdownIsArmed == Relay!DropdownIsArmed
EveryRequestIsPut == Relay!EveryRequestIsPut

\* and those that do not.
PaletteMatchesInput == Search!PaletteMatchesInput
EditsAreFound == Search!EditsAreFound
LockLeavesNoIndex == Search!LockLeavesNoIndex
ClearedIsClear == Search!ClearedIsClear
DeletesTheVaultNamed == Views!DeletesTheVaultNamed
ExportIsOfOneVault == Views!ExportIsOfOneVault
TickerIsOfItem == Views!TickerIsOfItem
LeavingStopsTicker == Pop!LeavingStopsTicker
OptionsAreOfServer == Pop!OptionsAreOfServer
ListIsOfAccount == Pop!ListIsOfAccount
AbortIsMatched == Relay!AbortIsMatched
NativeOnOwnServer == Relay!NativeOnOwnServer
=============================================================================

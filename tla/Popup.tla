--------------------------------- MODULE Popup ---------------------------------
(***************************************************************************)
(* The popup of the extension (extension/popup.js): its screens, what it   *)
(* shows on them and the messages it sends to the background for it, which *)
(* handles them one beside the other and answers in any order.  What the   *)
(* background does with the session is the subject of Extension; here it   *)
(* has one, or one that still has to be unlocked, or none.                 *)
(*                                                                         *)
(* The way in and the code of an item that changes every second have the   *)
(* screens in common and nothing else: a behaviour follows one of them.    *)
(***************************************************************************)
EXTENDS FiniteSets

CONSTANTS
  Accounts, Servers,
  Items,   \* of an account, with a TOTP secret
  Calls,   \* bound: messages under way at a time
  None

VARIABLES
  about,    \* login | code
  session, pendingSSO, \* background: the account, or None
  serverUrl,  \* background
  serverMode, \* background: [url, of]: login options, kept for url, of server of; or None
  screen,     \* login | unlock | main | detail | generator
  allItems,   \* the account whose items are listed on the main screen, or None
  options,    \* the server whose login options are on the login screen, or None
  detail,     \* [item, code]: what the detail has, and the code that is read there
  starting,   \* tickers that compute their first code
  totpTimer,  \* the ticker that stopTotp stops, or None
  lost,     \* tickers it does not
  call        \* messages under way: [is, at, arg]

codes == <<detail, starting, totpTimer, lost>>
background == <<session, pendingSSO, serverUrl, serverMode>>
vars == <<about, background, screen, allItems, options, codes, call>>

Idle == [is |-> "none", at |-> "popup", arg |-> None]
sendMessage(c, is, arg) == call' = [call EXCEPT ![c] = [is |-> is, at |-> "background", arg |-> arg]]
End(c) == call' = [call EXCEPT ![c] = Idle]
Answer(c, arg) == call' = [call EXCEPT ![c].at = "answered", ![c].arg = arg]
Handles(c, is) == call[c].is = is /\ call[c].at = "background"
Answered(c, is) == call[c].is = is /\ call[c].at = "answered"

\* The popup is opened, or, to follow the codes, it shows its list.
Init ==
  /\ about \in {"login", "code"}
  /\ session \in Accounts \cup {None} /\ pendingSSO \in Accounts \cup {None}
  /\ about = "code" => session # None /\ pendingSSO = None
  /\ serverUrl \in Servers /\ serverMode = None
  /\ screen = (IF about = "code" THEN "main" ELSE "login")
  /\ allItems = (IF about = "code" THEN session ELSE None)
  /\ options = None
  /\ detail = [item |-> None, code |-> None] /\ starting = {} /\ totpTimer = None /\ lost = {}
  /\ call \in [Calls -> {Idle, [is |-> "getStatus", at |-> "background", arg |-> None]}]
  /\ Cardinality({c \in Calls : call[c] # Idle}) = (IF about = "login" THEN 1 ELSE 0)

-----------------------------------------------------------------------------
(* background.js *)

getStatus(c) ==
  /\ Handles(c, "getStatus")
  /\ Answer(c, CASE session # None -> "loggedIn"
                 [] session = None /\ pendingSSO # None -> "pending"
                 [] OTHER -> "out")
  /\ UNCHANGED <<about, background, screen, allItems, options, codes>>

\* From the cache, unless it is old or the answer is forced; or it asks.
getMode(c) ==
  /\ Handles(c, "getMode")
  /\ \/ /\ call[c].arg # "force" /\ serverMode # None /\ serverMode.url = serverUrl
        /\ Answer(c, serverMode.of)
     \/ call' = [call EXCEPT ![c].at = "fetch", ![c].arg = serverUrl]
  /\ UNCHANGED <<about, background, screen, allItems, options, codes>>

\* The answer is kept for the server of now, whichever was asked; without one,
\* what is kept.
fetchServerMode(c) ==
  /\ call[c].at = "fetch"
  /\ \/ serverMode' = [url |-> serverUrl, of |-> call[c].arg] /\ Answer(c, call[c].arg)
     \/ Answer(c, IF serverMode = None THEN None ELSE serverMode.of) /\ UNCHANGED serverMode
  /\ UNCHANGED <<about, session, pendingSSO, serverUrl, screen, allItems, options, codes>>

\* Before a login the popup names the server of its field again.
setServerUrl(c) ==
  /\ \/ Handles(c, "setServerUrl") /\ serverUrl' = call[c].arg
     \/ Handles(c, "sameServer") /\ UNCHANGED serverUrl
  /\ serverMode' = None /\ Answer(c, call[c].arg)
  /\ UNCHANGED <<about, session, pendingSSO, screen, allItems, options, codes>>

\* login and ssoUnlock take a session, ssoStart one to be unlocked; or they fail.
Enter(c) ==
  /\ \/ /\ Handles(c, "login") /\ session' = call[c].arg /\ UNCHANGED pendingSSO
     \/ /\ Handles(c, "ssoStart") /\ pendingSSO' = call[c].arg /\ UNCHANGED session
     \/ /\ Handles(c, "ssoUnlock") /\ pendingSSO # None
        /\ session' = pendingSSO /\ pendingSSO' = None
  /\ Answer(c, "ok")
  /\ UNCHANGED <<about, serverUrl, serverMode, screen, allItems, options, codes>>

Refuse(c) ==
  /\ call[c].is \in {"login", "ssoStart", "ssoUnlock"} /\ call[c].at = "background"
  /\ Answer(c, "error")
  /\ UNCHANGED <<about, background, screen, allItems, options, codes>>

logout(c) ==
  /\ Handles(c, "logout") /\ session' = None /\ pendingSSO' = None /\ Answer(c, call[c].arg)
  /\ UNCHANGED <<about, serverUrl, serverMode, screen, allItems, options, codes>>

getAllItems(c) ==
  /\ Handles(c, "getAllItems") \/ Handles(c, "firstItems")
  /\ Answer(c, session)
  /\ UNCHANGED <<about, background, screen, allItems, options, codes>>

-----------------------------------------------------------------------------
(* popup.js: the way in *)

stopTotp == totpTimer' = None

showScreen(id) == screen' = id /\ stopTotp /\ UNCHANGED <<detail, starting, lost>>
Stay == UNCHANGED <<screen, codes>>

init(c) ==
  /\ Answered(c, "getStatus")
  /\ CASE call[c].arg = "loggedIn" -> showScreen("main") /\ sendMessage(c, "firstItems", None)
       [] call[c].arg = "pending" -> showScreen("unlock") /\ sendMessage(c, "getMode", None)
       [] OTHER -> showScreen("login") /\ sendMessage(c, "getMode", None)
  /\ UNCHANGED <<about, background, allItems, options>>

refreshMode(c) ==
  /\ Answered(c, "getMode") /\ options' = call[c].arg /\ End(c) /\ Stay
  /\ UNCHANGED <<about, background, allItems>>

\* What a screen has buttons for.
Press(c) ==
  /\ about = "login" /\ call[c] = Idle
  /\ \/ \E s \in Servers : screen = "login" /\ sendMessage(c, "setServerUrl", s)
     \/ \E a \in Accounts : screen = "login" /\ sendMessage(c, "sameServer", a)
     \/ \E a \in Accounts : screen = "login" /\ options # None /\ sendMessage(c, "ssoStart", a)
     \/ screen = "unlock" /\ sendMessage(c, "ssoUnlock", None)
     \/ screen = "unlock" /\ sendMessage(c, "logout", "back")
     \/ screen = "main" /\ sendMessage(c, "logout", None)
     \/ screen = "main" /\ sendMessage(c, "getAllItems", None)
  /\ UNCHANGED <<about, background, allItems, options>> /\ Stay

ServerIsSet(c) ==
  /\ Answered(c, "setServerUrl") /\ sendMessage(c, "getMode", "force") /\ Stay
  /\ UNCHANGED <<about, background, allItems, options>>

doLogin(c) ==
  /\ Answered(c, "sameServer") /\ sendMessage(c, "login", call[c].arg) /\ Stay
  /\ UNCHANGED <<about, background, allItems, options>>

ssoLogin(c) ==
  /\ Answered(c, "ssoStart") /\ End(c)
  /\ IF call[c].arg = "ok" THEN showScreen("unlock") ELSE Stay
  /\ UNCHANGED <<about, background, allItems, options>>

\* doLogin at its end, and doUnlock.
LoggedIn(c) ==
  /\ Answered(c, "login") \/ Answered(c, "ssoUnlock")
  /\ IF call[c].arg = "ok" THEN showScreen("main") /\ sendMessage(c, "getAllItems", None)
     ELSE Stay /\ End(c)
  /\ UNCHANGED <<about, background, allItems, options>>

LoggedOut(c) ==
  /\ Answered(c, "logout") /\ showScreen("login")
  /\ IF call[c].arg = "back" THEN sendMessage(c, "getMode", None) ELSE End(c)
  /\ UNCHANGED <<about, background, allItems, options>>

\* The list is rendered anew with the answer, wherever it is; when the popup is
\* opened it then asks for the options, too.
loadItems(c) ==
  /\ \/ Answered(c, "getAllItems") /\ End(c)
     \/ Answered(c, "firstItems") /\ sendMessage(c, "getMode", None)
  /\ allItems' = call[c].arg /\ Stay
  /\ UNCHANGED <<about, background, options>>

-----------------------------------------------------------------------------
(* popup.js: the code of an item *)

Detached(tickers) == {[t EXCEPT !.attached = FALSE] : t \in tickers}

\* The detail is built anew, with a place for the code: the tickers of before
\* keep the place they had.
showItemDetail(item) ==
  /\ about = "code" /\ screen = "main" /\ screen' = "detail"
  /\ detail' = [item |-> item, code |-> None]
  /\ starting' = Detached(starting) \cup {[item |-> item, attached |-> TRUE]}
  /\ totpTimer' = None /\ lost' = Detached(lost)
  /\ UNCHANGED <<about, background, allItems, options, call>>

\* Mutant of Tick: it looks its place up when it has the code.
TickById(t) == detail' = [detail EXCEPT !.code = t.item]

Tick(t) == detail' = IF t.attached THEN [detail EXCEPT !.code = t.item] ELSE detail

\* The interval is set after the first code.
startTotp(t) ==
  /\ t \in starting /\ starting' = starting \ {t} /\ Tick(t)
  /\ totpTimer' = t /\ lost' = lost \cup ({totpTimer} \ {None})
  /\ UNCHANGED <<about, background, screen, allItems, options, call>>

EverySecond(t) ==
  /\ t \in lost \cup ({totpTimer} \ {None}) /\ Tick(t)
  /\ UNCHANGED <<about, background, screen, allItems, options, starting, totpTimer, lost, call>>

Show(id) ==
  /\ about = "code" /\ id \in {"main", "generator"} /\ screen # id
  /\ screen = "detail" => id = "main"
  /\ showScreen(id)
  /\ UNCHANGED <<about, background, allItems, options, call>>

-----------------------------------------------------------------------------
Next ==
  \/ \E c \in Calls :
       \/ getStatus(c) \/ getMode(c) \/ fetchServerMode(c) \/ setServerUrl(c) \/ Enter(c)
       \/ Refuse(c) \/ logout(c) \/ getAllItems(c)
       \/ init(c) \/ refreshMode(c) \/ Press(c) \/ ServerIsSet(c) \/ doLogin(c) \/ ssoLogin(c)
       \/ LoggedIn(c) \/ LoggedOut(c) \/ loadItems(c)
  \/ \E item \in Items : showItemDetail(item)
  \/ \E t \in [item : Items, attached : BOOLEAN] : startTotp(t) \/ EverySecond(t)
  \/ \E id \in {"main", "generator"} : Show(id)

Spec == Init /\ [][Next]_vars

-----------------------------------------------------------------------------
(* What must hold *)

\* The code that is read in the detail is that of the item it shows, although a
\* ticker whose first code comes after the way back is never stopped.
CodeIsOfItem == detail.code \in {None, detail.item}

\* "leaving any screen stops the TOTP ticker"
LeavingStopsTicker == screen # "detail" => totpTimer = None /\ lost = {}

\* The login options are those of the server one would log in at, when nothing
\* is under way.
OptionsAreOfServer ==
  screen = "login" /\ (\A c \in Calls : call[c] = Idle) => options \in {None, serverUrl}

\* The list that is shown is of the account that is logged in.
ListIsOfAccount == screen = "main" /\ session # None => allItems \in {None, session}
================================================================================

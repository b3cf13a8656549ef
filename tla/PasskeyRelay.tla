---------------------------- MODULE PasskeyRelay ----------------------------
(***************************************************************************)
(* Passkeys of the extension in one page: src/extension/page.js stands in  *)
(* for navigator.credentials, content.js asks the user and                 *)
(* background.js, which has the vault, makes and uses the keys.  Page and  *)
(* relay talk by posted messages, which keep their order; the relay and    *)
(* the background by calls that are answered in any order, or never, when  *)
(* the worker is restarted.  The site may abort a request at any time.     *)
(***************************************************************************)
EXTENDS Integers, Sequences, FiniteSets

CONSTANTS
  Req,         \* requests, 1..n in the order they are made
  Challenges,  \* challenges the site sends, 1..m in the order it does; it may
               \* send one twice
  None

VARIABLES
  ownServer,    \* the page is the server the extension is signed in to
  page,         \* per request: [st, kind, challenge, exclude, result]
  relayReady,   \* page.js: the relay has said it is there
  outbox,       \* page.js: messages that wait for it
  toRelay,      \* messages to content.js
  toPage,       \* messages to page.js
  handler,      \* content.js: what the handler of a request waits for, the
                \* passkey picked
  passthroughNative, \* content.js: leave it all to the browser; None at first
  conditional,  \* content.js: the request offered in a field
  armed,        \* content.js: it listens for a field to get the focus
  pkDropdown,   \* content.js: the list shown under a field
  pkOverlay,    \* content.js: the dialog shown
  signedOut,    \* background.js: nobody is signed in
  stored,       \* passkeys of this site in the vault
  saved         \* every passkey that was ever there

vars == <<ownServer, page, relayReady, outbox, toRelay, toPage, handler, passthroughNative, conditional,
          armed, pkDropdown, pkOverlay, signedOut, stored, saved>>
channels == <<relayReady, outbox, toRelay, toPage>>
ui == <<conditional, armed, pkDropdown, pkOverlay>>
vault == <<ownServer, signedOut, stored, saved>>

Kinds == {"create", "get", "getConditional"}

Init ==
  /\ ownServer \in BOOLEAN
  /\ page = [r \in Req |-> [st |-> "new", kind |-> None, challenge |-> None,
                            exclude |-> {}, result |-> None]]
  /\ relayReady = FALSE /\ outbox = <<>> /\ toRelay = <<>> /\ toPage = <<>>
  /\ handler = [r \in Req |-> [at |-> "none", pick |-> None]] /\ passthroughNative = None
  /\ conditional = None /\ armed = FALSE /\ pkDropdown = None /\ pkOverlay = None
  /\ signedOut \in BOOLEAN /\ stored \in {{}, {0}} /\ saved = stored

-----------------------------------------------------------------------------
(* page.js *)

post(msg) ==
  IF relayReady THEN toRelay' = Append(toRelay, msg) /\ UNCHANGED outbox
  ELSE outbox' = Append(outbox, msg) /\ UNCHANGED toRelay

Message(kind, r) == [kind |-> kind, id |-> r, challenge |-> page'[r].challenge]

\* Passkeys the site knows: those it was given.
Known == {page[r].result.credential : r \in {q \in Req : page[q].st = "credential"}}

ask(r, kind, challenge) ==
  /\ page[r].st = "new" /\ \A q \in Req : q < r => page[q].st # "new"
  /\ challenge <= r
  /\ \E exclude \in {{}, Known} :
       page' = [page EXCEPT ![r] = [st |-> "waiting", kind |-> kind, challenge |-> challenge,
                                    exclude |-> exclude, result |-> None]]
  /\ post(Message(kind, r))
  /\ UNCHANGED <<relayReady, toPage, handler, passthroughNative, ui, vault>>

\* The promise is rejected at once; the answer may still come.
raceAbort(r) ==
  /\ page[r].st = "waiting"
  /\ page' = [page EXCEPT ![r].st = "aborted"]
  /\ IF page[r].kind = "getConditional" THEN post(Message("abortConditional", r))
     ELSE UNCHANGED <<outbox, toRelay>>
  /\ UNCHANGED <<relayReady, toPage, handler, passthroughNative, ui, vault>>

Settled(r, result) ==
  [page EXCEPT ![r].result = result,
                    ![r].st = CASE result.is = "fallbackNative" -> "native"
                                [] result.is = "ok" -> "credential"
                                [] OTHER -> "error"]

\* Mutant of Settle: answers are taken for those of the requests in their order.
SettleFirst(r, result) ==
  LET open == {q \in Req : page[q].st = "waiting"}
  IN IF open = {} THEN page
     ELSE Settled(CHOOSE q \in open : \A p \in open : q <= p, result)

Settle(r, result) == IF page[r].st = "waiting" THEN Settled(r, result) ELSE page

Receive ==
  /\ toPage # <<>> /\ toPage' = Tail(toPage)
  /\ LET m == Head(toPage)
     IN IF m.is = "ready"
        THEN relayReady' = TRUE /\ toRelay' = toRelay \o outbox /\ outbox' = <<>> /\ UNCHANGED page
        ELSE page' = Settle(m.id, m) /\ UNCHANGED <<relayReady, outbox, toRelay>>
  /\ UNCHANGED <<handler, passthroughNative, ui, vault>>

-----------------------------------------------------------------------------
(* content.js *)

Answer(r, is) == [is |-> is, id |-> r]

respondToPage(m) == toPage' = Append(toPage, m)

\* An answer that does not come is undefined: no server, no passthrough.
init(answered) ==
  /\ passthroughNative = None
  /\ passthroughNative' = (answered /\ ownServer)
  /\ respondToPage(Answer(0, "ready"))
  /\ UNCHANGED <<page, relayReady, outbox, toRelay, handler, ui, vault>>

\* Mutant of disarmConditional: the list stays.
disarmOnly == armed' = FALSE /\ UNCHANGED pkDropdown

disarmConditional == armed' = FALSE /\ pkDropdown' = None

abortConditional(challenge) ==
  IF conditional # None /\ conditional.challenge = challenge
  THEN disarmConditional /\ conditional' = None /\ UNCHANGED pkOverlay
  ELSE UNCHANGED ui

handlePasskeyReq ==
  /\ toRelay # <<>> /\ toRelay' = Tail(toRelay)
  /\ LET d == Head(toRelay)
     IN CASE d.kind = "abortConditional" ->
               /\ IF passthroughNative THEN UNCHANGED ui ELSE abortConditional(d.challenge)
               /\ UNCHANGED <<handler, toPage>>
          [] d.kind # "abortConditional" /\ passthroughNative ->
               respondToPage(Answer(d.id, "fallbackNative")) /\ UNCHANGED <<handler, ui>>
          [] OTHER ->
               /\ handler' = [handler EXCEPT ![d.id].at = IF d.kind = "create" THEN "getStatus"
                                               ELSE "passkeyCandidates"]
               /\ UNCHANGED <<toPage, ui>>
  /\ UNCHANGED <<page, relayReady, outbox, passthroughNative, vault>>

\* A new dialog takes the place of the one that is shown.
pkModal(r, dialog, items) == pkOverlay' = [id |-> r, dialog |-> dialog, items |-> items]

Finish(r, m) == respondToPage(m) /\ handler' = [handler EXCEPT ![r].at = "done"]

Dialog(r, dialog, items) ==
  /\ pkModal(r, dialog, items) /\ handler' = [handler EXCEPT ![r].at = "dialog"]
  /\ UNCHANGED <<toPage, conditional, armed, pkDropdown>>

\* Mutant of Unanswered: what the handler throws is lost.
UnansweredUncaught(r) ==
  /\ handler[r].at \in {"getStatus", "passkeyCandidates"}
  /\ handler' = [handler EXCEPT ![r].at = "done"]
  /\ UNCHANGED <<page, channels, passthroughNative, ui, vault>>

\* handlePasskeyReq(d).catch: what the answer lacks is an error there.  The
\* handler of a conditional request has taken the list away by then.
Unanswered(r) ==
  /\ handler[r].at \in {"getStatus", "passkeyCandidates"}
  /\ Finish(r, Answer(r, "cancelled"))
  /\ IF page[r].kind = "getConditional"
     THEN disarmConditional /\ UNCHANGED <<conditional, pkOverlay>> ELSE UNCHANGED ui
  /\ UNCHANGED <<page, relayReady, outbox, toRelay, passthroughNative, vault>>

\* In the callback of a dialog an answer that is missing goes to the page.
UnansweredCallback(r) ==
  /\ handler[r].at \in {"passkeyRegister", "registered", "passkeyAssert"}
  /\ Finish(r, Answer(r, "undefined"))
  /\ UNCHANGED <<page, relayReady, outbox, toRelay, passthroughNative, ui, vault>>

Elsewhere == UNCHANGED <<page, relayReady, outbox, toRelay, passthroughNative, vault>>

handleCreate(r) ==
  /\ handler[r].at = "getStatus" /\ Elsewhere
  /\ IF signedOut THEN Dialog(r, "locked", {})
     ELSE handler' = [handler EXCEPT ![r].at = "getVaults"] /\ UNCHANGED <<toPage, ui>>

\* A session that has expired meanwhile has no vaults, nor has a call that fails.
ShowVaults(r) ==
  /\ handler[r].at = "getVaults" /\ Elsewhere
  /\ \/ ~signedOut /\ Dialog(r, "create", {})
     \/ Finish(r, Answer(r, "fallbackNative")) /\ UNCHANGED ui

\* None when the call fails in the background.
Candidates == {{}, IF signedOut THEN {} ELSE stored}

handleGet(r) ==
  /\ handler[r].at = "passkeyCandidates" /\ page[r].kind = "get" /\ Elsewhere
  /\ \/ signedOut /\ Dialog(r, "locked", {})
     \/ Finish(r, Answer(r, "fallbackNative")) /\ UNCHANGED ui
     \/ \E items \in Candidates \ {{}} : Dialog(r, "pick", items)

\* With a field of the kind in focus the list is shown at once.
handleConditional(r) ==
  /\ handler[r].at = "passkeyCandidates" /\ page[r].kind = "getConditional" /\ Elsewhere
  /\ handler' = [handler EXCEPT ![r].at = "armed"]
  /\ \E items \in Candidates :
       /\ conditional' = [id |-> r, challenge |-> page[r].challenge, items |-> items]
       /\ armed' = (items # {})
       /\ pkDropdown' \in {None} \cup ({items} \ {{}})
  /\ UNCHANGED <<toPage, pkOverlay>>

onConditionalFocus ==
  /\ armed /\ conditional # None /\ conditional.items # {}
  /\ pkDropdown' = conditional.items
  /\ UNCHANGED <<toPage, handler, conditional, armed, pkOverlay>> /\ Elsewhere

PickInDropdown(c) ==
  /\ pkDropdown # None /\ c \in pkDropdown
  /\ disarmConditional /\ conditional' = None
  /\ handler' = [handler EXCEPT ![conditional.id] = [at |-> "passkeyAssert", pick |-> c]]
  /\ UNCHANGED <<toPage, pkOverlay>> /\ Elsewhere

Closed == pkOverlay' = None /\ UNCHANGED <<conditional, armed, pkDropdown>>

Refuse(answer) ==
  /\ pkOverlay # None /\ Closed /\ Elsewhere
  /\ answer = "fallbackNative" => pkOverlay.dialog = "locked"
  /\ Finish(pkOverlay.id, Answer(pkOverlay.id, answer))

Confirm ==
  /\ pkOverlay # None /\ pkOverlay.dialog = "create" /\ Closed /\ Elsewhere
  /\ handler' = [handler EXCEPT ![pkOverlay.id].at = "passkeyRegister"] /\ UNCHANGED toPage

Pick(c) ==
  /\ pkOverlay # None /\ c \in pkOverlay.items /\ Closed /\ Elsewhere
  /\ handler' = [handler EXCEPT ![pkOverlay.id] = [at |-> "passkeyAssert", pick |-> c]]
  /\ UNCHANGED toPage

-----------------------------------------------------------------------------
(* background.js *)

\* Of the same account: the stored passkey gives its place to the new one.
passkeyRegister(r) ==
  /\ handler[r].at = "passkeyRegister"
  /\ IF signedOut \/ stored \cap page[r].exclude # {}
     THEN /\ Finish(r, Answer(r, IF signedOut THEN "cancelled" ELSE "excluded"))
          /\ UNCHANGED vault
     ELSE /\ stored' = {r} /\ saved' = saved \cup {r}
          /\ handler' = [handler EXCEPT ![r].at = "registered"]
          /\ UNCHANGED <<ownServer, toPage, signedOut>>
  /\ UNCHANGED <<page, relayReady, outbox, toRelay, passthroughNative, ui>>

Credential(r, c) ==
  [is |-> "ok", id |-> r, challenge |-> page[r].challenge, credential |-> c]

Registered(r) ==
  /\ handler[r].at = "registered" /\ Finish(r, Credential(r, r))
  /\ UNCHANGED ui /\ Elsewhere

passkeyAssert(r) ==
  /\ handler[r].at = "passkeyAssert"
  /\ Finish(r, IF ~signedOut /\ handler[r].pick \in stored THEN Credential(r, handler[r].pick)
               ELSE Answer(r, "error"))
  /\ UNCHANGED ui /\ Elsewhere

\* In the popup.
Lock ==
  /\ signedOut' = ~signedOut
  /\ UNCHANGED <<ownServer, page, channels, handler, passthroughNative, ui, stored, saved>>

-----------------------------------------------------------------------------
Answers(r) ==
  \/ handleCreate(r) \/ ShowVaults(r) \/ handleGet(r) \/ handleConditional(r)
  \/ passkeyRegister(r) \/ Registered(r) \/ passkeyAssert(r)
  \/ Unanswered(r) \/ UnansweredCallback(r)

Next ==
  \/ \E r \in Req, k \in Kinds, c \in Challenges : ask(r, k, c)
  \/ \E r \in Req : raceAbort(r) \/ Answers(r)
  \/ \E answered \in BOOLEAN : init(answered)
  \/ Receive \/ handlePasskeyReq
  \/ onConditionalFocus
  \/ \E c \in saved : PickInDropdown(c) \/ Pick(c)
  \/ \E answer \in {"cancelled", "fallbackNative"} : Refuse(answer)
  \/ Confirm \/ Lock

\* Posted messages are delivered, and a call is answered or known to have
\* failed (bg() resolves either way).  Nothing is assumed of the user.
Fairness ==
  /\ WF_vars(\E answered \in BOOLEAN : init(answered))
  /\ WF_vars(Receive) /\ WF_vars(handlePasskeyReq)
  /\ \A r \in Req : WF_vars(Answers(r))

Spec == Init /\ [][Next]_vars /\ Fairness

-----------------------------------------------------------------------------
(* What must hold *)

\* The site gets what it asked for: a signature over the challenge of that
\* very request, by a passkey that had been saved before it got to know it.
AnswersMatch ==
  \A r \in Req : page[r].st = "credential" =>
    /\ page[r].result.challenge = page[r].challenge
    /\ page[r].result.credential \in saved
    /\ page[r].kind = "create" => page[r].result.credential \notin page[r].exclude

\* The list under a field is that of the request that is armed: whatever
\* was aborted, replaced or failed in the meantime, a pick in it has a
\* request to go to, that has not been answered, and is one it was offered.
DropdownIsArmed ==
  pkDropdown # None =>
    /\ conditional # None /\ pkDropdown = conditional.items
    /\ handler[conditional.id].at = "armed"

\* A dialog that another one has replaced: nothing answers it any more.
Displaced(r) == handler[r].at = "dialog" /\ ~(pkOverlay # None /\ pkOverlay.id = r)
Shown(r) == pkOverlay # None /\ pkOverlay.id = r

\* Whatever calls fail, a request that is not conditional is settled, or the
\* user is asked; and once the user has chosen it is settled.
EveryRequestIsPut ==
  \A r \in Req :
    page[r].st = "waiting" /\ page[r].kind # "getConditional"
      ~> page[r].st # "waiting" \/ Shown(r) \/ Displaced(r)

\* "Keep the id so an RP abort can be matched and dropped": what is armed is
\* not a request that was aborted, once the relay has heard of it.
AbortIsMatched ==
  conditional # None /\ toRelay = <<>> /\ outbox = <<>> => page[conditional.id].st # "aborted"

\* "On Sesamo itself every WebAuthn request goes to the NATIVE browser
\* dialog": no dialog of the extension is shown there.
NativeOnOwnServer == ownServer => pkOverlay = None /\ pkDropdown = None
=============================================================================

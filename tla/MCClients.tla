------------------------------- MODULE MCClients -------------------------------
(* The pages of the clients, in one run: `part` says which of them a behaviour *)
(* is about.                                                                   *)
EXTENDS Clients

CONSTANTS v1, v2, own, led, read

MCListed == <<v1, v2>>
MCPassword == [v \in {v1, v2} |-> IF v = v1 THEN "p" ELSE "constructor"]
MCAdmin == OfTeam \ {read}
MCStart == {{led, read}, {own, led}}

VARIABLE part

search == <<uses, locked, globalIndex, gsToken, input, results, palette, dash, work>>
views == <<follows, row, vaults, currentVault, loadFailed, items, chips, fetching, menu, teamRoleCache,
           checking, settings, exporting, currentItem, totpInterval, leaked, job>>
popup == <<about, session, pendingSSO, serverUrl, serverMode, screen, allItems, options, detail,
           starting, totpTimer, lost, call>>
relay == <<ownServer, inPage, relayReady, outbox, toRelay, toPage, handler, passthroughNative,
           conditional, armed, pkDropdown, pkOverlay, signedOut, stored, saved>>
vars == <<part, search, views, popup, relay>>

Init ==
  /\ part \in {"search", "views", "popup", "relay"}
  /\ Search!Init /\ (part # "search" => uses = "scan")
  /\ Views!Init /\ (part # "views" => follows = "teams" /\ own \in vaults)
  /\ Pop!Init /\ (part # "popup" => about = "code" /\ serverUrl = "s")
  /\ Relay!Init /\ (part # "relay" => ~ownServer /\ ~signedOut /\ stored = {})

Next ==
  /\ UNCHANGED part
  /\ \/ part = "search" /\ Search!Next /\ UNCHANGED <<views, popup, relay>>
     \/ part = "views" /\ Views!Next /\ UNCHANGED <<search, popup, relay>>
     \/ part = "popup" /\ Pop!Next /\ UNCHANGED <<search, views, relay>>
     \/ part = "relay" /\ Relay!Next /\ UNCHANGED <<search, views, popup>>

\* That of WebSearch and of PasskeyRelay.
Fairness ==
  /\ \A j \in Jobs : WF_search(part = "search" /\ Search!Collect(j))
  /\ WF_relay(part = "relay" /\ \E answered \in BOOLEAN : Relay!init(answered))
  /\ WF_relay(part = "relay" /\ Relay!Receive) /\ WF_relay(part = "relay" /\ Relay!handlePasskeyReq)
  /\ \A r \in Req : WF_relay(part = "relay" /\ Relay!Answers(r))

Spec == Init /\ [][Next]_vars /\ Fairness

-----------------------------------------------------------------------------
\* What loads ends in the searches, in the behaviours that are about them.
NothingLoadsForever == part = "search" => Search!NothingLoadsForever
=============================================================================

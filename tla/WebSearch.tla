------------------------------- MODULE WebSearch -------------------------------
(***************************************************************************)
(* What the web client looks for in all vaults at once (web/app.js): the   *)
(* search of the sidebar, with its index, the command palette and the      *)
(* security dashboard.  Each decrypts the items of every vault it can read *)
(* first, one request after the other, while the user types on, opens the  *)
(* next of them, edits items or locks the page.                            *)
(*                                                                         *)
(* Of an index matters whether it misses an edit made on this page, of what*)
(* is typed into the palette whether there is something.  gsToken numbers  *)
(* the searches in the code; all that matters is which of those under way  *)
(* has the latest number, if any.  The three have nothing in common but the *)
(* lock and the way the items are collected: a behaviour is of one of them. *)
(***************************************************************************)
EXTENDS Naturals, Sequences, FiniteSets

CONSTANTS
  Vaults,    \* the vaults, in the order of the sidebar
  Password,  \* Password[v]: of the login in vault v
  Breached,  \* passwords that were breached
  Inherited, \* passwords that are the name of a property every object has
  Jobs,      \* bound: collections under way at a time
  Queries,   \* what is typed; "" stands for fewer than two characters
  None

VARIABLES
  uses,        \* which of the three: search | palette | scan
  locked,
  globalIndex, \* the index of the search, [misses, fresh: for a minute], or None
  gsToken,     \* the search under way with the latest number
  input,       \* the text of the search field
  results,     \* [is: hidden | loading | shown, of: the query]
  palette,     \* [rows: closed | loading | all | typed, typed, index: kept]
  dash,        \* [is: empty | scanning | report, logins, verdict, by]
  work         \* [for, of, todo, has: its key, out, misses]: collections

vars == <<uses, locked, globalIndex, gsToken, input, results, palette, dash, work>>

No(verdict) == [is |-> verdict, found |-> {}, of |-> {}]
AllVaults == {Vaults[i] : i \in DOMAIN Vaults}
Idle == [for |-> None, of |-> "", todo |-> <<>>, has |-> FALSE, out |-> {}, misses |-> FALSE]

Init ==
  /\ uses \in {"search", "palette", "scan"} /\ locked = FALSE
  /\ globalIndex = None /\ gsToken = None
  /\ input = "" /\ results = [is |-> "hidden", of |-> ""]
  /\ palette = [rows |-> "closed", typed |-> FALSE, index |-> FALSE]
  /\ dash = [is |-> "empty", logins |-> {}, verdict |-> No("none"), by |-> None]
  /\ work = [j \in Jobs |-> Idle]

search == <<globalIndex, gsToken, input, results>>

-----------------------------------------------------------------------------
(* collectAllItems *)

collectAllItems(j, for, of) ==
  /\ uses = for /\ work[j].for = None
  /\ work' = [work EXCEPT ![j] = [Idle EXCEPT !.for = for, !.of = of, !.todo = Vaults]]

Collecting(j) == work[j].for = uses /\ work[j].todo # <<>>

\* Mutant of SkipVault: what fails for one vault ends it all.
SkipVaultAndRest(j) ==
  /\ Collecting(j) /\ work' = [work EXCEPT ![j] = Idle]
  /\ UNCHANGED <<uses, locked, search, palette, dash>>

\* A vault without a key, or whose items do not come, is left out.
SkipVault(j) ==
  /\ Collecting(j)
  /\ work' = [work EXCEPT ![j].todo = Tail(@), ![j].has = FALSE]
  /\ UNCHANGED <<uses, locked, search, palette, dash>>

\* Without the key of the user no key of a vault.
TakeKey(j) ==
  /\ Collecting(j) /\ ~work[j].has /\ ~locked
  /\ work' = [work EXCEPT ![j].has = TRUE]
  /\ UNCHANGED <<uses, locked, search, palette, dash>>

\* The items are decrypted with a key it has, whether or not the page has
\* been locked in the meantime.
TakeItems(j) ==
  /\ Collecting(j) /\ work[j].has
  /\ LET v == Head(work[j].todo)
     IN work' = [work EXCEPT ![j].todo = Tail(@), ![j].has = FALSE, ![j].out = @ \cup {v}]
  /\ UNCHANGED <<uses, locked, search, palette, dash>>

Collected(j, for) == work[j].for = for /\ work[j].todo = <<>>
End(j) == work' = [work EXCEPT ![j] = Idle]

-----------------------------------------------------------------------------
(* The search of the sidebar *)

Hidden == [is |-> "hidden", of |-> ""]

\* Mutant of hideGlobalSearch: a search under way keeps the latest number.
hideGlobalSearchOnly(clear) ==
  /\ results' = Hidden /\ input' = IF clear THEN "" ELSE input
  /\ UNCHANGED gsToken

hideGlobalSearch(clear) ==
  /\ gsToken' = None
  /\ results' = Hidden /\ input' = IF clear THEN "" ELSE input

Fresh == globalIndex # None /\ globalIndex.fresh

\* Answered from the index while that is fresh.
runGlobalSearch(query) ==
  \/ /\ Fresh
     /\ results' = [is |-> "shown", of |-> query] /\ gsToken' = None
     /\ UNCHANGED work
  \/ /\ ~Fresh
     /\ results' = [is |-> "loading", of |-> query]
     /\ \E j \in Jobs : collectAllItems(j, "search", query) /\ gsToken' = j

Type(query) ==
  /\ uses = "search" /\ ~locked /\ query # input
  /\ IF query = "" THEN /\ gsToken' = None /\ results' = Hidden /\ UNCHANGED work
     ELSE runGlobalSearch(query)
  /\ input' = query
  /\ UNCHANGED <<uses, locked, globalIndex, palette, dash>>

\* By Escape or by leaving the field, or by a click on a result.
Leave(clear) ==
  /\ results.is # "hidden" /\ (clear => results.is = "shown")
  /\ hideGlobalSearch(clear)
  /\ UNCHANGED <<uses, locked, globalIndex, palette, dash, work>>

FinishSearch(j) ==
  /\ Collected(j, "search") /\ End(j)
  /\ globalIndex' = [misses |-> work[j].misses, fresh |-> TRUE]
  /\ IF gsToken = j THEN results' = [is |-> "shown", of |-> work[j].of] /\ gsToken' = None
     ELSE UNCHANGED <<results, gsToken>>
  /\ UNCHANGED <<uses, locked, input, palette, dash>>

\* After a minute.
Expire ==
  /\ Fresh /\ globalIndex' = [globalIndex EXCEPT !.fresh = FALSE]
  /\ UNCHANGED <<uses, locked, gsToken, input, results, palette, dash, work>>

\* Each operation that changes an item drops the index.
Edit(v) ==
  /\ ~locked
  /\ globalIndex' = None
  /\ work' = [j \in Jobs |->
       IF work[j].for = "search" /\ v \in work[j].out THEN [work[j] EXCEPT !.misses = TRUE] ELSE work[j]]
  /\ UNCHANGED <<uses, locked, gsToken, input, results, palette, dash>>

-----------------------------------------------------------------------------
(* The command palette *)

Open == palette.rows # "closed"
Closed(index) == [rows |-> "closed", typed |-> FALSE, index |-> index]

\* The palette opens empty.
openCmdPalette ==
  /\ ~locked /\ ~Open
  /\ palette' = [palette EXCEPT !.rows = "loading"]
  /\ \E j \in Jobs : collectAllItems(j, "palette", "")
  /\ UNCHANGED <<uses, locked, search, dash>>

closeCmdPalette ==
  /\ Open /\ palette' = Closed(palette.index)
  /\ UNCHANGED <<uses, locked, search, dash, work>>

renderCmdResults(typed) ==
  /\ Open
  /\ palette' = [palette EXCEPT !.typed = typed, !.rows = IF typed THEN "typed" ELSE "all"]
  /\ UNCHANGED <<uses, locked, search, dash, work>>

\* Whatever was typed in the meantime, these are the rows for no text.
FinishPalette(j) ==
  /\ Collected(j, "palette") /\ End(j)
  /\ palette' = [palette EXCEPT !.index = TRUE, !.rows = IF Open THEN "all" ELSE @]
  /\ UNCHANGED <<uses, locked, search, dash>>

-----------------------------------------------------------------------------
(* The security dashboard *)

openWatchtower ==
  /\ ~locked
  /\ dash' = [is |-> "scanning", logins |-> {}, verdict |-> No("none"), by |-> None]
  /\ \E j \in Jobs : collectAllItems(j, "scan", "")
  /\ UNCHANGED <<uses, locked, search, palette>>

Passwords(logins) == {Password[v] : v \in logins}

\* A password that is the name of an inherited property has no list of its
\* own to be put in: the scan ends there.  Otherwise the report is shown and
\* the passwords are looked up, one by one.
renderWatchtower(j) ==
  /\ Collected(j, "scan")
  /\ IF Passwords(work[j].out) \cap Inherited # {} THEN End(j) /\ UNCHANGED dash
     ELSE /\ dash' = [is |-> "report", logins |-> work[j].out, verdict |-> No("checking"), by |-> j]
          /\ work' = [work EXCEPT ![j].for = "breaches"]
  /\ UNCHANGED <<uses, locked, search, palette>>

\* Mutant of Attached: the place in the report that is there now.
AttachedById(j) == dash.is = "report"

\* The check writes to the place in its own report.
Attached(j) == dash.by = j

Verdict(j, verdict) ==
  /\ End(j)
  /\ dash' = IF Attached(j) THEN [dash EXCEPT !.verdict = verdict, !.by = None] ELSE dash

\* One lookup for each password.  An answer that is an error page has no line
\* with its hash, like that of a password nobody knows.
checkWatchtowerBreaches(j) ==
  /\ work[j].for = "breaches"
  /\ \/ \E errorPages \in SUBSET Breached :
          Verdict(j, [is |-> "looked", of |-> work[j].out,
                      found |-> (Passwords(work[j].out) \cap Breached) \ errorPages])
     \/ Verdict(j, No("unavailable"))
  /\ UNCHANGED <<uses, locked, search, palette>>

-----------------------------------------------------------------------------
(* The lock *)

lockVault ==
  /\ ~locked /\ locked' = TRUE /\ UNCHANGED uses
  /\ globalIndex' = None /\ hideGlobalSearch(TRUE)
  /\ palette' = Closed(FALSE)
  /\ UNCHANGED <<dash, work>>

unlockVault ==
  /\ locked /\ locked' = FALSE /\ UNCHANGED uses
  /\ UNCHANGED <<search, palette, dash, work>>

-----------------------------------------------------------------------------
Collect(j) ==
  \/ SkipVault(j) \/ TakeKey(j) \/ TakeItems(j)
  \/ FinishSearch(j) \/ FinishPalette(j)
  \/ renderWatchtower(j) \/ checkWatchtowerBreaches(j)

Next ==
  \/ \E j \in Jobs : Collect(j)
  \/ \E query \in Queries : Type(query)
  \/ \E b \in BOOLEAN : Leave(b) \/ renderCmdResults(b)
  \/ \E v \in AllVaults : Edit(v)
  \/ Expire \/ openCmdPalette \/ closeCmdPalette \/ openWatchtower
  \/ lockVault \/ unlockVault

\* Every request is answered or fails in the end, and WebCrypto ends.
Fairness == \A j \in Jobs : WF_vars(Collect(j))

Spec == Init /\ [][Next]_vars /\ Fairness

-----------------------------------------------------------------------------
(* What must hold *)

\* The results that are shown, and those that are loaded, are of the text in
\* the field: whichever search ends first or last, none brings back the
\* results of an earlier text, and none shows anything once the list was left
\* or the page locked.
ResultsAreOfInput ==
  results.is # "hidden" => ~locked /\ results.of = input

\* The passwords that a report calls breached are those of that very report.
BreachesAreOfReport ==
  dash.verdict.is = "looked" => dash.verdict.of = dash.logins

\* Nothing loads forever, unless the user starts it anew again and again: the
\* search, the palette and the dashboard each show something in the end,
\* whatever requests fail.
NothingLoadsForever ==
  /\ []<>(results.is # "loading") \/ []<><<\E query \in Queries : Type(query)>>_vars
  /\ []<>(palette.rows # "loading") \/ []<><<openCmdPalette>>_vars
  /\ []<>(dash.is # "scanning" /\ dash.verdict.is # "checking") \/ []<><<openWatchtower>>_vars

\* The rows of the palette are those of the text in its field.
PaletteMatchesInput ==
  Open => palette.rows \in {"loading", IF palette.typed THEN "typed" ELSE "all"}

\* What was edited is found: the index is dropped with each edit.
EditsAreFound == globalIndex # None => ~globalIndex.misses

\* "Wipe every in-memory plaintext cache (global search index, palette index,
\* strength memo).  Called on lock and logout."
LockLeavesNoIndex ==
  locked => globalIndex = None /\ ~palette.index

\* A report that finds a password not to be breached has looked it up.
ClearedIsClear ==
  dash.verdict.is = "looked" =>
    Passwords(dash.logins) \cap Breached \subseteq dash.verdict.found
================================================================================

----------------------------- MODULE ClientsProofs -----------------------------
(***************************************************************************)
(* Proofs about the pages of the clients, the searches and dashboard       *)
(* (Search) and what surrounds the items (Views) of the web client, the    *)
(* popup of the extension (Pop) and its passkeys (Relay), and about the    *)
(* KeePass files (K) that its pages write and read.  Every theorem is      *)
(* about the behaviours of one of them.                                    *)
(*                                                                         *)
(* Files, of any length, under any block of keystream: byte n of what is   *)
(* encrypted meets byte n of the keystream wherever a text begins          *)
(* (TextIsCiphered), so that a document with all its values encrypted is   *)
(* read as it was (DocumentIsRead); the MACs, which name their key and     *)
(* place, leave of a damaged file what was written or an error             *)
(* (WrittenIsRead).                                                        *)
(***************************************************************************)
EXTENDS Clients, WebClientProofs

-----------------------------------------------------------------------------
(* The search, the palette and the dashboard of the web client *)

WorkFields == {"for", "of", "todo", "has", "out", "misses"}

SearchTypes ==
  /\ uses \in {"search", "palette", "scan"}
  /\ DOMAIN work = Jobs /\ \A j \in Jobs : DOMAIN work[j] = WorkFields
  /\ DOMAIN results = {"is", "of"} /\ DOMAIN dash = {"is", "logins", "verdict", "by"}
  /\ gsToken \in Jobs \cup {Absent} /\ dash.by \in Jobs \cup {Absent}

\* The search with the latest number is for the text in the field, on a page
\* that is not locked; no other can show its results.
LatestIsOfInput ==
  gsToken # Absent =>
    /\ ~locked
    /\ work[gsToken].for = "search" /\ work[gsToken].of = input

\* The check that may still write to the report looks up what is in it.
CheckIsOfReport ==
  dash.by # Absent => work[dash.by].for = "breaches" /\ work[dash.by].out = dash.logins

SearchInv ==
  SearchTypes /\ LatestIsOfInput /\ CheckIsOfReport /\ ResultsAreOfInput /\ BreachesAreOfReport

\* At first nothing is collected and nothing shown.
LEMMA InitSearch == ASSUME SearchConstants PROVE Search!Init => SearchInv
  <1> SUFFICES ASSUME Search!Init PROVE SearchInv
    OBVIOUS
  <1>1. DOMAIN work = Jobs /\ \A j \in Jobs : DOMAIN work[j] = WorkFields
    BY DEF Search!Init, Search!Idle, WorkFields
  <1>2. DOMAIN results = {"is", "of"} /\ DOMAIN dash = {"is", "logins", "verdict", "by"}
    BY DEF Search!Init
  <1>3. /\ uses \in {"search", "palette", "scan"} /\ gsToken = Absent /\ dash.by = Absent
        /\ results.is = "hidden"
    BY DEF Search!Init
  <1>4. dash.verdict.is = "none"
    BY DEF Search!Init, Search!No
  <1> QED BY <1>1, <1>2, <1>3, <1>4 DEF SearchInv, SearchTypes, LatestIsOfInput, CheckIsOfReport,
       ResultsAreOfInput, BreachesAreOfReport, Search!ResultsAreOfInput, Search!BreachesAreOfReport

\* What collects goes on with what it is for: the steps of a collection.
LEMMA CollectKeeps ==
  ASSUME SearchConstants, SearchInv, NEW j \in Jobs, Search!SkipVault(j) \/ Search!TakeKey(j) \/ Search!TakeItems(j)
  PROVE  /\ UNCHANGED <<uses, locked, gsToken, input, results, dash>>
         /\ work[j].for # "breaches"
         /\ DOMAIN work' = Jobs /\ DOMAIN work'[j] = WorkFields
         /\ work'[j].for = work[j].for /\ work'[j].of = work[j].of
         /\ \A g \in Jobs \ {j} : work'[g] = work[g]
  <1>1. DOMAIN work = Jobs /\ DOMAIN work[j] = WorkFields /\ uses # "breaches"
    BY DEF SearchInv, SearchTypes
  <1>2. CASE Search!SkipVault(j)
    BY <1>1, <1>2 DEF Search!SkipVault, Search!Collecting, Search!search, WorkFields
  <1>3. CASE Search!TakeKey(j)
    BY <1>1, <1>3 DEF Search!TakeKey, Search!Collecting, Search!search, WorkFields
  <1>4. CASE Search!TakeItems(j)
    BY <1>1, <1>4 DEF Search!TakeItems, Search!Collecting, Search!search, WorkFields
  <1> QED BY <1>2, <1>3, <1>4

\* Something new is collected by a job that has nothing to do.
LEMMA BeginsAnew ==
  ASSUME SearchConstants, SearchInv, NEW j \in Jobs, NEW for, NEW of, Search!collectAllItems(j, for, of)
  PROVE  /\ uses = for /\ j # gsToken /\ j # dash.by
         /\ DOMAIN work' = Jobs /\ DOMAIN work'[j] = WorkFields
         /\ work'[j].for = for /\ work'[j].of = of
         /\ \A g \in Jobs \ {j} : work'[g] = work[g]
  BY DEF SearchConstants, SearchInv, SearchTypes, LatestIsOfInput, CheckIsOfReport, WorkFields,
         Search!collectAllItems, Search!Idle

\* A job that ends leaves the others alone.
LEMMA EndsAlone ==
  ASSUME SearchInv, NEW j \in Jobs, Search!End(j)
  PROVE  /\ DOMAIN work' = Jobs /\ DOMAIN work'[j] = WorkFields
         /\ \A g \in Jobs \ {j} : work'[g] = work[g]
  BY DEF SearchInv, SearchTypes, WorkFields, Search!End, Search!Idle

\* Every step keeps the invariant: that is what gsToken, and the place that a
\* check writes to, are for.
LEMMA NextSearch == ASSUME SearchConstants PROVE SearchInv /\ [Search!Next]_(Search!vars) => SearchInv'
  <1> SUFFICES ASSUME SearchInv, [Search!Next]_(Search!vars) PROVE SearchInv'
    OBVIOUS
  <1> USE DEF SearchInv, SearchTypes, LatestIsOfInput, CheckIsOfReport, ResultsAreOfInput,
              BreachesAreOfReport, Search!ResultsAreOfInput, Search!BreachesAreOfReport
  <1>1. ASSUME NEW j \in Jobs, Search!SkipVault(j) \/ Search!TakeKey(j) \/ Search!TakeItems(j) PROVE SearchInv'
    BY <1>1, CollectKeeps
  <1>2. ASSUME NEW j \in Jobs, Search!FinishSearch(j) PROVE SearchInv'
    <2>1. Search!End(j) /\ work[j].for = "search" /\ j # dash.by /\ j # Absent
      BY <1>2 DEF SearchConstants, Search!FinishSearch, Search!Collected
    <2>2. CASE gsToken = j
      BY <1>2, <2>1, <2>2, EndsAlone DEF Search!FinishSearch
    <2>3. CASE gsToken # j
      BY <1>2, <2>1, <2>3, EndsAlone DEF Search!FinishSearch
    <2> QED BY <2>2, <2>3
  <1>3. ASSUME NEW j \in Jobs, Search!FinishPalette(j) PROVE SearchInv'
    <2>1. Search!End(j) /\ j # dash.by /\ j # gsToken
      BY <1>3 DEF SearchConstants, Search!FinishPalette, Search!Collected
    <2>2. UNCHANGED <<uses, locked, gsToken, input, results, dash>>
      BY <1>3 DEF Search!FinishPalette, Search!search
    <2> QED BY <2>1, <2>2, EndsAlone
  <1>4. ASSUME NEW j \in Jobs, Search!renderWatchtower(j) PROVE SearchInv'
    <2>1. j # dash.by /\ j # gsToken /\ j # Absent
      BY <1>4 DEF SearchConstants, Search!renderWatchtower, Search!Collected
    <2>2. UNCHANGED <<uses, locked, gsToken, input, results>>
      BY <1>4 DEF Search!renderWatchtower, Search!search
    <2>3. CASE Search!End(j) /\ UNCHANGED dash
      BY <2>1, <2>2, <2>3, EndsAlone
    <2>4. CASE /\ dash' = [is |-> "report", logins |-> work[j].out, verdict |-> Search!No("checking"),
                           by |-> j]
               /\ work' = [work EXCEPT ![j].for = "breaches"]
      <3>1. /\ DOMAIN work' = Jobs /\ DOMAIN work'[j] = WorkFields
            /\ \A g \in Jobs \ {j} : work'[g] = work[g]
            /\ work'[j].for = "breaches" /\ work'[j].out = work[j].out
        BY <2>4 DEF WorkFields
      <3>2. /\ DOMAIN dash' = {"is", "logins", "verdict", "by"}
            /\ dash'.logins = work[j].out /\ dash'.by = j
        BY <2>4
      <3>3. dash'.verdict.is = "checking"
        BY <2>4 DEF Search!No
      <3> QED BY <2>1, <2>2, <3>1, <3>2, <3>3
    <2> QED BY <1>4, <2>3, <2>4 DEF Search!renderWatchtower
  <1>5. ASSUME NEW j \in Jobs, Search!checkWatchtowerBreaches(j) PROVE SearchInv'
    <2>1. Search!End(j) /\ j # gsToken /\ work[j].for = "breaches"
      BY <1>5 DEF SearchConstants, Search!checkWatchtowerBreaches, Search!Verdict
    <2>2. UNCHANGED <<uses, locked, gsToken, input, results>>
      BY <1>5 DEF Search!checkWatchtowerBreaches, Search!search
    <2>3. CASE dash.by # j
      <3>1. dash' = dash
        BY <1>5, <2>3 DEF Search!checkWatchtowerBreaches, Search!Verdict, Search!Attached
      <3> QED BY <2>1, <2>2, <2>3, <3>1, EndsAlone
    <2>4. CASE dash.by = j
      <3>1. PICK verdict : /\ Search!Verdict(j, verdict)
                           /\ verdict.is = "looked" => verdict.of = work[j].out
        <4>1. CASE Search!Verdict(j, Search!No("unavailable"))
          <5>1. Search!No("unavailable").is # "looked"
            BY DEF Search!No
          <5> QED BY <4>1, <5>1
        <4>2. ASSUME NEW errorPages \in SUBSET Breached,
                     Search!Verdict(j, [is |-> "looked", of |-> work[j].out,
                                   found |-> (Search!Passwords(work[j].out) \cap Breached) \ errorPages])
              PROVE  \E verdict : /\ Search!Verdict(j, verdict)
                                  /\ verdict.is = "looked" => verdict.of = work[j].out
          BY <4>2
        <4> QED BY <1>5, <4>1, <4>2 DEF Search!checkWatchtowerBreaches
      <3>2. /\ DOMAIN dash' = {"is", "logins", "verdict", "by"}
            /\ dash'.logins = dash.logins /\ dash'.by = Absent /\ dash'.verdict = verdict
        <4>1. dash' = [dash EXCEPT !.verdict = verdict, !.by = Absent]
          BY <2>4, <3>1 DEF Search!Verdict, Search!Attached
        <4> QED BY <4>1
      <3>3. dash.logins = work[j].out
        BY <1>5, <2>4 DEF SearchConstants
      <3> QED BY <2>1, <2>2, <3>1, <3>2, <3>3, EndsAlone
    <2> QED BY <2>3, <2>4
  <1>6. ASSUME NEW query \in Queries, Search!Type(query) PROVE SearchInv'
    <2>0. UNCHANGED <<uses, locked, dash>> /\ ~locked /\ input' = query
      BY <1>6 DEF Search!Type
    <2>1. CASE query = ""
      <3>1. UNCHANGED work /\ gsToken' = Absent /\ results' = [is |-> "hidden", of |-> ""]
        BY <1>6, <2>1 DEF Search!Type, Search!Hidden
      <3> QED BY <2>0, <3>1
    <2>2. CASE query # "" /\ Search!runGlobalSearch(query) /\ Search!Fresh
      <3>1. UNCHANGED work /\ gsToken' = Absent /\ results' = [is |-> "shown", of |-> query]
        BY <2>2 DEF Search!runGlobalSearch
      <3>2. results'.of = query /\ DOMAIN results' = {"is", "of"}
        BY <3>1
      <3> QED BY <2>0, <3>1, <3>2
    <2>3. CASE query # "" /\ Search!runGlobalSearch(query) /\ ~Search!Fresh
      <3>1. PICK j \in Jobs : Search!collectAllItems(j, "search", query) /\ gsToken' = j
        BY <2>3 DEF Search!runGlobalSearch
      <3>2. results'.of = query /\ DOMAIN results' = {"is", "of"}
        <4>1. results' = [is |-> "loading", of |-> query]
          BY <2>3 DEF Search!runGlobalSearch
        <4> QED BY <4>1
      <3>3. work'[j].for = "search" /\ work'[j].of = query /\ j # dash.by
        BY <3>1, BeginsAnew
      <3>4. DOMAIN work' = Jobs /\ \A g \in Jobs : DOMAIN work'[g] = WorkFields
        BY <3>1, BeginsAnew
      <3>5. \A g \in Jobs \ {j} : work'[g] = work[g]
        BY <3>1, BeginsAnew
      <3> QED BY <2>0, <3>1, <3>2, <3>3, <3>4, <3>5
    <2> QED BY <1>6, <2>1, <2>2, <2>3 DEF Search!Type
  <1>7. ASSUME NEW b \in BOOLEAN, Search!Leave(b) \/ Search!renderCmdResults(b) PROVE SearchInv'
    <2>1. CASE Search!Leave(b)
      BY <2>1 DEF Search!Leave, Search!hideGlobalSearch, Search!Hidden
    <2>2. CASE Search!renderCmdResults(b)
      BY <2>2 DEF Search!renderCmdResults, Search!search
    <2> QED BY <1>7, <2>1, <2>2
  <1>8. ASSUME NEW v \in Search!AllVaults, Search!Edit(v) PROVE SearchInv'
    <2>1. /\ DOMAIN work' = Jobs
          /\ \A j \in Jobs : /\ DOMAIN work'[j] = WorkFields /\ work'[j].for = work[j].for
                             /\ work'[j].of = work[j].of /\ work'[j].out = work[j].out
      BY <1>8 DEF Search!Edit, WorkFields
    <2> QED BY <1>8, <2>1 DEF Search!Edit
  <1>9. ASSUME Search!openCmdPalette PROVE SearchInv'
    <2>1. PICK j \in Jobs : Search!collectAllItems(j, "palette", "")
      BY <1>9 DEF Search!openCmdPalette
    <2> QED BY <1>9, <2>1, BeginsAnew, ZenonT(60) DEF Search!openCmdPalette, Search!search
  <1>10. ASSUME Search!openWatchtower PROVE SearchInv'
    <2>1. PICK j \in Jobs : Search!collectAllItems(j, "scan", "")
      BY <1>10 DEF Search!openWatchtower
    <2>2. /\ UNCHANGED <<uses, locked, gsToken, input, results>>
          /\ DOMAIN dash' = {"is", "logins", "verdict", "by"} /\ dash'.by = Absent
      BY <1>10 DEF Search!openWatchtower, Search!search
    <2>3. dash'.verdict.is = "none"
      BY <1>10 DEF Search!openWatchtower, Search!No
    <2>4. /\ DOMAIN work' = Jobs /\ DOMAIN work'[j] = WorkFields
          /\ j # gsToken /\ \A g \in Jobs \ {j} : work'[g] = work[g]
      BY <2>1, BeginsAnew
    <2> QED BY <2>2, <2>3, <2>4
  <1>11. ASSUME Search!Expire \/ Search!closeCmdPalette \/ Search!unlockVault PROVE SearchInv'
    BY <1>11 DEF Search!Expire, Search!closeCmdPalette, Search!unlockVault, Search!search
  <1>12. ASSUME Search!lockVault PROVE SearchInv'
    <2>1. /\ UNCHANGED <<uses, dash, work>> /\ gsToken' = Absent
          /\ DOMAIN results' = {"is", "of"} /\ results'.is = "hidden"
      BY <1>12 DEF Search!lockVault, Search!hideGlobalSearch, Search!Hidden
    <2> QED BY <2>1
  <1>13. CASE UNCHANGED Search!vars
    BY <1>13 DEF Search!vars
  <1> QED
    BY <1>1, <1>2, <1>3, <1>4, <1>5, <1>6, <1>7, <1>8, <1>9, <1>10, <1>11, <1>12, <1>13
    DEF Search!Next, Search!Collect

\* Whichever search ends last, the results are those of the text in the field
\* (runGlobalSearch, hideGlobalSearch and gsToken in web/app.js).
THEOREM Results == Search!Spec => []ResultsAreOfInput
  <1>1. Search!Init => SearchInv
    BY ClientsAssumption, InitSearch
  <1>2. SearchInv /\ [Search!Next]_(Search!vars) => SearchInv'
    BY ClientsAssumption, NextSearch
  <1> QED BY <1>1, <1>2, PTL DEF Search!Spec, SearchInv

\* Whichever scan ends last, the breached passwords a report names are among its
\* own (renderWatchtower and checkWatchtowerBreaches in web/app.js).
THEOREM Breaches == Search!Spec => []BreachesAreOfReport
  <1>1. Search!Init => SearchInv
    BY ClientsAssumption, InitSearch
  <1>2. SearchInv /\ [Search!Next]_(Search!vars) => SearchInv'
    BY ClientsAssumption, NextSearch
  <1> QED BY <1>1, <1>2, PTL DEF Search!Spec, SearchInv

-----------------------------------------------------------------------------
(* The code in the popup *)

\* A ticker writes to a place on the screen only if it was started for the item
\* whose detail is shown, whether or not anything can still stop it.
CodeInv ==
  /\ starting \subseteq Ticker /\ lost \subseteq Ticker /\ totpTimer \in Ticker \cup {Absent}
  /\ \A t \in Ticker :
       t \in starting \cup lost \cup {totpTimer} /\ t.attached => t.item = detail.item
  /\ DOMAIN detail = {"item", "code"}
  /\ CodeIsOfItem

\* At first there is no ticker and no code.
LEMMA InitPopup == ASSUME PopupConstants PROVE Pop!Init => CodeInv
  BY DEF PopupConstants, Pop!Init, CodeInv, CodeIsOfItem, Pop!CodeIsOfItem

\* What a ticker writes is the code of its own item, if it writes at all.
LEMMA TickKeeps ==
  ASSUME CodeInv, NEW t \in Ticker, t \in starting \cup lost \cup {totpTimer}, Pop!Tick(t)
  PROVE  /\ DOMAIN detail' = {"item", "code"} /\ detail'.item = detail.item
         /\ detail'.code \in {Absent, detail.item}
  <1>1. CASE t.attached
    BY <1>1 DEF CodeInv, CodeIsOfItem, Pop!CodeIsOfItem, Pop!Tick
  <1>2. CASE ~t.attached
    BY <1>2 DEF CodeInv, CodeIsOfItem, Pop!CodeIsOfItem, Pop!Tick
  <1> QED BY <1>1, <1>2

\* The tickers of before have lost their place in the detail built anew.
LEMMA DetachedTickers ==
  ASSUME NEW T, T \subseteq Ticker
  PROVE  Pop!Detached(T) \subseteq Ticker /\ \A t \in Pop!Detached(T) : ~t.attached
  BY DEF Pop!Detached, Ticker

\* Every step keeps the invariant; those on the way in stop a ticker at most.
LEMMA NextPopup == ASSUME PopupConstants PROVE CodeInv /\ [Pop!Next]_(Pop!vars) => CodeInv'
  <1> SUFFICES ASSUME CodeInv, [Pop!Next]_(Pop!vars) PROVE CodeInv'
    OBVIOUS
  <1>1. ASSUME UNCHANGED <<detail, starting, lost>>, totpTimer' \in {totpTimer, Absent} PROVE CodeInv'
    BY <1>1 DEF PopupConstants, CodeInv, CodeIsOfItem, Pop!CodeIsOfItem
  <1>2. ASSUME NEW c \in Calls,
               \/ Pop!getStatus(c) \/ Pop!getMode(c) \/ Pop!fetchServerMode(c) \/ Pop!setServerUrl(c)
               \/ Pop!Enter(c) \/ Pop!Refuse(c) \/ Pop!logout(c) \/ Pop!getAllItems(c)
        PROVE  CodeInv'
    BY <1>1, <1>2 DEF Pop!getStatus, Pop!getMode, Pop!fetchServerMode, Pop!setServerUrl, Pop!Enter, Pop!Refuse,
                      Pop!logout, Pop!getAllItems, Pop!codes
  <1>3. ASSUME NEW c \in Calls,
               \/ Pop!refreshMode(c) \/ Pop!Press(c) \/ Pop!ServerIsSet(c) \/ Pop!doLogin(c) \/ Pop!loadItems(c)
        PROVE  CodeInv'
    BY <1>1, <1>3 DEF Pop!refreshMode, Pop!Press, Pop!ServerIsSet, Pop!doLogin, Pop!loadItems, Pop!Stay, Pop!codes
  <1>4. ASSUME NEW c \in Calls, Pop!init(c) \/ Pop!ssoLogin(c) \/ Pop!LoggedIn(c) \/ Pop!LoggedOut(c)
        PROVE  CodeInv'
    <2>1. (\E id : Pop!showScreen(id)) \/ Pop!Stay
      BY <1>4 DEF Pop!init, Pop!ssoLogin, Pop!LoggedIn, Pop!LoggedOut
    <2> QED BY <1>1, <2>1 DEF Pop!showScreen, Pop!stopTotp, Pop!Stay, Pop!codes
  <1>5. ASSUME NEW item \in Items, Pop!showItemDetail(item) PROVE CodeInv'
    <2>1. /\ detail' = [item |-> item, code |-> Absent] /\ totpTimer' = Absent
          /\ starting' = Pop!Detached(starting) \cup {[item |-> item, attached |-> TRUE]}
          /\ lost' = Pop!Detached(lost)
      BY <1>5 DEF Pop!showItemDetail
    <2>2. [item |-> item, attached |-> TRUE] \in Ticker
      BY DEF Ticker
    <2>3. starting' \subseteq Ticker /\ lost' \subseteq Ticker
      BY <2>1, <2>2, DetachedTickers DEF CodeInv
    <2>4. ASSUME NEW t \in Ticker, t \in starting' \cup lost' \cup {totpTimer'}, t.attached
          PROVE  t.item = item
      BY <2>1, <2>4, DetachedTickers DEF PopupConstants, CodeInv
    <2> QED BY <2>1, <2>3, <2>4 DEF CodeInv, CodeIsOfItem, Pop!CodeIsOfItem
  <1>6. ASSUME NEW t \in Ticker, Pop!startTotp(t) PROVE CodeInv'
    <2>1. /\ t \in starting /\ starting' = starting \ {t} /\ totpTimer' = t
          /\ lost' = lost \cup ({totpTimer} \ {Absent}) /\ Pop!Tick(t)
      BY <1>6 DEF Pop!startTotp
    <2> QED BY <2>1, TickKeeps DEF CodeInv, CodeIsOfItem, Pop!CodeIsOfItem
  <1>7. ASSUME NEW t \in Ticker, Pop!EverySecond(t) PROVE CodeInv'
    <2>1. /\ t \in starting \cup lost \cup {totpTimer} /\ Pop!Tick(t)
          /\ UNCHANGED <<starting, totpTimer, lost>>
      BY <1>7 DEF Pop!EverySecond
    <2> QED BY <2>1, TickKeeps DEF CodeInv, CodeIsOfItem, Pop!CodeIsOfItem
  <1>8. ASSUME NEW id \in {"main", "generator"}, Pop!Show(id) PROVE CodeInv'
    BY <1>1, <1>8 DEF Pop!Show, Pop!showScreen, Pop!stopTotp
  <1>9. CASE UNCHANGED Pop!vars
    BY <1>1, <1>9 DEF Pop!vars, Pop!codes
  <1> QED BY <1>2, <1>3, <1>4, <1>5, <1>6, <1>7, <1>8, <1>9 DEF Pop!Next, Ticker

\* The code that is read in the popup is that of the item that is shown, although
\* a ticker started late is never stopped (startTotp, showScreen in popup.js).
THEOREM Codes == Pop!Spec => []CodeIsOfItem
  <1>1. Pop!Init => CodeInv
    BY ClientsAssumption, InitPopup
  <1>2. CodeInv /\ [Pop!Next]_(Pop!vars) => CodeInv'
    BY ClientsAssumption, NextPopup
  <1> QED BY <1>1, <1>2, PTL DEF Pop!Spec, CodeInv

-----------------------------------------------------------------------------
(* What surrounds the items of the web client *)

JobFields == {"at", "vault", "name", "items"}

\* A role that is known is one there is.
RolesAreTrue ==
  /\ DOMAIN teamRoleCache = Vaults
  /\ \A v \in Vaults : teamRoleCache[v] = "admin" => v \in Admin

ViewTypes ==
  /\ DOMAIN job = Jobs /\ \A j \in Jobs : DOMAIN job[j] = JobFields
  /\ vaults \subseteq Vaults /\ currentVault \in Vaults \cup {Absent}

ViewInv == ViewTypes /\ RolesAreTrue /\ SurroundingsAreOfVault

\* At first no vault is shown.
LEMMA InitViews == Views!Init => ViewInv
  <1> SUFFICES ASSUME Views!Init PROVE ViewInv
    OBVIOUS
  <1>1. ViewTypes
    BY DEF Views!Init, Views!There, Views!Idle, ViewTypes, JobFields
  <1>2. RolesAreTrue
    BY DEF Views!Init, RolesAreTrue
  <1>3. currentVault = Absent
    BY DEF Views!Init
  <1> QED BY <1>1, <1>2, <1>3 DEF ViewInv, SurroundingsAreOfVault, Views!SurroundingsAreOfVault, Views!Loaded

\* A job that goes on or ends leaves the others alone.
LEMMA AwaitOrEnd ==
  ASSUME ViewTypes, NEW j \in Jobs, NEW pt, NEW v, Views!Await(j, pt, v) \/ (Views!End(j) /\ pt = "idle")
  PROVE  /\ DOMAIN job' = Jobs /\ DOMAIN job'[j] = JobFields /\ job'[j].at = pt
         /\ \A k \in Jobs \ {j} : job'[k] = job[k]
  <1>1. CASE Views!Await(j, pt, v)
    <2>1. PICK r : r = [Views!Idle EXCEPT !.at = pt, !.vault = v]
      OBVIOUS
    <2>2. DOMAIN r = JobFields /\ r.at = pt
      BY <2>1 DEF Views!Idle, JobFields
    <2>3. job' = [job EXCEPT ![j] = r]
      BY <1>1, <2>1 DEF Views!Await
    <2> QED BY <2>2, <2>3 DEF ViewTypes
  <1>2. CASE Views!End(j) /\ pt = "idle"
    <2>1. DOMAIN Views!Idle = JobFields /\ Views!Idle.at = "idle"
      BY DEF Views!Idle, JobFields
    <2> QED BY <1>2, <2>1 DEF ViewTypes, Views!End
  <1> QED BY <1>1, <1>2

\* What is shown beside a vault stays right as long as the vault does, unless its
\* items begin to be loaded or fail to be.
LEMMA SameVault ==
  ASSUME ViewInv, UNCHANGED <<currentVault, chips, menu, teamRoleCache>>, vaults' \subseteq Vaults,
         ~loadFailed' => ~loadFailed,
         DOMAIN job' = Jobs, \A j \in Jobs : DOMAIN job'[j] = JobFields,
         \A j \in Jobs : job[j].at = "items" => job'[j].at = "items" \/ loadFailed'
  PROVE  ViewInv'
  BY DEF ViewInv, ViewTypes, RolesAreTrue, SurroundingsAreOfVault, Views!SurroundingsAreOfVault, Views!Loaded

\* Going to a vault: the items of another than that which is shown are loaded.
LEMMA Navigate ==
  ASSUME ViewInv, NEW j \in Jobs, NEW v, NEW list \in SUBSET Vaults,
         Views!navigateToVault(j, v, list, currentVault), job[j].at # "items",
         UNCHANGED <<chips, menu, teamRoleCache, loadFailed>>, vaults' \subseteq Vaults
  PROVE  ViewInv'
  <1>1. CASE v \notin list
    <2>1. Views!Await(j, "list", v) /\ UNCHANGED currentVault
      BY <1>1 DEF Views!navigateToVault
    <2>2. /\ DOMAIN job' = Jobs /\ DOMAIN job'[j] = JobFields
          /\ \A k \in Jobs \ {j} : job'[k] = job[k]
      BY <2>1, AwaitOrEnd DEF ViewInv
    <2> QED BY <2>1, <2>2, SameVault DEF ViewInv, ViewTypes
  <1>2. CASE v \in list /\ v = currentVault
    <2>1. Views!End(j) /\ UNCHANGED currentVault
      BY <1>2 DEF Views!navigateToVault
    <2>2. /\ DOMAIN job' = Jobs /\ DOMAIN job'[j] = JobFields
          /\ \A k \in Jobs \ {j} : job'[k] = job[k]
      BY <2>1, AwaitOrEnd DEF ViewInv
    <2> QED BY <2>1, <2>2, SameVault DEF ViewInv, ViewTypes
  <1>3. CASE v \in list /\ v # currentVault
    <2>1. Views!Await(j, "items", v) /\ currentVault' = v
      BY <1>3 DEF Views!navigateToVault
    <2>2. /\ DOMAIN job' = Jobs /\ DOMAIN job'[j] = JobFields /\ job'[j].at = "items"
          /\ \A k \in Jobs \ {j} : job'[k] = job[k]
      BY <2>1, AwaitOrEnd DEF ViewInv
    <2> QED BY <1>3, <2>1, <2>2 DEF ViewInv, ViewTypes, RolesAreTrue, SurroundingsAreOfVault,
                                    Views!SurroundingsAreOfVault, Views!Loaded
  <1> QED BY <1>1, <1>2, <1>3

\* The vaults of the server are vaults.
LEMMA ThereAreVaults == Views!There \subseteq Vaults
  BY DEF Views!There

\* Every step keeps what surrounds the items true.
LEMMA NextViews == ViewInv /\ [Views!Next]_(Views!vars) => ViewInv'
  <1> SUFFICES ASSUME ViewInv, [Views!Next]_(Views!vars) PROVE ViewInv'
    OBVIOUS
  <1> USE DEF Views!around, Views!ticker
  <1>0. /\ vaults \subseteq Vaults /\ Views!There \subseteq Vaults /\ DOMAIN job = Jobs
        /\ \A j \in Jobs : DOMAIN job[j] = JobFields
    BY ThereAreVaults DEF ViewInv, ViewTypes
  <1>1. ASSUME NEW j \in Jobs, NEW v \in Vaults, Views!Visit(j, v) PROVE ViewInv'
    <2>1. /\ Views!navigateToVault(j, v, vaults, currentVault) /\ job[j].at # "items"
          /\ UNCHANGED <<chips, menu, teamRoleCache, loadFailed, vaults>>
      BY <1>1 DEF Views!Visit
    <2> QED BY <1>0, <2>1, Navigate
  <1>2. ASSUME NEW j \in Jobs, Views!TakeList(j) PROVE ViewInv'
    <2>1. /\ UNCHANGED <<chips, menu, teamRoleCache, loadFailed>> /\ vaults' = Views!There
          /\ job[j].at # "items"
      BY <1>2 DEF Views!TakeList
    <2>2. CASE Views!navigateToVault(j, job[j].vault, Views!There, currentVault)
      BY <1>0, <2>1, <2>2, Navigate
    <2>3. CASE Views!End(j) /\ UNCHANGED currentVault
      <3>1. /\ DOMAIN job' = Jobs /\ DOMAIN job'[j] = JobFields
            /\ \A k \in Jobs \ {j} : job'[k] = job[k]
        BY <2>3, AwaitOrEnd DEF ViewInv
      <3> QED BY <1>0, <2>1, <2>3, <3>1, SameVault
    <2> QED BY <1>2, <2>2, <2>3 DEF Views!TakeList
  <1>3. ASSUME NEW j \in Jobs, Views!TakeItems(j) PROVE ViewInv'
    <2>1. /\ DOMAIN job' = Jobs /\ DOMAIN job'[j] = JobFields
          /\ \A k \in Jobs \ {j} : job'[k] = job[k]
      BY <1>3, AwaitOrEnd DEF ViewInv, Views!TakeItems
    <2>2. UNCHANGED <<vaults, currentVault, teamRoleCache>>
      BY <1>3 DEF Views!TakeItems
    <2>3. CASE currentVault = Absent
      BY <1>0, <2>1, <2>2, <2>3
      DEF ViewInv, ViewTypes, RolesAreTrue, SurroundingsAreOfVault, Views!SurroundingsAreOfVault, Views!Loaded
    <2>4. CASE currentVault # Absent
      <3>1. chips' = Absent /\ (menu' => Views!canManageVault(currentVault))
        BY <1>3, <2>4 DEF Views!TakeItems
      <3>2. menu' => currentVault \in Owned \cup Admin
        BY <2>4, <3>1 DEF Views!canManageVault, ViewInv, ViewTypes, RolesAreTrue
      <3> QED BY <1>0, <2>1, <2>2, <3>1, <3>2
          DEF ViewInv, ViewTypes, RolesAreTrue, SurroundingsAreOfVault, Views!SurroundingsAreOfVault
    <2> QED BY <2>3, <2>4
  <1>4. ASSUME currentVault' = Absent, UNCHANGED <<vaults, teamRoleCache>>, DOMAIN job' = Jobs,
               \A j \in Jobs : DOMAIN job'[j] = JobFields
        PROVE  ViewInv'
    BY <1>0, <1>4
    DEF ViewInv, ViewTypes, RolesAreTrue, SurroundingsAreOfVault, Views!SurroundingsAreOfVault, Views!Loaded
  <1>5. ASSUME Views!navigateToTeam PROVE ViewInv'
    BY <1>0, <1>4, <1>5 DEF Views!navigateToTeam
  <1>6. ASSUME NEW j \in Jobs, Views!Deleted(j) PROVE ViewInv'
    <2>1. Views!Await(j, "deleted", Absent) /\ currentVault' = Absent /\ UNCHANGED <<vaults, teamRoleCache>>
      BY <1>6 DEF Views!Deleted
    <2>2. DOMAIN job' = Jobs /\ \A k \in Jobs : DOMAIN job'[k] = JobFields
      BY <1>0, <2>1, AwaitOrEnd DEF ViewInv
    <2> QED BY <1>4, <2>1, <2>2
  <1>7. ASSUME NEW v \in Vaults, Views!loadVaultShares(v) PROVE ViewInv'
    <2>1. UNCHANGED <<vaults, currentVault, loadFailed, menu, teamRoleCache, job>>
      BY <1>7 DEF Views!loadVaultShares
    <2>2. chips' \in {chips, currentVault}
      BY <1>7 DEF Views!loadVaultShares
    <2> QED BY <2>1, <2>2
        DEF ViewInv, ViewTypes, RolesAreTrue, SurroundingsAreOfVault, Views!SurroundingsAreOfVault, Views!Loaded
  <1>8. ASSUME NEW v \in Vaults, Views!updateVaultMenuButton(v) PROVE ViewInv'
    <2>1. UNCHANGED <<vaults, currentVault, loadFailed, chips, job>>
      BY <1>8 DEF Views!updateVaultMenuButton
    <2>2. PICK answered \in BOOLEAN :
            /\ teamRoleCache' = [teamRoleCache EXCEPT ![v] = Views!Role(v, answered)]
            /\ menu' = IF v = currentVault THEN Views!Role(v, answered) = "admin" ELSE menu
      BY <1>8 DEF Views!updateVaultMenuButton
    <2>3. Views!Role(v, answered) = "admin" => v \in Admin
      BY DEF Views!Role
    <2>4. RolesAreTrue'
      BY <2>2, <2>3 DEF ViewInv, RolesAreTrue
    <2>5. menu' => menu \/ currentVault \in Admin
      BY <2>2, <2>3
    <2> QED BY <2>1, <2>4, <2>5
        DEF ViewInv, ViewTypes, SurroundingsAreOfVault, Views!SurroundingsAreOfVault, Views!Loaded
  <1>9. ASSUME NEW j \in Jobs, NEW pt, NEW v, Views!Await(j, pt, v) \/ (Views!End(j) /\ pt = "idle"),
               UNCHANGED <<currentVault, chips, menu, teamRoleCache, vaults>>,
               ~loadFailed' => ~loadFailed, job[j].at # "items" \/ loadFailed'
        PROVE  ViewInv'
    <2>1. /\ DOMAIN job' = Jobs /\ DOMAIN job'[j] = JobFields
          /\ \A k \in Jobs \ {j} : job'[k] = job[k]
      BY <1>9, AwaitOrEnd DEF ViewInv
    <2> QED BY <1>0, <1>9, <2>1, SameVault
  <1>10. ASSUME NEW j \in Jobs, Views!createVault(j) PROVE ViewInv'
    <2>1. Views!Await(j, "post", Absent) /\ job[j].at # "items"
      BY <1>10 DEF Views!createVault
    <2> QED BY <1>9, <1>10, <2>1 DEF Views!createVault
  <1>11. ASSUME NEW j \in Jobs, Views!Created(j) PROVE ViewInv'
    <2>1. PICK v : Views!Await(j, "list", v)
      BY <1>11 DEF Views!Created
    <2> QED BY <1>9, <1>11, <2>1 DEF Views!Created
  <1>12. ASSUME NEW j \in Jobs, Views!deleteCurrentVault(j) PROVE ViewInv'
    <2>1. Views!Await(j, "delete", currentVault) /\ job[j].at # "items"
      BY <1>12 DEF Views!deleteCurrentVault
    <2> QED BY <1>9, <1>12, <2>1 DEF Views!deleteCurrentVault
  <1>13. ASSUME NEW j \in Jobs, Views!runExport(j) PROVE ViewInv'
    <2>1. Views!Await(j, "key", currentVault) /\ job[j].at # "items"
      BY <1>13 DEF Views!runExport
    <2> QED BY <1>9, <1>13, <2>1 DEF Views!runExport
  <1>14. ASSUME NEW j \in Jobs, Views!Fail(j) PROVE ViewInv'
    <2>1. Views!End(j) /\ (loadFailed' <=> loadFailed \/ job[j].at \in {"items", "deleted"})
      BY <1>14 DEF Views!Fail
    <2>2. UNCHANGED <<currentVault, chips, menu, teamRoleCache, vaults>>
      BY <1>14 DEF Views!Fail
    <2> QED BY <1>9, <2>1, <2>2
  <1>15. ASSUME NEW j \in Jobs, Views!Download(j) \/ Views!updateTOTP(j) PROVE ViewInv'
    <2>1. Views!End(j) /\ job[j].at # "items"
      BY <1>15 DEF Views!Download, Views!updateTOTP
    <2> QED BY <1>9, <1>15, <2>1 DEF Views!Download, Views!updateTOTP
  <1>16. ASSUME NEW j \in Jobs, Views!openItemDirect(j) PROVE ViewInv'
    <2>1. Views!Await(j, "decrypt", items) /\ job[j].at # "items"
      BY <1>16 DEF Views!openItemDirect
    <2> QED BY <1>9, <1>16, <2>1 DEF Views!openItemDirect
  <1>17. ASSUME NEW j \in Jobs, Views!Opened(j) PROVE ViewInv'
    <2>1. Views!Await(j, "code", job[j].vault) /\ job[j].at # "items"
      BY <1>17 DEF Views!Opened
    <2> QED BY <1>9, <1>17, <2>1 DEF Views!Opened
  <1>18. ASSUME NEW j \in Jobs, Views!Collect(j) PROVE ViewInv'
    <2>1. UNCHANGED <<currentVault, chips, menu, teamRoleCache, vaults, loadFailed>> /\ job[j].at = "key"
      BY <1>18 DEF Views!Collect
    <2>2. CASE Views!Await(j, "build", Absent)
      BY <1>9, <2>1, <2>2
    <2>3. CASE job' = [job EXCEPT ![j].at = "build", ![j].name = currentVault,
                                  ![j].items = Views!Decrypted(items, job[j].vault)]
      <3>1. DOMAIN job' = Jobs /\ DOMAIN job'[j] = JobFields
        BY <1>0, <2>3 DEF JobFields
      <3>2. \A k \in Jobs \ {j} : job'[k] = job[k]
        BY <1>0, <2>3
      <3> QED BY <1>0, <2>1, <3>1, <3>2, SameVault
    <2> QED BY <1>18, <2>2, <2>3 DEF Views!Collect
  <1>19. ASSUME NEW j \in Jobs, Views!SelectFirst(j) PROVE ViewInv'
    <2>1. /\ job[j].at # "items" /\ vaults' \subseteq Vaults
          /\ UNCHANGED <<chips, menu, teamRoleCache, loadFailed>>
      BY <1>0, <1>19 DEF Views!SelectFirst
    <2>2. ASSUME NEW v \in Views!There, Views!navigateToVault(j, v, Views!There, currentVault) PROVE ViewInv'
      BY <1>0, <2>1, <2>2, Navigate
    <2>3. CASE Views!End(j) /\ UNCHANGED currentVault
      <3>1. /\ DOMAIN job' = Jobs /\ DOMAIN job'[j] = JobFields
            /\ \A k \in Jobs \ {j} : job'[k] = job[k]
        BY <2>3, AwaitOrEnd DEF ViewInv
      <3> QED BY <1>0, <2>1, <2>3, <3>1, SameVault
    <2> QED BY <1>19, <2>2, <2>3 DEF Views!SelectFirst
  <1>20. ASSUME Views!openVaultSettings \/ Views!closeModal \/ Views!openExportModal \/ UNCHANGED Views!vars
         PROVE  ViewInv'
    <2>1. UNCHANGED <<currentVault, chips, menu, teamRoleCache, vaults, loadFailed, job>>
      BY <1>20 DEF Views!openVaultSettings, Views!closeModal, Views!openExportModal, Views!vars
    <2> QED BY <1>0, <2>1, SameVault
  <1> QED BY <1>1, <1>2, <1>3, <1>5, <1>6, <1>7, <1>8, <1>10, <1>11, <1>12, <1>13, <1>14, <1>15, <1>16,
             <1>17, <1>18, <1>19, <1>20
      DEF Views!Next

\* The teams and the menu beside a vault are its own, whichever request is answered
\* last (loadVaultShares, updateVaultMenuButton in web/app.js).
THEOREM Surroundings == Views!Spec => []SurroundingsAreOfVault
  BY InitViews, NextViews, PTL DEF Views!Spec, ViewInv

-----------------------------------------------------------------------------
(* Passkeys in a page *)

ToRelay == [kind : Relay!Kinds \cup {"abortConditional"}, id : Req, challenge : Challenge]
Ready == [is : {"ready"}, id : {0}]
NoCredential ==
  [is : {"fallbackNative", "cancelled", "undefined", "excluded", "error"}, id : Req]
Signed == [is : {"ok"}, id : Req, challenge : Challenge, credential : Credentials]
ToPage == Ready \cup NoCredential \cup Signed

RelayTypes ==
  /\ DOMAIN inPage = Req
  /\ \A r \in Req : /\ DOMAIN inPage[r] = {"st", "kind", "challenge", "exclude", "result"}
                    /\ inPage[r].challenge \in Challenge
  /\ DOMAIN handler = Req /\ \A r \in Req : DOMAIN handler[r] = {"at", "pick"}
  /\ toRelay \in Seq(ToRelay) /\ outbox \in Seq(ToRelay) /\ toPage \in Seq(ToPage)
  /\ relayReady => outbox = <<>>
  /\ stored \subseteq saved /\ saved \subseteq Credentials

\* What is on the way to the relay.
Pending == toRelay \o outbox
IsRequest(m) == m.kind # "abortConditional"

\* No request is made twice: what is on the way has no handler yet, and is on the
\* way once.
AskedOnce ==
  /\ \A r \in Req : handler[r].at # "none" => inPage[r].st # "new"
  /\ \A i \in DOMAIN Pending : IsRequest(Pending[i]) =>
       /\ handler[Pending[i].id].at = "none" /\ inPage[Pending[i].id].st # "new"
       /\ \A k \in DOMAIN Pending : IsRequest(Pending[k]) /\ Pending[k].id = Pending[i].id => k = i

\* Whoever is offered something waits for the answer.
Screens ==
  /\ conditional # Absent =>
       /\ conditional.id \in Req /\ handler[conditional.id].at = "armed"
       /\ inPage[conditional.id].kind = "getConditional"
  /\ pkOverlay # Absent =>
       /\ pkOverlay.id \in Req /\ handler[pkOverlay.id].at = "dialog"
       /\ pkOverlay.items # {} => inPage[pkOverlay.id].kind # "create"
  /\ pkDropdown # Absent => conditional # Absent /\ pkDropdown = conditional.items

\* A request cannot exclude the passkey it saves.
KeysAreNew ==
  \A r \in Req : /\ inPage[r].st = "new" => r \notin saved
                 /\ inPage[r].st # "new" => r \notin inPage[r].exclude
                 /\ handler[r].at = "registered" => r \in saved
                 /\ handler[r].at = "passkeyAssert" => inPage[r].kind # "create"

\* m is what request m.id asks for.
Fits(m) ==
  /\ inPage[m.id].st # "new" /\ m.challenge = inPage[m.id].challenge /\ m.credential \in saved
  /\ inPage[m.id].kind = "create" => m.credential = m.id

\* So is every answer on the way, and every one that has arrived.
AnswersFit == (\A i \in DOMAIN toPage : toPage[i].is = "ok" => Fits(toPage[i])) /\ AnswersMatch

RelayInv == RelayTypes /\ AskedOnce /\ Screens /\ KeysAreNew /\ AnswersFit

\* The fields of a request whose state and result change are its own still.
PageFields == {"st", "kind", "challenge", "exclude", "result"}
SameRequests ==
  /\ DOMAIN inPage' = Req
  /\ \A r \in Req : /\ DOMAIN inPage'[r] = PageFields
                    /\ inPage'[r].kind = inPage[r].kind /\ inPage'[r].challenge = inPage[r].challenge
                    /\ inPage'[r].exclude = inPage[r].exclude
                    /\ inPage'[r].st = "new" <=> inPage[r].st = "new"

\* At first there is nothing but the passkey that may be stored.
LEMMA InitRelay == ASSUME RelayConstants PROVE Relay!Init => RelayInv
  <1> SUFFICES ASSUME Relay!Init PROVE RelayInv
    OBVIOUS
  <1>1. /\ inPage = [r \in Req |-> [st |-> "new", kind |-> Absent, challenge |-> Absent,
                                  exclude |-> {}, result |-> Absent]]
        /\ handler = [r \in Req |-> [at |-> "none", pick |-> Absent]]
        /\ outbox = <<>> /\ toRelay = <<>> /\ toPage = <<>>
        /\ conditional = Absent /\ pkDropdown = Absent /\ pkOverlay = Absent
        /\ stored \subseteq {0} /\ saved = stored
    BY DEF Relay!Init
  <1>2. RelayTypes
    <2>1. <<>> \in Seq(ToRelay) /\ <<>> \in Seq(ToPage)
      BY EmptySeq
    <2> QED BY <1>1, <2>1 DEF RelayTypes, Challenge, Credentials
  <1>3. AskedOnce
    <2>1. Pending = <<>> /\ DOMAIN Pending = {}
      BY <1>1, ConcatEmptySeq, EmptySeq DEF Pending
    <2> QED BY <1>1, <2>1 DEF AskedOnce
  <1>4. KeysAreNew
    BY <1>1 DEF KeysAreNew, RelayConstants
  <1>5. AnswersFit
    BY <1>1 DEF AnswersFit, AnswersMatch, Relay!AnswersMatch
  <1> QED BY <1>1, <1>2, <1>3, <1>4, <1>5 DEF RelayInv, Screens

-----------------------------------------------------------------------------
(* What is on the way to the relay *)

\* The messages of the relay and those that wait for it are one queue:
LEMMA QueueFacts ==
  ASSUME RelayTypes
  PROVE  /\ Pending \in Seq(ToRelay) /\ DOMAIN Pending = 1..Len(Pending)
         /\ Len(Pending) = Len(toRelay) + Len(outbox)
  BY ConcatProperties, LenProperties DEF RelayTypes, Pending

\* what is posted comes at its end,
LEMMA Posted ==
  ASSUME RelayTypes, NEW m \in ToRelay, Relay!post(m)
  PROVE  /\ toRelay' \in Seq(ToRelay) /\ outbox' \in Seq(ToRelay)
         /\ relayReady => outbox' = <<>>
         /\ DOMAIN Pending' = 1..(Len(Pending) + 1)
         /\ \A i \in 1..Len(Pending) : Pending'[i] = Pending[i]
         /\ Pending'[Len(Pending) + 1] = m
  <1>1. CASE relayReady
    <2>1. toRelay' = Append(toRelay, m) /\ outbox' = <<>> /\ outbox = <<>>
      BY <1>1 DEF Relay!post, RelayTypes
    <2>2. toRelay' \in Seq(ToRelay) /\ <<>> \in Seq(ToRelay)
      BY <2>1, AppendProperties, EmptySeq DEF RelayTypes
    <2>3. Pending' = toRelay' /\ Pending = toRelay
      BY <2>1, <2>2, ConcatEmptySeq DEF Pending, RelayTypes
    <2> QED BY <2>1, <2>2, <2>3, AppendProperties, LenProperties DEF RelayTypes
  <1>2. CASE ~relayReady
    <2>1. outbox' = Append(outbox, m) /\ toRelay' = toRelay
      BY <1>2 DEF Relay!post
    <2>2. outbox' \in Seq(ToRelay) /\ Len(outbox') = Len(outbox) + 1 /\ toRelay \in Seq(ToRelay)
          /\ outbox \in Seq(ToRelay)
      BY <2>1, AppendProperties DEF RelayTypes
    <2>3. /\ \A i \in 1..Len(outbox) : outbox'[i] = outbox[i]
          /\ outbox'[Len(outbox) + 1] = m
      BY <2>1, AppendProperties DEF RelayTypes
    <2>4. Len(toRelay) \in Nat /\ Len(outbox) \in Nat /\ Len(Pending) = Len(toRelay) + Len(outbox)
      BY QueueFacts, <2>2, LenProperties
    <2>5. /\ Pending' \in Seq(ToRelay) /\ Len(Pending') = Len(toRelay) + Len(outbox) + 1
          /\ \A i \in 1..(Len(toRelay) + Len(outbox) + 1) :
               Pending'[i] = IF i <= Len(toRelay) THEN toRelay[i] ELSE outbox'[i - Len(toRelay)]
      <3>1. Pending' = toRelay \o outbox'
        BY <2>1 DEF Pending
      <3>2. /\ Pending' \in Seq(ToRelay) /\ Len(Pending') = Len(toRelay) + Len(outbox')
            /\ \A i \in 1..(Len(toRelay) + Len(outbox')) :
                 Pending'[i] = IF i <= Len(toRelay) THEN toRelay[i] ELSE outbox'[i - Len(toRelay)]
        BY <2>2, <3>1, ConcatProperties
      <3>3. Len(toRelay) + Len(outbox') = Len(toRelay) + Len(outbox) + 1
        BY <2>2, <2>4
      <3> QED BY <3>2, <3>3
    <2>6. \A i \in 1..(Len(toRelay) + Len(outbox)) :
            Pending[i] = IF i <= Len(toRelay) THEN toRelay[i] ELSE outbox[i - Len(toRelay)]
      BY <2>2, ConcatProperties DEF Pending
    <2>7. DOMAIN Pending' = 1..(Len(Pending) + 1)
      BY <2>4, <2>5, LenProperties
    <2>8. ASSUME NEW i \in 1..Len(Pending) PROVE Pending'[i] = Pending[i]
      <3>1. CASE i <= Len(toRelay)
        BY <2>4, <2>5, <2>6, <3>1
      <3>2. CASE ~(i <= Len(toRelay))
        <4>1. i - Len(toRelay) \in 1..Len(outbox)
          BY <2>4, <3>2
        <4> QED BY <2>3, <2>4, <2>5, <2>6, <3>2, <4>1, SMTT(30)
      <3> QED BY <3>1, <3>2
    <2>9. Pending'[Len(Pending) + 1] = m
      BY <2>3, <2>4, <2>5
    <2> QED BY <1>2, <2>1, <2>2, <2>7, <2>8, <2>9, SMTT(30)
  <1> QED BY <1>1, <1>2

\* what is taken from its beginning,
LEMMA Taken ==
  ASSUME RelayTypes, toRelay # <<>>, toRelay' = Tail(toRelay), outbox' = outbox
  PROVE  /\ toRelay' \in Seq(ToRelay) /\ Head(toRelay) \in ToRelay
         /\ Len(Pending) \in Nat /\ Len(Pending) > 0 /\ Pending[1] = Head(toRelay)
         /\ DOMAIN Pending' = 1..(Len(Pending) - 1)
         /\ \A i \in 1..(Len(Pending) - 1) : Pending'[i] = Pending[i + 1]
  <1>1. /\ toRelay \in Seq(ToRelay) /\ outbox \in Seq(ToRelay) /\ Head(toRelay) \in ToRelay
        /\ toRelay' \in Seq(ToRelay) /\ Len(toRelay') = Len(toRelay) - 1
        /\ \A i \in 1..Len(toRelay') : toRelay'[i] = toRelay[i + 1]
    BY HeadTailProperties DEF RelayTypes
  <1>2. Len(toRelay) \in Nat /\ Len(toRelay) > 0 /\ Len(outbox) \in Nat /\ Head(toRelay) = toRelay[1]
    BY <1>1, EmptySeq, LenProperties
  <1>3. Len(Pending) = Len(toRelay) + Len(outbox)
    BY QueueFacts
  <1>4. \A i \in 1..(Len(toRelay) + Len(outbox)) :
          Pending[i] = IF i <= Len(toRelay) THEN toRelay[i] ELSE outbox[i - Len(toRelay)]
    BY <1>1, ConcatProperties DEF Pending
  <1>5. /\ Pending' \in Seq(ToRelay) /\ Len(Pending') = Len(toRelay') + Len(outbox)
        /\ \A i \in 1..(Len(toRelay') + Len(outbox)) :
             Pending'[i] = IF i <= Len(toRelay') THEN toRelay'[i] ELSE outbox[i - Len(toRelay')]
    BY <1>1, ConcatProperties DEF Pending
  <1>6. DOMAIN Pending' = 1..(Len(Pending) - 1)
    BY <1>1, <1>2, <1>3, <1>5, LenProperties
  <1>7. ASSUME NEW i \in 1..(Len(Pending) - 1) PROVE Pending'[i] = Pending[i + 1]
    <2>1. CASE i <= Len(toRelay')
      BY <1>1, <1>2, <1>3, <1>4, <1>5, <2>1
    <2>2. CASE ~(i <= Len(toRelay'))
      <3>1. i - Len(toRelay') = (i + 1) - Len(toRelay)
        BY <1>1, <1>2, <1>3
      <3> QED BY <1>1, <1>2, <1>3, <1>4, <1>5, <2>2, <3>1
    <2> QED BY <2>1, <2>2
  <1> QED BY <1>1, <1>2, <1>3, <1>4, <1>6, <1>7

\* and once the relay is ready there is one queue.
LEMMA Flushed ==
  ASSUME RelayTypes, toRelay' = toRelay \o outbox, outbox' = <<>>
  PROVE  toRelay' \in Seq(ToRelay) /\ outbox' \in Seq(ToRelay) /\ Pending' = Pending
  BY QueueFacts, ConcatEmptySeq, EmptySeq DEF RelayTypes, Pending

\* What stays on the way is asked once if it was.
LEMMA SameQueue ==
  ASSUME AskedOnce, RelayTypes, Pending' = Pending, SameRequests,
         \A r \in Req : handler'[r].at # "none" <=> handler[r].at # "none"
  PROVE  AskedOnce'
  <1>1. ASSUME NEW i \in DOMAIN Pending PROVE Pending[i].id \in Req
    <2>1. Pending[i] \in ToRelay
      BY QueueFacts
    <2> QED BY <2>1 DEF ToRelay
  <1> QED BY <1>1 DEF AskedOnce, SameRequests, IsRequest

\* A message to the page comes after those that are on the way.
LEMMA Responded ==
  ASSUME RelayTypes, AnswersFit, NEW m \in ToPage, toPage' = Append(toPage, m),
         m.is = "ok" => Fits(m)', \A n \in Signed : Fits(n) => Fits(n)'
  PROVE  /\ toPage' \in Seq(ToPage)
         /\ \A i \in DOMAIN toPage' :
              toPage'[i].is = "ok" =>
                /\ inPage'[toPage'[i].id].st # "new"
                /\ toPage'[i].challenge = inPage'[toPage'[i].id].challenge
                /\ toPage'[i].credential \in saved'
                /\ inPage'[toPage'[i].id].kind = "create" => toPage'[i].credential = toPage'[i].id
  <1>1. /\ toPage \in Seq(ToPage) /\ toPage' \in Seq(ToPage) /\ Len(toPage') = Len(toPage) + 1
        /\ \A i \in 1..Len(toPage) : toPage'[i] = toPage[i]
        /\ toPage'[Len(toPage) + 1] = m
    BY AppendProperties DEF RelayTypes
  <1>2. Len(toPage) \in Nat /\ DOMAIN toPage' = 1..(Len(toPage) + 1) /\ DOMAIN toPage = 1..Len(toPage)
    BY <1>1, LenProperties
  <1>3. ASSUME NEW i \in DOMAIN toPage', NEW n, n = toPage'[i], n.is = "ok" PROVE Fits(n)'
    <2>1. CASE i \in 1..Len(toPage)
      <3>1. n = toPage[i] /\ n \in ToPage /\ i \in DOMAIN toPage
        BY <1>1, <1>2, <1>3, <2>1
      <3>2. n \in Signed
        BY <1>3, <3>1 DEF ToPage, Ready, NoCredential
      <3>3. Fits(n)
        BY <1>3, <3>1 DEF AnswersFit
      <3> QED BY <3>2, <3>3
    <2>2. CASE i = Len(toPage) + 1
      BY <1>1, <1>3, <2>2
    <2> QED BY <1>2, <1>3, <2>1, <2>2
  <1> QED BY <1>1, <1>3 DEF Fits

-----------------------------------------------------------------------------
(* The page *)

\* An answer that fits goes on to do so.
LEMMA FitsStill ==
  ASSUME SameRequests, saved \subseteq saved'
  PROVE  \A n \in Signed : Fits(n) => Fits(n)'
  BY DEF SameRequests, Fits, Signed

\* Nothing but the state of a request and its result changes: the passkeys it is
\* about and who is offered something do not.
LEMMA RequestsGoOn ==
  ASSUME RelayInv, SameRequests,
         UNCHANGED <<handler, conditional, armed, pkDropdown, pkOverlay, signedOut, stored, saved>>
  PROVE  Screens' /\ KeysAreNew'
  <1>1. Screens'
    BY DEF RelayInv, Screens, SameRequests
  <1>2. KeysAreNew'
    BY DEF RelayInv, KeysAreNew, SameRequests
  <1> QED BY <1>1, <1>2

\* A request is made: nothing knows of it yet, and it excludes passkeys that were
\* saved before.
LEMMA AskKeeps ==
  ASSUME RelayConstants, RelayInv, NEW r \in Req, NEW k \in Relay!Kinds, NEW c \in Challenges,
         Relay!ask(r, k, c)
  PROVE  RelayInv'
  <1>0. /\ RelayTypes /\ AskedOnce /\ Screens /\ KeysAreNew /\ AnswersFit
        /\ inPage[r].st = "new" /\ handler[r].at = "none"
    BY DEF RelayInv, AskedOnce, Relay!ask
  <1>1. PICK exclude \in {{}, Relay!Known} :
          inPage' = [inPage EXCEPT ![r] = [st |-> "waiting", kind |-> k, challenge |-> c,
                                       exclude |-> exclude, result |-> Absent]]
    BY DEF Relay!ask
  <1>2. UNCHANGED <<relayReady, toPage, handler, passthroughNative, conditional, armed, pkDropdown,
                    pkOverlay, ownServer, signedOut, stored, saved>>
    BY DEF Relay!ask, Relay!ui, Relay!vault
  <1>3. /\ DOMAIN inPage' = Req /\ \A q \in Req \ {r} : inPage'[q] = inPage[q]
        /\ inPage'[r].st = "waiting" /\ inPage'[r].kind = k /\ inPage'[r].challenge = c
        /\ inPage'[r].exclude = exclude /\ DOMAIN inPage'[r] = PageFields
    BY <1>0, <1>1 DEF RelayTypes, PageFields
  <1>4. PICK m : m = [kind |-> k, id |-> r, challenge |-> c]
    OBVIOUS
  <1>5. m \in ToRelay /\ m.id = r
    BY <1>4 DEF ToRelay, Challenge
  <1>6. Relay!post(m)
    BY <1>3, <1>4 DEF Relay!ask, Relay!Message
  <1>7. /\ toRelay' \in Seq(ToRelay) /\ outbox' \in Seq(ToRelay)
        /\ relayReady => outbox' = <<>>
        /\ DOMAIN Pending' = 1..(Len(Pending) + 1)
        /\ \A i \in 1..Len(Pending) : Pending'[i] = Pending[i]
        /\ Pending'[Len(Pending) + 1] = m
    BY <1>0, <1>5, <1>6, Posted
  <1>8. RelayTypes'
    BY <1>0, <1>2, <1>3, <1>7 DEF RelayTypes, Challenge, PageFields
  <1>9. AskedOnce'
    <2>1. Len(Pending) \in Nat /\ DOMAIN Pending = 1..Len(Pending)
      BY <1>0, QueueFacts, LenProperties
    <2>2. ASSUME NEW i \in 1..Len(Pending), IsRequest(Pending[i]) PROVE Pending[i].id # r
      BY <1>0, <2>1, <2>2 DEF AskedOnce
    <2>3. ASSUME NEW i \in 1..Len(Pending) PROVE Pending[i].id \in Req
      <3>1. Pending[i] \in ToRelay
        BY <1>0, <2>1, QueueFacts
      <3> QED BY <3>1 DEF ToRelay
    <2>4. ASSUME NEW i \in DOMAIN Pending', IsRequest(Pending[i])'
          PROVE  /\ handler'[Pending'[i].id].at = "none" /\ inPage'[Pending'[i].id].st # "new"
                 /\ \A j \in DOMAIN Pending' :
                      IsRequest(Pending[j])' /\ Pending'[j].id = Pending'[i].id => j = i
      <3>1. CASE i = Len(Pending) + 1
        BY <1>0, <1>2, <1>3, <1>5, <1>7, <2>1, <2>2, <3>1 DEF IsRequest
      <3>2. CASE i \in 1..Len(Pending)
        <4>1. Pending'[i] = Pending[i] /\ IsRequest(Pending[i])
          BY <1>7, <2>4, <3>2 DEF IsRequest
        <4>2. Pending[i].id \in Req \ {r} /\ handler[Pending[i].id].at = "none"
              /\ inPage[Pending[i].id].st # "new"
          BY <1>0, <2>1, <2>2, <2>3, <3>2, <4>1 DEF AskedOnce
        <4>3. ASSUME NEW j \in DOMAIN Pending', IsRequest(Pending[j])', Pending'[j].id = Pending'[i].id
              PROVE  j = i
          <5>1. j # Len(Pending) + 1
            BY <1>5, <1>7, <4>1, <4>2, <4>3
          <5>2. j \in 1..Len(Pending)
            BY <1>7, <2>1, <5>1
          <5> QED BY <1>0, <1>7, <2>1, <3>2, <4>1, <4>3, <5>2 DEF AskedOnce, IsRequest
        <4> QED BY <1>2, <1>3, <4>1, <4>2, <4>3
      <3> QED BY <1>7, <2>1, <3>1, <3>2
    <2>5. \A q \in Req : handler'[q].at # "none" => inPage'[q].st # "new"
      BY <1>0, <1>2, <1>3 DEF AskedOnce
    <2> QED BY <2>4, <2>5 DEF AskedOnce, IsRequest
  <1>10. Screens'
    <2>1. \A q \in Req : handler[q].at # "none" => q # r
      BY <1>0
    <2>2. conditional # Absent => inPage'[conditional.id] = inPage[conditional.id]
      BY <1>0, <1>3, <2>1 DEF Screens
    <2>3. pkOverlay # Absent => inPage'[pkOverlay.id] = inPage[pkOverlay.id]
      BY <1>0, <1>3, <2>1 DEF Screens
    <2> QED BY <1>0, <1>2, <2>2, <2>3 DEF Screens
  <1>11. KeysAreNew'
    <2>1. Relay!Known \subseteq saved
      BY <1>0 DEF Relay!Known, AnswersFit, AnswersMatch, Relay!AnswersMatch
    <2>2. r \notin exclude
      BY <1>0, <1>1, <2>1 DEF KeysAreNew
    <2> QED BY <1>0, <1>2, <1>3, <2>2 DEF KeysAreNew
  <1>12. AnswersFit'
    <2>1. AnswersMatch'
      BY <1>0, <1>2, <1>3 DEF AnswersFit, AnswersMatch, Relay!AnswersMatch
    <2>2. ASSUME NEW i \in DOMAIN toPage, toPage[i].is = "ok"
          PROVE  toPage[i].id \in Req \ {r}
      <3>1. toPage[i] \in Signed
        BY <1>0, <2>2, SMTT(30) DEF RelayTypes, ToPage, Ready, NoCredential
      <3> QED BY <1>0, <2>2, <3>1 DEF Signed, AnswersFit, Fits
    <2>3. ASSUME NEW i \in DOMAIN toPage, toPage[i].is = "ok"
          PROVE  inPage'[toPage[i].id] = inPage[toPage[i].id]
      BY <1>3, <2>2, <2>3
    <2> QED BY <1>0, <1>2, <2>1, <2>3 DEF AnswersFit, Fits
  <1> QED BY <1>8, <1>9, <1>10, <1>11, <1>12 DEF RelayInv

\* A message that gives up is no request.
LEMMA AbortPosted ==
  ASSUME RelayTypes, AskedOnce, NEW m \in ToRelay, ~IsRequest(m), Relay!post(m), SameRequests,
         UNCHANGED handler
  PROVE  AskedOnce'
  <1>1. /\ DOMAIN Pending' = 1..(Len(Pending) + 1)
        /\ \A i \in 1..Len(Pending) : Pending'[i] = Pending[i]
        /\ Pending'[Len(Pending) + 1] = m
    BY Posted
  <1>2. Len(Pending) \in Nat /\ DOMAIN Pending = 1..Len(Pending)
    BY QueueFacts, LenProperties
  <1>3. ASSUME NEW i \in 1..Len(Pending) PROVE Pending[i].id \in Req
    <2>1. Pending[i] \in ToRelay
      BY <1>2, QueueFacts
    <2> QED BY <2>1 DEF ToRelay
  <1>4. ASSUME NEW i \in DOMAIN Pending', IsRequest(Pending[i])'
        PROVE  i \in 1..Len(Pending) /\ Pending'[i] = Pending[i] /\ IsRequest(Pending[i])
    BY <1>1, <1>2, <1>4 DEF IsRequest
  <1>5. ASSUME NEW i \in DOMAIN Pending', IsRequest(Pending[i])'
        PROVE  /\ handler'[Pending'[i].id].at = "none" /\ inPage'[Pending'[i].id].st # "new"
               /\ \A j \in DOMAIN Pending' :
                    IsRequest(Pending[j])' /\ Pending'[j].id = Pending'[i].id => j = i
    <2>1. i \in DOMAIN Pending /\ Pending'[i] = Pending[i] /\ IsRequest(Pending[i])
      BY <1>2, <1>4, <1>5
    <2>2. handler'[Pending'[i].id].at = "none" /\ inPage'[Pending'[i].id].st # "new"
      BY <1>2, <1>3, <2>1 DEF AskedOnce, SameRequests
    <2>3. ASSUME NEW j \in DOMAIN Pending', IsRequest(Pending[j])', Pending'[j].id = Pending'[i].id
          PROVE  j = i
      <3>1. j \in DOMAIN Pending /\ Pending'[j] = Pending[j] /\ IsRequest(Pending[j])
        BY <1>2, <1>4, <2>3
      <3> QED BY <2>1, <2>3, <3>1 DEF AskedOnce
    <2> QED BY <2>2, <2>3
  <1>6. \A q \in Req : handler'[q].at # "none" => inPage'[q].st # "new"
    BY DEF AskedOnce, SameRequests
  <1> QED BY <1>5, <1>6 DEF AskedOnce, IsRequest

\* Giving up: the promise is rejected, and the relay may be told.
LEMMA AbortKeeps ==
  ASSUME RelayInv, NEW r \in Req, Relay!raceAbort(r) PROVE RelayInv'
  <1>0. RelayTypes /\ AskedOnce /\ AnswersFit /\ inPage[r].st = "waiting"
    BY DEF RelayInv, Relay!raceAbort
  <1>1. UNCHANGED <<relayReady, toPage, handler, passthroughNative, conditional, armed, pkDropdown,
                    pkOverlay, ownServer, signedOut, stored, saved>>
    BY DEF Relay!raceAbort, Relay!ui, Relay!vault
  <1>2. /\ DOMAIN inPage' = Req /\ \A q \in Req \ {r} : inPage'[q] = inPage[q]
        /\ DOMAIN inPage'[r] = PageFields /\ inPage'[r].st = "aborted"
        /\ inPage'[r].kind = inPage[r].kind /\ inPage'[r].challenge = inPage[r].challenge
        /\ inPage'[r].exclude = inPage[r].exclude
    <2>1. inPage' = [inPage EXCEPT ![r].st = "aborted"]
      BY DEF Relay!raceAbort
    <2> QED BY <1>0, <2>1 DEF RelayTypes, PageFields
  <1>3. SameRequests
    BY <1>0, <1>2 DEF RelayTypes, SameRequests, PageFields
  <1>4. /\ toRelay' \in Seq(ToRelay) /\ outbox' \in Seq(ToRelay) /\ (relayReady => outbox' = <<>>)
        /\ AskedOnce'
    <2>1. CASE inPage[r].kind = "getConditional"
      <3>1. PICK m : m = [kind |-> "abortConditional", id |-> r, challenge |-> inPage'[r].challenge]
        OBVIOUS
      <3>2. m \in ToRelay /\ ~IsRequest(m)
        BY <1>0, <1>2, <3>1 DEF ToRelay, RelayTypes, IsRequest
      <3>3. Relay!post(m)
        BY <2>1, <3>1 DEF Relay!raceAbort, Relay!Message
      <3> QED BY <1>0, <1>1, <1>3, <3>2, <3>3, Posted, AbortPosted
    <2>2. CASE inPage[r].kind # "getConditional"
      <3>1. UNCHANGED <<outbox, toRelay>>
        BY <2>2 DEF Relay!raceAbort
      <3>2. Pending' = Pending
        BY <3>1 DEF Pending
      <3> QED BY <1>0, <1>1, <1>3, <3>1, <3>2, SameQueue DEF RelayTypes
    <2> QED BY <2>1, <2>2
  <1>5. RelayTypes'
    BY <1>0, <1>1, <1>2, <1>4 DEF RelayTypes, PageFields
  <1>6. AnswersFit'
    <2>1. AnswersMatch'
      BY <1>0, <1>1, <1>2 DEF AnswersFit, AnswersMatch, Relay!AnswersMatch
    <2>2. ASSUME NEW i \in DOMAIN toPage, NEW n, n = toPage[i], n.is = "ok" PROVE Fits(n)'
      <3>1. n \in Signed
        BY <1>0, <2>2, SMTT(30) DEF RelayTypes, ToPage, Ready, NoCredential
      <3> QED BY <1>0, <1>1, <1>3, <2>2, <3>1, FitsStill DEF AnswersFit
    <2> QED BY <1>1, <2>1, <2>2 DEF AnswersFit, Fits
  <1> QED BY <1>1, <1>3, <1>4, <1>5, <1>6, RequestsGoOn DEF RelayInv

\* The page takes an answer: one to a request that is over changes nothing.
LEMMA ReceiveKeeps ==
  ASSUME RelayConstants, RelayInv, Relay!Receive PROVE RelayInv'
  <1>0. RelayTypes /\ AskedOnce /\ AnswersFit /\ KeysAreNew
    BY DEF RelayInv
  <1>1. UNCHANGED <<handler, passthroughNative, conditional, armed, pkDropdown,
                    pkOverlay, ownServer, signedOut, stored, saved>>
    BY DEF Relay!Receive, Relay!ui, Relay!vault
  <1>2. PICK m : m = Head(toPage)
    OBVIOUS
  <1>3. /\ m \in ToPage /\ toPage' \in Seq(ToPage) /\ Len(toPage') = Len(toPage) - 1
        /\ \A i \in 1..Len(toPage') : toPage'[i] = toPage[i + 1]
    BY <1>0, <1>2, HeadTailProperties DEF Relay!Receive, RelayTypes
  <1>4. /\ Len(toPage) \in Nat /\ Len(toPage) > 0 /\ DOMAIN toPage = 1..Len(toPage)
        /\ DOMAIN toPage' = 1..(Len(toPage) - 1) /\ m = toPage[1]
    BY <1>0, <1>2, <1>3, EmptySeq, LenProperties DEF Relay!Receive, RelayTypes
  <1>5. ASSUME SameRequests, AnswersMatch' PROVE AnswersFit'
    <2>1. ASSUME NEW i \in DOMAIN toPage', NEW n, n = toPage'[i], n.is = "ok" PROVE Fits(n)'
      <3>1. i + 1 \in DOMAIN toPage /\ n = toPage[i + 1]
        BY <1>3, <1>4, <2>1
      <3>2. n \in Signed
        BY <1>0, <2>1, <3>1 DEF RelayTypes, ToPage, Ready, NoCredential
      <3> QED BY <1>0, <1>1, <1>5, <2>1, <3>1, <3>2, FitsStill DEF AnswersFit
    <2> QED BY <1>5, <2>1 DEF AnswersFit, Fits
  <1>6. CASE m.is = "ready"
    <2>1. /\ relayReady' = TRUE /\ toRelay' = toRelay \o outbox /\ outbox' = <<>>
          /\ UNCHANGED inPage
      BY <1>2, <1>6 DEF Relay!Receive
    <2>2. toRelay' \in Seq(ToRelay) /\ outbox' \in Seq(ToRelay) /\ Pending' = Pending
      BY <1>0, <2>1, Flushed
    <2>3. SameRequests
      BY <1>0, <2>1 DEF RelayTypes, SameRequests, PageFields
    <2>4. RelayTypes'
      BY <1>0, <1>1, <1>3, <2>1, <2>2 DEF RelayTypes
    <2>5. AnswersMatch'
      BY <1>0, <1>1, <2>1 DEF AnswersFit, AnswersMatch, Relay!AnswersMatch
    <2> QED BY <1>0, <1>1, <1>5, <2>2, <2>3, <2>4, <2>5, RequestsGoOn, SameQueue DEF RelayInv
  <1>7. CASE m.is # "ready"
    <2>1. inPage' = Relay!Settle(m.id, m) /\ UNCHANGED <<relayReady, outbox, toRelay>>
      BY <1>2, <1>7 DEF Relay!Receive
    <2>2. m \in NoCredential \cup Signed /\ m.id \in Req /\ Pending' = Pending
      BY <1>3, <1>7, <2>1 DEF ToPage, Ready, NoCredential, Signed, Pending
    <2>3. /\ DOMAIN inPage' = Req /\ \A q \in Req \ {m.id} : inPage'[q] = inPage[q]
          /\ DOMAIN inPage'[m.id] = PageFields
          /\ inPage'[m.id].kind = inPage[m.id].kind /\ inPage'[m.id].challenge = inPage[m.id].challenge
          /\ inPage'[m.id].exclude = inPage[m.id].exclude
          /\ inPage'[m.id].st = "new" <=> inPage[m.id].st = "new"
          /\ inPage[m.id].st = "waiting" =>
               inPage'[m.id].result = m /\ (inPage'[m.id].st = "credential" => m.is = "ok")
          /\ inPage[m.id].st # "waiting" => inPage'[m.id] = inPage[m.id]
      BY <1>0, <2>1, <2>2 DEF RelayTypes, PageFields, Relay!Settle, Relay!Settled
    <2>4. SameRequests
      BY <1>0, <2>3 DEF RelayTypes, SameRequests, PageFields
    <2>5. RelayTypes'
      BY <1>0, <1>1, <1>3, <2>1, <2>3 DEF RelayTypes, PageFields
    <2>6. AnswersMatch'
      <3>1. m.is = "ok" => Fits(m)
        BY <1>0, <1>4 DEF AnswersFit
      <3>2. m.id \notin inPage[m.id].exclude \/ inPage[m.id].st = "new"
        BY <1>0, <2>2 DEF KeysAreNew
      <3> QED BY <1>0, <1>1, <2>2, <2>3, <3>1, <3>2
          DEF AnswersFit, AnswersMatch, Relay!AnswersMatch, Fits
    <2> QED BY <1>0, <1>1, <1>5, <2>2, <2>4, <2>5, <2>6, RequestsGoOn, SameQueue DEF RelayInv
  <1> QED BY <1>6, <1>7

-----------------------------------------------------------------------------
(* The relay *)

\* The handler of r goes on, and no other does.
Goes(r) ==
  /\ DOMAIN handler' = Req /\ DOMAIN handler'[r] = {"at", "pick"}
  /\ \A q \in Req \ {r} : handler'[q] = handler[q]
Unasked == UNCHANGED <<inPage, relayReady, outbox, toRelay>>

\* It says nothing to the page, or one thing that fits.
Says ==
  \/ toPage' = toPage
  \/ \E m \in ToPage : toPage' = Append(toPage, m) /\ (m.is = "ok" => Fits(m)')

\* What is said to the page fits, and what was said before does still.
LEMMA SaysKeeps ==
  ASSUME RelayTypes, AnswersFit, UNCHANGED inPage, saved \subseteq saved', Says
  PROVE  toPage' \in Seq(ToPage) /\ AnswersFit'
  <1>1. SameRequests
    BY DEF RelayTypes, SameRequests, PageFields
  <1>2. \A n \in Signed : Fits(n) => Fits(n)'
    BY <1>1, FitsStill
  <1>3. AnswersMatch'
    BY DEF AnswersFit, AnswersMatch, Relay!AnswersMatch
  <1>4. CASE toPage' = toPage
    <2>1. ASSUME NEW i \in DOMAIN toPage, NEW n, n = toPage[i], n.is = "ok" PROVE Fits(n)'
      <3>1. n \in Signed
        BY <2>1 DEF RelayTypes, ToPage, Ready, NoCredential
      <3> QED BY <1>2, <2>1, <3>1 DEF AnswersFit
    <2> QED BY <1>3, <1>4, <2>1 DEF AnswersFit, RelayTypes, Fits
  <1>5. ASSUME NEW m \in ToPage, toPage' = Append(toPage, m), m.is = "ok" => Fits(m)'
        PROVE  toPage' \in Seq(ToPage) /\ AnswersFit'
    BY <1>2, <1>3, <1>5, Responded DEF AnswersFit, Fits
  <1> QED BY <1>4, <1>5 DEF Says

\* A handler that has begun goes on: what else must be shown of its step.
LEMMA HandlerStep ==
  ASSUME RelayInv, NEW r \in Req, handler[r].at # "none", handler'[r].at # "none", Goes(r), Unasked,
         stored' \subseteq saved', saved' \subseteq saved \cup {r}, saved \subseteq saved',
         handler'[r].at = "registered" => r \in saved',
         handler'[r].at = "passkeyAssert" => inPage[r].kind # "create",
         Says, Screens'
  PROVE  RelayInv'
  <1>0. RelayTypes /\ AskedOnce /\ AnswersFit /\ KeysAreNew
    BY DEF RelayInv
  <1>1. UNCHANGED inPage
    BY DEF Unasked
  <1>2. toPage' \in Seq(ToPage) /\ AnswersFit'
    BY <1>0, <1>1, SaysKeeps
  <1>3. RelayTypes'
    <2>1. saved' \subseteq Credentials
      BY <1>0 DEF RelayTypes, Credentials
    <2>2. \A q \in Req : DOMAIN handler'[q] = {"at", "pick"}
      BY <1>0 DEF RelayTypes, Goes
    <2> QED BY <1>0, <1>2, <2>1, <2>2 DEF RelayTypes, Goes, Unasked
  <1>4. AskedOnce'
    <2>1. SameRequests /\ Pending' = Pending
      BY <1>0 DEF RelayTypes, SameRequests, PageFields, Pending, Unasked
    <2>2. \A q \in Req : handler'[q].at # "none" <=> handler[q].at # "none"
      BY DEF Goes
    <2> QED BY <1>0, <2>1, <2>2, SameQueue
  <1>5. KeysAreNew'
    <2>1. inPage[r].st # "new"
      BY <1>0 DEF AskedOnce
    <2> QED BY <1>0, <1>1, <2>1 DEF KeysAreNew, Goes
  <1> QED BY <1>2, <1>3, <1>4, <1>5 DEF RelayInv

\* Who neither is offered something nor is asked leaves the screens right, even
\* if the list goes.
LEMMA SameScreens ==
  ASSUME RelayInv, NEW r \in Req, Goes(r), UNCHANGED <<inPage, conditional, pkOverlay>>,
         handler[r].at \notin {"armed", "dialog"}, pkDropdown' \in {pkDropdown, Absent}
  PROVE  Screens'
  BY DEF RelayInv, Screens, Goes

\* A dialog takes the place of the one there is.
LEMMA DialogShows ==
  ASSUME RelayInv, NEW r \in Req, NEW dialog, NEW shown, Relay!Dialog(r, dialog, shown),
         UNCHANGED inPage, handler[r].at # "armed", shown # {} => inPage[r].kind # "create"
  PROVE  Goes(r) /\ handler'[r].at = "dialog" /\ toPage' = toPage /\ Screens'
  <1>1. Goes(r) /\ handler'[r].at = "dialog"
    BY DEF RelayInv, RelayTypes, Goes, Relay!Dialog
  <1>2. UNCHANGED <<toPage, conditional, pkDropdown>>
    BY DEF Relay!Dialog
  <1>3. /\ pkOverlay' # Absent => pkOverlay'.id = r /\ pkOverlay'.items = shown
    BY DEF Relay!Dialog, Relay!pkModal
  <1> QED BY <1>1, <1>2, <1>3 DEF RelayInv, Screens, Goes

\* An answer that is no passkey ends the handler.
LEMMA FinishEmpty ==
  ASSUME RelayTypes, NEW r \in Req, NEW is \in {"fallbackNative", "cancelled", "undefined", "excluded", "error"},
         Relay!Finish(r, Relay!Answer(r, is))
  PROVE  Goes(r) /\ handler'[r].at = "done" /\ Says
  <1>1. Goes(r) /\ handler'[r].at = "done"
    BY DEF RelayTypes, Goes, Relay!Finish
  <1>2. PICK m : m = Relay!Answer(r, is)
    OBVIOUS
  <1>3. m \in ToPage /\ m.is # "ok"
    BY <1>2 DEF Relay!Answer, ToPage, NoCredential
  <1>4. toPage' = Append(toPage, m)
    BY <1>2 DEF Relay!Finish, Relay!respondToPage
  <1> QED BY <1>1, <1>3, <1>4 DEF Says

\* An answer with a passkey ends it when the passkey is saved, and new if it was
\* to be made.
LEMMA FinishSigned ==
  ASSUME RelayInv, NEW r \in Req, NEW c \in saved, Relay!Finish(r, Relay!Credential(r, c)),
         UNCHANGED <<inPage, saved>>, handler[r].at # "none", inPage[r].kind = "create" => c = r
  PROVE  Goes(r) /\ handler'[r].at = "done" /\ Says
  <1>1. Goes(r) /\ handler'[r].at = "done"
    BY DEF RelayInv, RelayTypes, Goes, Relay!Finish
  <1>2. PICK m : m = Relay!Credential(r, c)
    OBVIOUS
  <1>3. m \in Signed /\ m.id = r /\ m.challenge = inPage[r].challenge /\ m.credential = c
    BY <1>2 DEF Relay!Credential, Signed, RelayInv, RelayTypes
  <1>4. Fits(m)'
    BY <1>3 DEF Fits, RelayInv, AskedOnce
  <1>5. toPage' = Append(toPage, m)
    BY <1>2 DEF Relay!Finish, Relay!respondToPage
  <1> QED BY <1>1, <1>3, <1>4, <1>5 DEF Says, ToPage

\* The relay says once that it is there.
LEMMA InitKeeps ==
  ASSUME RelayConstants, RelayInv, NEW answered, Relay!init(answered) PROVE RelayInv'
  <1>0. RelayTypes /\ AnswersFit
    BY DEF RelayInv
  <1>1. UNCHANGED <<inPage, relayReady, outbox, toRelay, handler, conditional, armed, pkDropdown, pkOverlay,
                    ownServer, signedOut, stored, saved>>
    BY DEF Relay!init, Relay!ui, Relay!vault
  <1>2. Says
    <2>1. PICK m : m = Relay!Answer(0, "ready")
      OBVIOUS
    <2>2. m \in ToPage /\ m.is # "ok"
      BY <2>1 DEF Relay!Answer, ToPage, Ready
    <2>3. toPage' = Append(toPage, m)
      BY <2>1 DEF Relay!init, Relay!respondToPage
    <2> QED BY <2>2, <2>3 DEF Says
  <1>3. toPage' \in Seq(ToPage) /\ AnswersFit'
    BY <1>0, <1>1, <1>2, SaysKeeps
  <1>4. RelayTypes'
    BY <1>0, <1>1, <1>3 DEF RelayTypes
  <1>5. AskedOnce' /\ Screens' /\ KeysAreNew'
    BY <1>1 DEF RelayInv, AskedOnce, Pending, IsRequest, Screens, KeysAreNew
  <1> QED BY <1>3, <1>4, <1>5 DEF RelayInv

\* Taking a message: if it is a request, no other one on the way is the same.
LEMMA TakenOnce ==
  ASSUME RelayTypes, AskedOnce, toRelay # <<>>, toRelay' = Tail(toRelay), UNCHANGED <<outbox, inPage>>,
         \A q \in Req : q # Head(toRelay).id \/ ~IsRequest(Head(toRelay)) => handler'[q] = handler[q]
  PROVE  AskedOnce'
  <1>1. /\ Len(Pending) \in Nat /\ Len(Pending) > 0 /\ Pending[1] = Head(toRelay)
        /\ DOMAIN Pending' = 1..(Len(Pending) - 1)
        /\ \A i \in 1..(Len(Pending) - 1) : Pending'[i] = Pending[i + 1]
    BY Taken
  <1>2. DOMAIN Pending = 1..Len(Pending) /\ \A i \in DOMAIN Pending : Pending[i].id \in Req
    <2>1. DOMAIN Pending = 1..Len(Pending)
      BY QueueFacts
    <2>2. ASSUME NEW i \in DOMAIN Pending PROVE Pending[i].id \in Req
      <3>1. Pending[i] \in ToRelay
        BY <2>1, <2>2, QueueFacts
      <3> QED BY <3>1 DEF ToRelay
    <2> QED BY <2>1, <2>2
  <1>3. ASSUME NEW i \in DOMAIN Pending', IsRequest(Pending[i])'
        PROVE  /\ i + 1 \in DOMAIN Pending /\ Pending'[i] = Pending[i + 1]
               /\ IsRequest(Pending[i + 1])
    BY <1>1, <1>2, <1>3 DEF IsRequest
  <1>4. ASSUME NEW i \in DOMAIN Pending', IsRequest(Pending[i])'
        PROVE  /\ handler'[Pending'[i].id].at = "none" /\ inPage'[Pending'[i].id].st # "new"
               /\ \A j \in DOMAIN Pending' :
                    IsRequest(Pending[j])' /\ Pending'[j].id = Pending'[i].id => j = i
    <2>1. i + 1 \in DOMAIN Pending /\ Pending'[i] = Pending[i + 1] /\ IsRequest(Pending[i + 1])
      BY <1>3, <1>4
    <2>2. i \in Nat /\ i + 1 # 1 /\ 1 \in DOMAIN Pending
      BY <1>1, <1>2, <1>4
    <2>3. Pending[i + 1].id # Head(toRelay).id \/ ~IsRequest(Head(toRelay))
      BY <1>1, <2>1, <2>2 DEF AskedOnce
    <2>4. handler'[Pending'[i].id].at = "none" /\ inPage'[Pending'[i].id].st # "new"
      BY <1>2, <2>1, <2>3 DEF AskedOnce
    <2>5. ASSUME NEW j \in DOMAIN Pending', IsRequest(Pending[j])', Pending'[j].id = Pending'[i].id
          PROVE  j = i
      <3>1. j + 1 \in DOMAIN Pending /\ Pending'[j] = Pending[j + 1] /\ IsRequest(Pending[j + 1])
        BY <1>3, <2>5
      <3>2. j + 1 = i + 1
        BY <2>1, <2>5, <3>1 DEF AskedOnce
      <3> QED BY <1>1, <1>4, <2>5, <3>2
    <2> QED BY <2>4, <2>5
  <1>5. ASSUME NEW q \in Req, handler'[q].at # "none" PROVE inPage[q].st # "new"
    <2>1. CASE q = Head(toRelay).id /\ IsRequest(Head(toRelay))
      <3>1. 1 \in DOMAIN Pending /\ IsRequest(Pending[1]) /\ Pending[1].id = q
        BY <1>1, <1>2, <2>1
      <3> QED BY <3>1 DEF AskedOnce
    <2>2. CASE ~(q = Head(toRelay).id /\ IsRequest(Head(toRelay)))
      BY <1>5, <2>2 DEF AskedOnce
    <2> QED BY <2>1, <2>2
  <1> QED BY <1>4, <1>5 DEF AskedOnce, IsRequest

\* The relay takes a message: it gives up what is offered, leaves a request to the
\* browser or begins to handle it.
LEMMA HandleKeeps ==
  ASSUME RelayInv, Relay!handlePasskeyReq PROVE RelayInv'
  <1>0. RelayTypes /\ AskedOnce /\ AnswersFit /\ KeysAreNew /\ Screens
    BY DEF RelayInv
  <1>1. /\ toRelay # <<>> /\ toRelay' = Tail(toRelay)
        /\ UNCHANGED <<inPage, relayReady, outbox, passthroughNative, ownServer, signedOut, stored, saved>>
    BY DEF Relay!handlePasskeyReq, Relay!vault
  <1>2. PICK d : d = Head(toRelay)
    OBVIOUS
  <1>3. toRelay' \in Seq(ToRelay) /\ d \in ToRelay /\ d.id \in Req
    BY <1>0, <1>1, <1>2, Taken DEF ToRelay
  <1>4. IsRequest(d) => handler[d.id].at = "none"
    <2>1. 1 \in DOMAIN Pending /\ Pending[1] = d
      BY <1>0, <1>1, <1>2, Taken, QueueFacts
    <2> QED BY <1>0, <2>1 DEF AskedOnce
  <1>5. ASSUME UNCHANGED handler, Says, Screens' PROVE RelayInv'
    <2>1. toPage' \in Seq(ToPage) /\ AnswersFit'
      BY <1>0, <1>1, <1>5, SaysKeeps
    <2>2. AskedOnce'
      BY <1>0, <1>1, <1>5, TakenOnce
    <2>3. RelayTypes'
      BY <1>0, <1>1, <1>3, <1>5, <2>1 DEF RelayTypes
    <2>4. KeysAreNew'
      BY <1>0, <1>1, <1>5 DEF KeysAreNew
    <2> QED BY <1>5, <2>1, <2>2, <2>3, <2>4 DEF RelayInv
  <1>6. CASE ~IsRequest(d)
    <2>1. /\ UNCHANGED <<handler, toPage, pkOverlay>>
          /\ \/ UNCHANGED <<conditional, pkDropdown>>
             \/ conditional' = Absent /\ pkDropdown' = Absent
      BY <1>2, <1>6 DEF Relay!handlePasskeyReq, Relay!abortConditional, Relay!disarmConditional, Relay!ui, IsRequest
    <2>2. Screens'
      BY <1>0, <1>1, <2>1 DEF Screens
    <2> QED BY <1>5, <2>1, <2>2 DEF Says
  <1>7. CASE IsRequest(d) /\ passthroughNative
    <2>1. toPage' = Append(toPage, Relay!Answer(d.id, "fallbackNative"))
          /\ UNCHANGED <<handler, conditional, armed, pkDropdown, pkOverlay>>
      BY <1>2, <1>7 DEF Relay!handlePasskeyReq, Relay!respondToPage, Relay!ui, IsRequest
    <2>2. PICK m : m = Relay!Answer(d.id, "fallbackNative")
      OBVIOUS
    <2>3. m \in ToPage /\ m.is # "ok"
      BY <1>3, <2>2 DEF Relay!Answer, ToPage, NoCredential
    <2>4. Says
      BY <2>1, <2>2, <2>3 DEF Says
    <2>5. Screens'
      BY <1>0, <1>1, <2>1 DEF Screens
    <2> QED BY <1>5, <2>1, <2>4, <2>5
  <1>8. CASE IsRequest(d) /\ ~passthroughNative
    <2>1. PICK pt \in {"getStatus", "passkeyCandidates"} : handler' = [handler EXCEPT ![d.id].at = pt]
      BY <1>2, <1>8 DEF Relay!handlePasskeyReq, IsRequest
    <2>2. UNCHANGED <<toPage, conditional, armed, pkDropdown, pkOverlay>>
      BY <1>2, <1>8 DEF Relay!handlePasskeyReq, Relay!ui, IsRequest
    <2>3. Goes(d.id) /\ handler'[d.id].at = pt
      BY <1>0, <1>3, <2>1 DEF RelayTypes, Goes
    <2>4. AskedOnce'
      <3>1. \A q \in Req : q # Head(toRelay).id \/ ~IsRequest(Head(toRelay)) => handler'[q] = handler[q]
        BY <1>2, <1>8, <2>3 DEF Goes
      <3> QED BY <1>0, <1>1, <3>1, TakenOnce
    <2>5. RelayTypes'
      BY <1>0, <1>1, <1>3, <2>2, <2>3 DEF RelayTypes, Goes
    <2>6. Screens'
      BY <1>1, <1>3, <1>4, <1>8, <2>2, <2>3, SameScreens
    <2>7. KeysAreNew'
      BY <1>0, <1>1, <1>3, <2>1, <2>3 DEF KeysAreNew, Goes
    <2>8. AnswersFit'
      BY <1>0, <1>1, <2>2, SaysKeeps DEF Says
    <2> QED BY <2>4, <2>5, <2>6, <2>7, <2>8 DEF RelayInv
  <1> QED BY <1>6, <1>7, <1>8

-----------------------------------------------------------------------------
(* The handlers of the requests *)

\* A handler that only waits for something else, or ends without a passkey.
LEMMA QuietStep ==
  ASSUME RelayInv, NEW r \in Req, Goes(r), Unasked, UNCHANGED <<stored, saved, conditional, pkOverlay>>,
         handler[r].at \notin {"none", "armed", "dialog"}, pkDropdown' \in {pkDropdown, Absent},
         handler'[r].at \notin {"none", "registered", "passkeyAssert"}, Says
  PROVE  RelayInv'
  <1>1. Screens'
    BY SameScreens DEF Unasked
  <1>2. stored' \subseteq saved' /\ saved' \subseteq saved \cup {r} /\ saved \subseteq saved'
    BY DEF RelayInv, RelayTypes
  <1> QED BY <1>1, <1>2, HandlerStep

\* A dialog is shown.
LEMMA DialogStep ==
  ASSUME RelayInv, NEW r \in Req, NEW dialog, NEW shown, Relay!Dialog(r, dialog, shown), Relay!Elsewhere,
         handler[r].at \notin {"none", "armed"}, shown # {} => inPage[r].kind # "create"
  PROVE  RelayInv'
  <1>1. Unasked /\ UNCHANGED <<stored, saved>>
    BY DEF Relay!Elsewhere, Relay!vault, Unasked
  <1>2. Goes(r) /\ handler'[r].at = "dialog" /\ toPage' = toPage /\ Screens'
    BY <1>1, DialogShows DEF Unasked
  <1>3. stored' \subseteq saved' /\ saved' \subseteq saved \cup {r} /\ saved \subseteq saved'
    BY <1>1 DEF RelayInv, RelayTypes
  <1> QED BY <1>1, <1>2, <1>3, HandlerStep DEF Says

\* A request to make or use a passkey goes on, whatever it waits for: what the
\* background answers, and that it does not.
LEMMA AnswersKeep ==
  ASSUME RelayConstants, RelayInv, NEW r \in Req, Relay!Answers(r) PROVE RelayInv'
  <1>0. RelayTypes /\ KeysAreNew /\ Screens
    BY DEF RelayInv
  <1>1. CASE Relay!handleCreate(r)
    <2>1. handler[r].at = "getStatus" /\ Relay!Elsewhere
      BY <1>1 DEF Relay!handleCreate
    <2>2. CASE Relay!Dialog(r, "locked", {})
      BY <2>1, <2>2, DialogStep
    <2>3. CASE handler' = [handler EXCEPT ![r].at = "getVaults"] /\ UNCHANGED <<toPage, Relay!ui>>
      <3>1. Goes(r) /\ handler'[r].at = "getVaults"
        BY <1>0, <2>3 DEF RelayTypes, Goes
      <3>2. Says /\ UNCHANGED <<conditional, pkOverlay, pkDropdown>>
        BY <2>3 DEF Relay!ui, Says
      <3> QED BY <2>1, <3>1, <3>2, QuietStep DEF Relay!Elsewhere, Relay!vault, Unasked
    <2> QED BY <1>1, <2>2, <2>3 DEF Relay!handleCreate
  <1>2. CASE Relay!ShowVaults(r)
    <2>1. handler[r].at = "getVaults" /\ Relay!Elsewhere
      BY <1>2 DEF Relay!ShowVaults
    <2>2. CASE Relay!Dialog(r, "create", {})
      BY <2>1, <2>2, DialogStep
    <2>3. CASE Relay!Finish(r, Relay!Answer(r, "fallbackNative")) /\ UNCHANGED Relay!ui
      <3>1. Goes(r) /\ handler'[r].at = "done" /\ Says
        BY <1>0, <2>3, FinishEmpty
      <3> QED BY <2>1, <2>3, <3>1, QuietStep DEF Relay!Elsewhere, Relay!vault, Relay!ui, Unasked
    <2> QED BY <1>2, <2>2, <2>3 DEF Relay!ShowVaults
  <1>3. CASE Relay!handleGet(r)
    <2>1. handler[r].at = "passkeyCandidates" /\ Relay!Elsewhere /\ inPage[r].kind = "get"
      BY <1>3 DEF Relay!handleGet
    <2>2. ASSUME NEW dialog, NEW shown, Relay!Dialog(r, dialog, shown) PROVE RelayInv'
      BY <2>1, <2>2, DialogStep
    <2>3. CASE Relay!Finish(r, Relay!Answer(r, "fallbackNative")) /\ UNCHANGED Relay!ui
      <3>1. Goes(r) /\ handler'[r].at = "done" /\ Says
        BY <1>0, <2>3, FinishEmpty
      <3> QED BY <2>1, <2>3, <3>1, QuietStep DEF Relay!Elsewhere, Relay!vault, Relay!ui, Unasked
    <2> QED BY <1>3, <2>2, <2>3 DEF Relay!handleGet
  <1>4. CASE Relay!handleConditional(r)
    <2>1. /\ handler[r].at = "passkeyCandidates" /\ Relay!Elsewhere /\ inPage[r].kind = "getConditional"
          /\ handler' = [handler EXCEPT ![r].at = "armed"] /\ UNCHANGED <<toPage, pkOverlay>>
      BY <1>4 DEF Relay!handleConditional
    <2>2. Goes(r) /\ handler'[r].at = "armed"
      BY <1>0, <2>1 DEF RelayTypes, Goes
    <2>3. PICK shown \in Relay!Candidates :
            /\ conditional' = [id |-> r, challenge |-> inPage[r].challenge, items |-> shown]
            /\ pkDropdown' \in {Absent} \cup ({shown} \ {{}})
      BY <1>4 DEF Relay!handleConditional
    <2>4. conditional' \in Offer /\ conditional'.id = r /\ conditional'.items = shown
      <3>1. shown \in SUBSET Credentials
        BY <1>0 DEF Relay!Candidates, RelayTypes
      <3> QED BY <1>0, <2>3, <3>1 DEF Offer, RelayTypes
    <2>5. Unasked /\ UNCHANGED <<stored, saved>>
      BY <2>1 DEF Relay!Elsewhere, Relay!vault, Unasked
    <2>6. Screens'
      <3>1. conditional' # Absent
        BY <2>4 DEF RelayConstants
      <3>2. pkDropdown' # Absent => pkDropdown' = shown
        BY <2>3
      <3>3. pkOverlay # Absent => pkOverlay.id # r
        BY <1>0, <2>1 DEF Screens
      <3> QED BY <1>0, <2>1, <2>2, <2>4, <2>5, <3>1, <3>2, <3>3 DEF Screens, Goes, Unasked
    <2>7. stored' \subseteq saved' /\ saved' \subseteq saved \cup {r} /\ saved \subseteq saved'
      BY <1>0, <2>5 DEF RelayTypes
    <2> QED BY <2>1, <2>2, <2>5, <2>6, <2>7, HandlerStep DEF Says
  <1>5. CASE Relay!passkeyRegister(r)
    <2>1. /\ handler[r].at = "passkeyRegister" /\ Unasked
          /\ UNCHANGED <<conditional, pkOverlay, pkDropdown>>
      BY <1>5 DEF Relay!passkeyRegister, Relay!ui, Unasked
    <2>2. CASE /\ Relay!Finish(r, Relay!Answer(r, IF signedOut THEN "cancelled" ELSE "excluded"))
               /\ UNCHANGED Relay!vault
      <3>1. PICK is \in {"cancelled", "excluded"} : Relay!Finish(r, Relay!Answer(r, is))
        BY <2>2
      <3>2. Goes(r) /\ handler'[r].at = "done" /\ Says
        BY <1>0, <3>1, FinishEmpty
      <3> QED BY <2>1, <2>2, <3>2, QuietStep DEF Relay!vault
    <2>3. CASE /\ stored' = {r} /\ saved' = saved \cup {r} /\ UNCHANGED toPage
               /\ handler' = [handler EXCEPT ![r].at = "registered"]
      <3>1. Goes(r) /\ handler'[r].at = "registered"
        BY <1>0, <2>3 DEF RelayTypes, Goes
      <3>2. Screens'
        BY <2>1, <3>1, SameScreens DEF Unasked
      <3> QED BY <2>1, <2>3, <3>1, <3>2, HandlerStep DEF Says
    <2> QED BY <1>5, <2>2, <2>3 DEF Relay!passkeyRegister
  <1>6. CASE Relay!Registered(r)
    <2>1. /\ handler[r].at = "registered" /\ Relay!Finish(r, Relay!Credential(r, r)) /\ Relay!Elsewhere
          /\ UNCHANGED Relay!ui
      BY <1>6 DEF Relay!Registered
    <2>2. Unasked /\ UNCHANGED <<stored, saved>> /\ UNCHANGED <<conditional, pkOverlay, pkDropdown>>
      BY <2>1 DEF Relay!Elsewhere, Relay!vault, Relay!ui, Unasked
    <2>3. r \in saved
      BY <1>0, <2>1 DEF KeysAreNew
    <2>4. Goes(r) /\ handler'[r].at = "done" /\ Says
      BY <2>1, <2>2, <2>3, FinishSigned DEF Unasked
    <2> QED BY <2>1, <2>2, <2>4, QuietStep
  <1>7. CASE Relay!passkeyAssert(r)
    <2>1. handler[r].at = "passkeyAssert" /\ Relay!Elsewhere /\ UNCHANGED Relay!ui
      BY <1>7 DEF Relay!passkeyAssert
    <2>2. Unasked /\ UNCHANGED <<stored, saved>> /\ UNCHANGED <<conditional, pkOverlay, pkDropdown>>
      BY <2>1 DEF Relay!Elsewhere, Relay!vault, Relay!ui, Unasked
    <2>3. CASE ~signedOut /\ handler[r].pick \in stored
      <3>1. handler[r].pick \in saved /\ inPage[r].kind # "create"
        BY <1>0, <2>1, <2>3 DEF KeysAreNew, RelayTypes
      <3>2. PICK c \in saved : c = handler[r].pick
        BY <3>1
      <3>3. Relay!Finish(r, Relay!Credential(r, c))
        BY <1>7, <2>3, <3>2 DEF Relay!passkeyAssert
      <3>4. Goes(r) /\ handler'[r].at = "done" /\ Says
        BY <2>1, <2>2, <3>1, <3>3, FinishSigned DEF Unasked
      <3> QED BY <2>1, <2>2, <3>4, QuietStep
    <2>4. CASE ~(~signedOut /\ handler[r].pick \in stored)
      <3>1. Relay!Finish(r, Relay!Answer(r, "error"))
        BY <1>7, <2>4 DEF Relay!passkeyAssert
      <3>2. Goes(r) /\ handler'[r].at = "done" /\ Says
        BY <1>0, <3>1, FinishEmpty
      <3> QED BY <2>1, <2>2, <3>2, QuietStep
    <2> QED BY <2>3, <2>4
  <1>8. CASE Relay!Unanswered(r)
    <2>1. handler[r].at \in {"getStatus", "passkeyCandidates"} /\ Relay!Finish(r, Relay!Answer(r, "cancelled"))
      BY <1>8 DEF Relay!Unanswered
    <2>2. Goes(r) /\ handler'[r].at = "done" /\ Says
      BY <1>0, <2>1, FinishEmpty
    <2>3. Unasked /\ UNCHANGED <<stored, saved>>
      BY <1>8 DEF Relay!Unanswered, Relay!vault, Unasked
    <2>4. UNCHANGED <<conditional, pkOverlay>> /\ pkDropdown' \in {pkDropdown, Absent}
      BY <1>8 DEF Relay!Unanswered, Relay!disarmConditional, Relay!ui
    <2> QED BY <2>1, <2>2, <2>3, <2>4, QuietStep
  <1>9. CASE Relay!UnansweredCallback(r)
    <2>1. /\ handler[r].at \in {"passkeyRegister", "registered", "passkeyAssert"}
          /\ Relay!Finish(r, Relay!Answer(r, "undefined"))
      BY <1>9 DEF Relay!UnansweredCallback
    <2>2. Goes(r) /\ handler'[r].at = "done" /\ Says
      BY <1>0, <2>1, FinishEmpty
    <2>3. Unasked /\ UNCHANGED <<stored, saved, conditional, pkOverlay, pkDropdown>>
      BY <1>9 DEF Relay!UnansweredCallback, Relay!vault, Relay!ui, Unasked
    <2> QED BY <2>1, <2>2, <2>3, QuietStep
  <1> QED BY <1>1, <1>2, <1>3, <1>4, <1>5, <1>6, <1>7, <1>8, <1>9 DEF Relay!Answers

-----------------------------------------------------------------------------
(* The user *)

\* A pick in the list goes to the request that is armed.
LEMMA PickListKeeps ==
  ASSUME RelayInv, NEW c \in saved, Relay!PickInDropdown(c) PROVE RelayInv'
  <1>0. RelayTypes /\ Screens
    BY DEF RelayInv
  <1>1. PICK r : r = conditional.id
    OBVIOUS
  <1>2. r \in Req /\ handler[r].at = "armed" /\ inPage[r].kind = "getConditional"
    BY <1>0, <1>1 DEF Screens, Relay!PickInDropdown
  <1>3. Unasked /\ UNCHANGED <<stored, saved, toPage, pkOverlay>>
    BY DEF Relay!PickInDropdown, Relay!Elsewhere, Relay!vault, Unasked
  <1>4. conditional' = Absent /\ pkDropdown' = Absent
    BY DEF Relay!PickInDropdown, Relay!disarmConditional
  <1>5. Goes(r) /\ handler'[r].at = "passkeyAssert"
    BY <1>0, <1>1, <1>2 DEF Relay!PickInDropdown, RelayTypes, Goes
  <1>6. Screens'
    BY <1>0, <1>2, <1>3, <1>4, <1>5 DEF Screens, Goes, Unasked
  <1>7. stored' \subseteq saved' /\ saved' \subseteq saved \cup {r} /\ saved \subseteq saved'
    BY <1>0, <1>3 DEF RelayTypes
  <1> QED BY <1>2, <1>3, <1>5, <1>6, <1>7, HandlerStep DEF Says

\* The dialog that is closed is that of a request that waits for it, which goes on.
LEMMA CloseKeeps ==
  ASSUME RelayInv, pkOverlay # Absent, Relay!Closed, Relay!Elsewhere, Goes(pkOverlay.id), Says,
         handler'[pkOverlay.id].at \in {"done", "passkeyRegister", "passkeyAssert"},
         handler'[pkOverlay.id].at = "passkeyAssert" => pkOverlay.items # {}
  PROVE  RelayInv'
  <1>0. RelayTypes /\ Screens
    BY DEF RelayInv
  <1>1. PICK r : r = pkOverlay.id
    OBVIOUS
  <1>2. /\ r \in Req /\ handler[r].at = "dialog" /\ Goes(r)
        /\ handler'[r].at = "passkeyAssert" => inPage[r].kind # "create"
        /\ handler'[r].at \in {"done", "passkeyRegister", "passkeyAssert"}
    BY <1>0, <1>1 DEF Screens
  <1>3. Unasked /\ UNCHANGED <<stored, saved>>
    BY DEF Relay!Elsewhere, Relay!vault, Unasked
  <1>4. pkOverlay' = Absent /\ UNCHANGED <<conditional, pkDropdown>>
    BY DEF Relay!Closed
  <1>5. Screens'
    BY <1>0, <1>2, <1>3, <1>4 DEF Screens, Goes, Unasked
  <1>6. stored' \subseteq saved' /\ saved' \subseteq saved \cup {r} /\ saved \subseteq saved'
    BY <1>0, <1>3 DEF RelayTypes
  <1> QED BY <1>2, <1>3, <1>5, <1>6, HandlerStep

\* Every step keeps the invariant.
LEMMA NextRelay == ASSUME RelayConstants PROVE RelayInv /\ [Relay!Next]_(Relay!vars) => RelayInv'
  <1> SUFFICES ASSUME RelayInv, [Relay!Next]_(Relay!vars) PROVE RelayInv'
    OBVIOUS
  <1>0. RelayTypes /\ Screens
    BY DEF RelayInv
  <1>1. ASSUME NEW answer \in {"cancelled", "fallbackNative"}, Relay!Refuse(answer) PROVE RelayInv'
    <2>1. PICK r \in Req : r = pkOverlay.id
      BY <1>0, <1>1 DEF Screens, Relay!Refuse
    <2>2. Goes(r) /\ handler'[r].at = "done" /\ Says
      BY <1>0, <1>1, <2>1, FinishEmpty DEF Relay!Refuse
    <2> QED BY <1>1, <2>1, <2>2, CloseKeeps DEF Relay!Refuse
  <1>2. ASSUME Relay!Confirm PROVE RelayInv'
    <2>1. pkOverlay.id \in Req /\ handler' = [handler EXCEPT ![pkOverlay.id].at = "passkeyRegister"]
      BY <1>0, <1>2 DEF Screens, Relay!Confirm
    <2>2. Goes(pkOverlay.id) /\ handler'[pkOverlay.id].at = "passkeyRegister"
      BY <1>0, <2>1 DEF RelayTypes, Goes
    <2> QED BY <1>2, <2>2, CloseKeeps DEF Relay!Confirm, Says
  <1>3. ASSUME NEW c \in saved, Relay!Pick(c) PROVE RelayInv'
    <2>1. pkOverlay.id \in Req /\ handler' = [handler EXCEPT ![pkOverlay.id] = [at |-> "passkeyAssert", pick |-> c]]
      BY <1>0, <1>3 DEF Screens, Relay!Pick
    <2>2. Goes(pkOverlay.id) /\ handler'[pkOverlay.id].at = "passkeyAssert"
      BY <1>0, <2>1 DEF RelayTypes, Goes
    <2> QED BY <1>3, <2>2, CloseKeeps DEF Relay!Pick, Says
  <1>4. ASSUME Relay!onConditionalFocus PROVE RelayInv'
    <2>1. /\ Unasked /\ UNCHANGED <<toPage, handler, conditional, pkOverlay, stored, saved>>
          /\ conditional # Absent /\ pkDropdown' = conditional.items
      BY <1>4 DEF Relay!onConditionalFocus, Relay!Elsewhere, Relay!vault, Unasked
    <2> QED BY <2>1, ZenonT(60) DEF RelayInv, RelayTypes, AskedOnce, Pending, Screens, KeysAreNew, AnswersFit, Fits,
                        AnswersMatch, Relay!AnswersMatch, Unasked
  <1>5. ASSUME Relay!Lock \/ UNCHANGED Relay!vars PROVE RelayInv'
    <2>1. /\ Unasked /\ UNCHANGED <<toPage, handler, conditional, pkDropdown, pkOverlay, stored, saved>>
      BY <1>5 DEF Relay!Lock, Relay!channels, Relay!ui, Relay!vars, Unasked
    <2> QED BY <2>1, ZenonT(60) DEF RelayInv, RelayTypes, AskedOnce, Pending, Screens, KeysAreNew, AnswersFit, Fits,
                        AnswersMatch, Relay!AnswersMatch, Unasked
  <1> QED BY <1>1, <1>2, <1>3, <1>4, <1>5, AskKeeps, AbortKeeps, ReceiveKeeps, InitKeeps, HandleKeeps,
             AnswersKeep, PickListKeeps
      DEF Relay!Next

\* The list is that of the request that is armed.
LEMMA ScreensShow == RelayInv => DropdownIsArmed
  BY DEF RelayInv, Screens, DropdownIsArmed, Relay!DropdownIsArmed

\* A site gets what it asked for: a passkey that was saved, for the challenge of
\* that very request (page.js, content.js and passkeyRegister in background.js).
THEOREM Answers == Relay!Spec => []AnswersMatch
  <1>1. Relay!Init => RelayInv
    BY ClientsAssumption, InitRelay
  <1>2. RelayInv /\ [Relay!Next]_(Relay!vars) => RelayInv'
    BY ClientsAssumption, NextRelay
  <1> QED BY <1>1, <1>2, PTL DEF Relay!Spec, RelayInv, AnswersFit

\* A pick in the list under a field has a request to go to (disarmConditional and
\* abortConditional in content.js).
THEOREM Dropdown == Relay!Spec => []DropdownIsArmed
  <1>1. Relay!Init => RelayInv
    BY ClientsAssumption, InitRelay
  <1>2. RelayInv /\ [Relay!Next]_(Relay!vars) => RelayInv'
    BY ClientsAssumption, NextRelay
  <1> QED BY <1>1, <1>2, ScreensShow, PTL DEF Relay!Spec

-----------------------------------------------------------------------------
(* One stream of keystream.  Byte n of what is decrypted meets byte n of   *)
(* the keystream, wherever a text begins.                                  *)

Pad(k, n) == [key |-> k, block |-> n \div StreamBlock, pos |-> n % StreamBlock]

\* The stream after n bytes.
StreamAt(k, n) ==
  [key |-> k, counter |-> (n + StreamBlock - 1) \div StreamBlock,
   pos |-> ((n + StreamBlock - 1) % StreamBlock) + 1]

StreamAfter(k, n) == IF k.id = "plain" THEN K!NewStream(k) ELSE StreamAt(k, n)

\* A text that begins at byte n.
Ciphered(k, n, t) ==
  IF k.id = "plain" THEN t ELSE [i \in DOMAIN t |-> K!Toggle(t[i], Pad(k, n + i - 1))]

Streams(k) == [key : {k}, counter : Nat, pos : Nat]
Bytes(k, G) == [c : G, pads : SUBSET [key : {k}, block : Nat, pos : Nat]]

LEMMA StreamBegins ==
  ASSUME StreamAssumption, NEW k
  PROVE  StreamAt(k, 0) = K!NewStream(k) /\ StreamAfter(k, 0) = K!NewStream(k)
  <1> PICK B \in Nat : B = StreamBlock /\ B > 0
    BY DEF StreamAssumption
  <1> PICK b \in Nat : b = B - 1
    OBVIOUS
  <1>1. b % B = b /\ b \div B = 0 /\ 0 + B - 1 = b /\ b + 1 = B
    BY Rest
  <1>2. StreamAt(k, 0) = K!NewStream(k)
    BY <1>1 DEF StreamAt, K!NewStream
  <1> QED BY <1>2 DEF StreamAfter

LEMMA StreamType ==
  ASSUME StreamAssumption, NEW k, NEW n \in Nat
  PROVE  StreamAt(k, n) \in Streams(k) /\ Pad(k, n) \in [key : {k}, block : Nat, pos : Nat]
  <1> PICK B \in Nat : B = StreamBlock /\ B > 0
    BY DEF StreamAssumption
  <1>1. n \div B \in Nat /\ n % B \in Nat
    BY Division
  <1> PICK a \in Nat : a = n + B - 1
    OBVIOUS
  <1>2. a \div B \in Nat /\ a % B \in Nat
    BY Division
  <1> QED BY <1>1, <1>2 DEF StreamAt, Pad, Streams

LEMMA ToggleTwice ==
  ASSUME NEW k, NEW G, NEW b \in Bytes(k, G), NEW n \in Nat, StreamAssumption
  PROVE  /\ K!Toggle(b, Pad(k, n)) \in Bytes(k, G)
         /\ K!Toggle(K!Toggle(b, Pad(k, n)), Pad(k, n)) = b
  <1> PICK p \in [key : {k}, block : Nat, pos : Nat] : p = Pad(k, n)
    BY StreamType
  <1>1. b.pads \in SUBSET [key : {k}, block : Nat, pos : Nat]
    BY DEF Bytes
  <1>2. CASE p \in b.pads
    <2>1. (b.pads \ {p}) \cup {p} = b.pads /\ p \notin b.pads \ {p}
      BY <1>2
    <2> QED BY <1>1, <1>2, <2>1 DEF K!Toggle, Bytes
  <1>3. CASE p \notin b.pads
    <2>1. (b.pads \cup {p}) \ {p} = b.pads /\ p \in b.pads \cup {p}
      BY <1>3
    <2> QED BY <1>1, <1>3, <2>1 DEF K!Toggle, Bytes
  <1> QED BY <1>2, <1>3

LEMMA OneByte ==
  ASSUME StreamAssumption, NEW k, NEW n \in Nat, NEW o, NEW b
  PROVE  K!XorByte([s |-> StreamAt(k, n), out |-> o], b)
           = [s |-> StreamAt(k, n + 1), out |-> Append(o, K!Toggle(b, Pad(k, n)))]
  <1> PICK B \in Nat : B = StreamBlock /\ B > 0
    BY DEF StreamAssumption
  <1> PICK c \in Nat, r \in Nat : c = n \div B /\ r = n % B /\ r < B /\ n = c * B + r
    BY Divided
  <1> PICK e \in Nat : e = c + 1
    OBVIOUS
  <1>1. e * B = c * B + B /\ e * B \in Nat /\ c * B \in Nat
    OBVIOUS
  <1>2. StreamAt(k, n + 1) = [key |-> k, counter |-> e, pos |-> r + 1]
    <2>1. (e * B + r) \div B = e /\ (e * B + r) % B = r
      BY Quotient
    <2>2. (n + 1) + B - 1 = e * B + r
      BY <1>1
    <2> QED BY <2>1, <2>2 DEF StreamAt
  <1>3. CASE r = 0
    <2> PICK b1 \in Nat : b1 = B - 1 /\ b1 < B
      OBVIOUS
    <2>1. (c * B + b1) \div B = c /\ (c * B + b1) % B = b1
      BY Quotient
    <2>2. n + B - 1 = c * B + b1
      BY <1>1, <1>3
    <2>3. StreamAt(k, n) = [key |-> k, counter |-> c, pos |-> B]
      BY <2>1, <2>2 DEF StreamAt
    <2>4. Pad(k, n) = [key |-> k, block |-> c, pos |-> 0]
      BY <1>3 DEF Pad
    <2> PICK u : u = [key |-> k, counter |-> c, pos |-> B]
      OBVIOUS
    <2>5. u.key = k /\ u.counter = c /\ u.pos = StreamBlock /\ u.counter + 1 = e /\ 0 + 1 = r + 1
      BY <1>3
    <2>6. K!XorByte([s |-> u, out |-> o], b)
            = [s |-> [key |-> u.key, counter |-> u.counter + 1, pos |-> 0 + 1],
               out |-> Append(o, K!Toggle(b, [key |-> u.key, block |-> u.counter, pos |-> 0]))]
      BY <2>5, Zenon DEF K!XorByte
    <2> QED BY <1>2, <2>3, <2>4, <2>5, <2>6, Zenon
  <1>4. CASE r # 0
    <2> PICK r1 \in Nat : r1 = r - 1 /\ r1 < B
      BY <1>4
    <2>1. (e * B + r1) \div B = e /\ (e * B + r1) % B = r1
      BY Quotient
    <2>2. n + B - 1 = e * B + r1
      BY <1>1
    <2>3. StreamAt(k, n) = [key |-> k, counter |-> e, pos |-> r] /\ r # B /\ e - 1 = c
      BY <2>1, <2>2 DEF StreamAt
    <2>4. Pad(k, n) = [key |-> k, block |-> c, pos |-> r]
      BY DEF Pad
    <2> PICK u : u = [key |-> k, counter |-> e, pos |-> r]
      OBVIOUS
    <2>5. u.key = k /\ u.counter - 1 = c /\ u.pos = r /\ u.pos # StreamBlock /\ c + 1 = e
      BY <2>3
    <2>6. K!XorByte([s |-> u, out |-> o], b)
            = [s |-> [key |-> u.key, counter |-> (u.counter - 1) + 1, pos |-> u.pos + 1],
               out |-> Append(o, K!Toggle(b, [key |-> u.key, block |-> u.counter - 1, pos |-> u.pos]))]
      BY <2>5, Zenon DEF K!XorByte
    <2> QED BY <1>2, <2>3, <2>4, <2>5, <2>6, Zenon
  <1> QED BY <1>3, <1>4

\* Up to n, f and g take the same steps from the same start.
InStep(f, g, n) ==
  /\ f[0] = g[0]
  /\ \A i \in 1..n : f[i - 1] = g[i - 1] => f[i] = g[i]

\* They agree then.
LEMMA SameSteps ==
  ASSUME NEW n \in Nat, NEW f, NEW g, InStep(f, g, n)
  PROVE  \A i \in 0..n : f[i] = g[i]
  <1> USE DEF InStep
  <1> DEFINE T == {i \in Nat : i <= n => f[i] = g[i]}
  <1>1. 0 \in T
    OBVIOUS
  <1>2. ASSUME NEW i \in Nat, i \in T PROVE i + 1 \in T
    <2> SUFFICES ASSUME i + 1 <= n PROVE f[i + 1] = g[i + 1]
      OBVIOUS
    <2> PICK j : j = i + 1
      OBVIOUS
    <2>1. j - 1 = i /\ j \in 1..n /\ f[i] = g[i]
      BY <1>2
    <2> QED BY <2>1
  <1> HIDE DEF T
  <1>3. Nat \subseteq T
    BY <1>1, <1>2, Induction
  <1> QED BY <1>3 DEF T

LEMMA CipheredType ==
  ASSUME StreamAssumption, NEW k, NEW G, NEW n \in Nat, NEW t \in Seq(Bytes(k, G))
  PROVE  /\ Ciphered(k, n, t) \in Seq(Bytes(k, G)) /\ Len(Ciphered(k, n, t)) = Len(t)
         /\ k.id # "plain" =>
              \A i \in 1..Len(t) : Ciphered(k, n, t)[i] = K!Toggle(t[i], Pad(k, n + i - 1))
  <1>1. CASE k.id = "plain"
    BY <1>1 DEF Ciphered
  <1>2. CASE k.id # "plain"
    <2> PICK L \in Nat : L = Len(t) /\ DOMAIN t = 1..L
      OBVIOUS
    <2> DEFINE e == [i \in 1..L |-> K!Toggle(t[i], Pad(k, n + i - 1))]
    <2>1. ASSUME NEW i \in 1..L PROVE e[i] \in Bytes(k, G)
      <3>1. t[i] \in Bytes(k, G) /\ n + i - 1 \in Nat
        OBVIOUS
      <3>2. K!Toggle(t[i], Pad(k, n + i - 1)) \in Bytes(k, G)
        BY <3>1, ToggleTwice
      <3> QED BY <3>2
    <2>2. Ciphered(k, n, t) = e
      BY <1>2, Zenon DEF Ciphered
    <2>3. e \in [1..L -> Bytes(k, G)]
      BY <2>1
    <2>4. \A i \in 1..L : e[i] = K!Toggle(t[i], Pad(k, n + i - 1))
      OBVIOUS
    <2> HIDE DEF e
    <2>5. e \in Seq(Bytes(k, G)) /\ Len(e) = L
      BY <2>3
    <2> QED BY <2>2, <2>4, <2>5
  <1> QED BY <1>1, <1>2

\* To decrypt what is encrypted.
LEMMA CipheredTwice ==
  ASSUME StreamAssumption, NEW k, NEW G, NEW n \in Nat, NEW t \in Seq(Bytes(k, G))
  PROVE  Ciphered(k, n, Ciphered(k, n, t)) = t
  <1> PICK u \in Seq(Bytes(k, G)) : u = Ciphered(k, n, t)
    BY CipheredType
  <1> PICK v \in Seq(Bytes(k, G)) : v = Ciphered(k, n, u)
    BY CipheredType
  <1>1. CASE k.id = "plain"
    BY <1>1 DEF Ciphered
  <1>2. CASE k.id # "plain"
    <2>1. Len(u) = Len(t) /\ Len(v) = Len(t)
      BY CipheredType
    <2>2. ASSUME NEW i \in 1..Len(t) PROVE v[i] = t[i]
      <3>1. u[i] = K!Toggle(t[i], Pad(k, n + i - 1)) /\ v[i] = K!Toggle(u[i], Pad(k, n + i - 1))
        BY <1>2, <2>1, CipheredType
      <3>2. t[i] \in Bytes(k, G) /\ n + i - 1 \in Nat
        OBVIOUS
      <3> QED BY <3>1, <3>2, ToggleTwice
    <2>3. v = t
      BY <2>1, <2>2, SeqEqual
    <2> QED BY <2>3
  <1> QED BY <1>1, <1>2

LEMMA TextIsCiphered ==
  ASSUME StreamAssumption, NEW k, NEW G, NEW n \in Nat, NEW t \in Seq(Bytes(k, G))
  PROVE  K!xor(StreamAfter(k, n), t)
           = [s |-> StreamAfter(k, n + Len(t)), out |-> Ciphered(k, n, t)]
  <1>1. CASE k.id = "plain"
    <2> PICK s : s = K!NewStream(k)
      OBVIOUS
    <2>1. s.key.id = "plain" /\ StreamAfter(k, n) = s /\ StreamAfter(k, n + Len(t)) = s /\ Ciphered(k, n, t) = t
      BY <1>1 DEF StreamAfter, Ciphered, K!NewStream
    <2>2. K!xor(s, t) = [s |-> s, out |-> t]
      BY <2>1, Zenon DEF K!xor
    <2> QED BY <2>1, <2>2
  <1>2. CASE k.id # "plain"
    <2> PICK L \in Nat : L = Len(t)
      OBVIOUS
    <2> PICK c \in Seq(Bytes(k, G)) : c = Ciphered(k, n, t) /\ Len(c) = L
      BY CipheredType
    <2> PICK s : s = StreamAt(k, n)
      OBVIOUS
    <2>1. s.key.id # "plain"
      BY <1>2 DEF StreamAt
    <2> DEFINE f == CHOOSE f : f = [i \in 0..Len(t) |->
                       IF i = 0 THEN [s |-> s, out |-> <<>>] ELSE K!XorByte(f[i - 1], t[i])]
               g == [i \in 0..L |-> [s |-> StreamAt(k, n + i), out |-> Beginning(c, i)]]
    <2>2. K!xor(s, t) = f[Len(t)]
      BY <2>1, Zenon DEF K!xor
    <2>3. ASSUME NEW i \in 0..L
          PROVE  g[i] = IF i = 0 THEN [s |-> s, out |-> <<>>] ELSE K!XorByte(g[i - 1], t[i])
      <3>1. CASE i = 0
        <4>1. n + 0 = n /\ Beginning(c, 0) = <<>>
          BY Beginnings
        <4> QED BY <3>1, <4>1
      <3>2. CASE i # 0
        <4> PICK j \in Nat : j = i - 1 /\ j \in 0..L /\ i \in 1..L
          BY <3>2
        <4>1. g[j] = [s |-> StreamAt(k, n + j), out |-> Beginning(c, j)]
          OBVIOUS
        <4>2. g[i] = [s |-> StreamAt(k, n + i), out |-> Beginning(c, i)]
          OBVIOUS
        <4> HIDE DEF g
        <4>3. n + j \in Nat /\ (n + j) + 1 = n + i /\ n + j = n + i - 1
          OBVIOUS
        <4>4. K!XorByte(g[j], t[i])
                = [s |-> StreamAt(k, n + i), out |-> Append(Beginning(c, j), K!Toggle(t[i], Pad(k, n + j)))]
          BY <4>1, <4>3, OneByte
        <4>5. c[i] = K!Toggle(t[i], Pad(k, n + j))
          BY <1>2, <4>3, CipheredType
        <4>6. Append(Beginning(c, i - 1), c[i]) = Beginning(c, i)
          <5>1. i \in 1..Len(c)
            BY <3>2
          <5>2. \A m \in 1..Len(c) :
                  /\ c[m] \in Bytes(k, G) /\ m - 1 \in 0..Len(c)
                  /\ Append(Beginning(c, m - 1), c[m]) = Beginning(c, m)
            BY Beginnings, Zenon
          <5> QED BY <5>1, <5>2
        <4> QED BY <3>2, <4>2, <4>4, <4>5, <4>6, Zenon
      <3> QED BY <3>1, <3>2
    <2>4. g = [i \in 0..Len(t) |->
                 IF i = 0 THEN [s |-> s, out |-> <<>>] ELSE K!XorByte(g[i - 1], t[i])]
      BY <2>3, Zenon
    <2>5. f = [i \in 0..Len(t) |->
                 IF i = 0 THEN [s |-> s, out |-> <<>>] ELSE K!XorByte(f[i - 1], t[i])]
      BY <2>4, Zenon
    <2>6. g[L] = [s |-> StreamAt(k, n + L), out |-> Beginning(c, L)]
      OBVIOUS
    <2> HIDE DEF f, g
    <2>7. f[0] = g[0] /\ \A i \in 1..L : f[i - 1] = g[i - 1] => f[i] = g[i]
      <3>1. ASSUME NEW i \in 0..L
            PROVE  f[i] = IF i = 0 THEN [s |-> s, out |-> <<>>] ELSE K!XorByte(f[i - 1], t[i])
        BY <2>5, Zenon
      <3>2. 0 \in 0..L /\ \A i \in 1..L : i \in 0..L /\ i # 0
        OBVIOUS
      <3> QED BY <2>3, <3>1, <3>2
    <2>8. f[L] = g[L]
      <3>1. f[0] = g[0]
        BY <2>7
      <3>2. \A i \in 1..L : f[i - 1] = g[i - 1] => f[i] = g[i]
        BY <2>7
      <3>3. \A i \in 0..L : f[i] = g[i]
        <4> PICK ff, gg : ff = f /\ gg = g
          OBVIOUS
        <4>1. InStep(ff, gg, L)
          BY <3>1, <3>2 DEF InStep
        <4>2. L \in Nat
          OBVIOUS
        <4>3. \A i \in 0..L : ff[i] = gg[i]
          BY ONLY <4>1, <4>2, SameSteps, Zenon
        <4> QED BY <4>3
      <3> QED BY <3>3
    <2>9. Beginning(c, L) = c
      BY Beginnings
    <2>10. K!xor(s, t) = [s |-> StreamAt(k, n + L), out |-> c]
      BY <2>2, <2>6, <2>8, <2>9
    <2>11. StreamAfter(k, n) = s /\ StreamAfter(k, n + L) = StreamAt(k, n + L)
      BY <1>2 DEF StreamAfter
    <2> QED BY <2>10, <2>11
  <1> QED BY <1>1, <1>2

-----------------------------------------------------------------------------
(* A document that is encrypted value by value is read as it was: the      *)
(* reader meets the protected values in the order they were written in.    *)

Offsets(es, M, b) ==
  /\ b \in [0..Len(es) -> Nat] /\ b[0] = 0
  /\ \A i \in 1..Len(es) : b[i] = b[i - 1] + (IF i \in M THEN Len(es[i].text) ELSE 0)

\* What is encrypted at these places is text.
Turns(k, G, es, M, b) ==
  Offsets(es, M, b) /\ \A i \in 1..Len(es) : i \in M => es[i].text \in Seq(Bytes(k, G))

InTurn(k, es, M, b) ==
  [i \in 1..Len(es) |-> IF i \in M THEN [es[i] EXCEPT !.text = Ciphered(k, b[i - 1], es[i].text)]
                        ELSE es[i]]

Protections(doc) == {i \in DOMAIN doc : doc[i].protected}

LEMMA OffsetsExist ==
  ASSUME NEW S, NEW es \in Seq(S), NEW M, \A i \in 1..Len(es) : i \in M => Len(es[i].text) \in Nat
  PROVE  \E b : Offsets(es, M, b)
  <1> PICK n \in Nat : n = Len(es)
    OBVIOUS
  <1> DEFINE w(i) == IF i \in M THEN Len(es[i].text) ELSE 0
             H == [i \in 1..n |-> [p \in Nat |-> p + w(i)]]
  <1>1. \A i \in 1..n : w(i) \in Nat
    OBVIOUS
  <1> HIDE DEF w
  <1>2. H \in [1..n -> [Nat -> Nat]]
    BY <1>1
  <1>3. \A i \in 1..n, p \in Nat : H[i][p] = p + w(i)
    OBVIOUS
  <1> PICK HH : HH = H
    OBVIOUS
  <1> HIDE DEF H
  <1>4. PICK b : Recursive(b, n, Nat, 0, HH)
    <2>1. HH \in [1..n -> [Nat -> Nat]] /\ 0 \in Nat
      BY <1>2
    <2> QED BY <2>1, Recursion
  <1>5. b \in [0..n -> Nat] /\ b[0] = 0 /\ \A i \in 1..n : b[i] = HH[i][b[i - 1]]
    BY <1>4 DEF Recursive
  <1>6. ASSUME NEW i \in 1..n PROVE b[i] = b[i - 1] + w(i)
    <2>1. i - 1 \in 0..n
      OBVIOUS
    <2>2. b[i - 1] \in Nat
      BY <1>5, <2>1
    <2> QED BY <1>3, <1>5, <2>2
  <1> USE DEF w
  <1> QED BY <1>5, <1>6 DEF Offsets

LEMMA InTurnType ==
  ASSUME NEW S, NEW es \in Seq(S), NEW k, NEW M, NEW b, NEW out, out = InTurn(k, es, M, b)
  PROVE  \E R : /\ out \in Seq(R) /\ Len(out) = Len(es)
                /\ \A i \in 1..Len(es) : out[i] = IF i \in M
                     THEN [es[i] EXCEPT !.text = Ciphered(k, b[i - 1], es[i].text)] ELSE es[i]
  <1> PICK n \in Nat : n = Len(es)
    OBVIOUS
  <1> DEFINE e(i) == IF i \in M THEN [es[i] EXCEPT !.text = Ciphered(k, b[i - 1], es[i].text)]
                     ELSE es[i]
  <1>1. out = [i \in 1..n |-> e(i)]
    BY DEF InTurn
  <1> HIDE DEF e
  <1>2. out \in [1..n -> {e(i) : i \in 1..n}] /\ \A i \in 1..n : out[i] = e(i)
    BY <1>1
  <1>3. out \in Seq({e(i) : i \in 1..n}) /\ Len(out) = n
    BY <1>2
  <1> QED BY <1>2, <1>3 DEF e

\* What the reader decrypts, and what the writer encrypts.
LEMMA UnprotectedInTurn ==
  ASSUME StreamAssumption, NEW k, NEW G, NEW S, NEW es \in Seq(S), NEW M, NEW b,
         Turns(k, G, es, M, b)
  PROVE  K!Unprotected(es, K!NewStream(k), M) = InTurn(k, es, M, b)
  <1> PICK n \in Nat : n = Len(es)
    OBVIOUS
  <1> PICK out : out = InTurn(k, es, M, b)
    OBVIOUS
  <1> PICK init : init = [s |-> K!NewStream(k), out |-> <<>>]
    OBVIOUS
  <1> DEFINE F(h, i) ==
               LET p == h[i - 1]
                   r == K!xor(p.s, es[i].text)
               IN IF i \in M THEN [s |-> r.s, out |-> Append(p.out, [es[i] EXCEPT !.text = r.out])]
                  ELSE [s |-> p.s, out |-> Append(p.out, es[i])]
             f == CHOOSE f : f = [i \in 0..Len(es) |-> IF i = 0 THEN init ELSE F(f, i)]
             g == [i \in 0..n |-> [s |-> StreamAfter(k, b[i]), out |-> Beginning(out, i)]]
  <1>1. K!Unprotected(es, K!NewStream(k), M) = f[Len(es)].out
    BY Zenon DEF K!Unprotected
  <1>2. ASSUME NEW i \in 1..n PROVE g[i] = F(g, i)
    <2>1. g[i - 1] = [s |-> StreamAfter(k, b[i - 1]), out |-> Beginning(out, i - 1)]
      <3>1. i - 1 \in 0..n
        OBVIOUS
      <3> QED BY <3>1
    <2>2. g[i] = [s |-> StreamAfter(k, b[i]), out |-> Beginning(out, i)]
      <3>1. i \in 0..n
        OBVIOUS
      <3> QED BY <3>1
    <2> PICK p : p = g[i - 1]
      OBVIOUS
    <2> HIDE DEF g
    <2> PICK r : r = K!xor(p.s, es[i].text)
      OBVIOUS
    <2>3. i \in 1..Len(es)
      OBVIOUS
    <2>4. [s |-> StreamAfter(k, b[i]), out |-> Beginning(out, i)]
            = IF i \in M THEN [s |-> r.s, out |-> Append(p.out, [es[i] EXCEPT !.text = r.out])]
              ELSE [s |-> p.s, out |-> Append(p.out, es[i])]
      <3>1. PICK R : /\ out \in Seq(R) /\ Len(out) = Len(es)
                     /\ \A j \in 1..Len(es) : out[j] = IF j \in M
                          THEN [es[j] EXCEPT !.text = Ciphered(k, b[j - 1], es[j].text)] ELSE es[j]
        BY InTurnType
      <3>2. Append(Beginning(out, i - 1), out[i]) = Beginning(out, i)
        <4>1. \A m \in 1..Len(out) :
                /\ out[m] \in R /\ m - 1 \in 0..Len(out)
                /\ Append(Beginning(out, m - 1), out[m]) = Beginning(out, m)
          BY <3>1, Beginnings, Zenon
        <4>2. i \in 1..Len(out)
          BY <3>1
        <4> QED BY <4>1, <4>2
      <3>3. p.s = StreamAfter(k, b[i - 1]) /\ p.out = Beginning(out, i - 1)
        BY <2>1
      <3> PICK a : a = b[i - 1]
        OBVIOUS
      <3>4. a \in Nat /\ b[i] = a + (IF i \in M THEN Len(es[i].text) ELSE 0)
        <4>1. i - 1 \in 0..Len(es)
          OBVIOUS
        <4> QED BY <4>1 DEF Offsets, Turns
      <3>5. CASE i \in M
        <4> PICK t \in Seq(Bytes(k, G)) : t = es[i].text
          BY <3>5 DEF Turns
        <4>1. r = [s |-> StreamAfter(k, a + Len(t)), out |-> Ciphered(k, a, t)]
          <5>1. r = K!xor(StreamAfter(k, a), t)
            BY <3>3
          <5>2. K!xor(StreamAfter(k, a), t)
                  = [s |-> StreamAfter(k, a + Len(t)), out |-> Ciphered(k, a, t)]
            BY <3>4, TextIsCiphered
          <5> QED BY <5>1, <5>2, Zenon
        <4>2. r.s = StreamAfter(k, b[i]) /\ r.out = Ciphered(k, a, t)
          BY <3>4, <3>5, <4>1
        <4>3. out[i] = [es[i] EXCEPT !.text = r.out]
          BY <3>1, <3>5, <4>2
        <4> QED BY <3>2, <3>3, <3>5, <4>2, <4>3
      <3>6. CASE i \notin M
        <4>1. b[i] = a
          BY <3>4, <3>6
        <4>2. out[i] = es[i]
          BY <3>1, <3>6, Zenon
        <4> QED BY <3>2, <3>3, <3>6, <4>1, <4>2, Zenon
      <3> QED BY <3>5, <3>6
    <2> QED BY <2>2, <2>4, Zenon
  <1>3. g[0] = init
    <2>1. b[0] = 0 /\ StreamAfter(k, 0) = K!NewStream(k)
      BY StreamBegins DEF Offsets, Turns
    <2>2. Beginning(out, 0) = <<>>
      BY DEF Beginning
    <2> QED BY <2>1, <2>2
  <1>4. g[n].out = out
    <2>1. g[n] = [s |-> StreamAfter(k, b[n]), out |-> Beginning(out, n)]
      OBVIOUS
    <2>2. PICK R : out \in Seq(R) /\ Len(out) = n
      BY InTurnType
    <2>3. Beginning(out, n) = out
      BY <2>2, Beginnings
    <2> QED BY <2>1, <2>3
  <1> HIDE DEF F
  <1>5. g = [i \in 0..Len(es) |-> IF i = 0 THEN init ELSE F(g, i)]
    <2>1. \A i \in 0..n : g[i] = IF i = 0 THEN init ELSE F(g, i)
      <3>1. \A i \in 0..n : i # 0 => i \in 1..n
        OBVIOUS
      <3> HIDE DEF g
      <3> QED BY <1>2, <1>3, <3>1
    <2> QED BY <2>1, Zenon
  <1>6. f = [i \in 0..Len(es) |-> IF i = 0 THEN init ELSE F(f, i)]
    BY <1>5, Zenon
  <1> HIDE DEF f, g
  <1> PICK ff, gg : ff = f /\ gg = g
    OBVIOUS
  <1>7. ff[0] = gg[0] /\ \A i \in 1..n : ff[i - 1] = gg[i - 1] => ff[i] = gg[i]
    <2>1. \A i \in 0..n : f[i] = IF i = 0 THEN init ELSE F(f, i)
      BY <1>6, Zenon
    <2>2. 0 \in 0..n /\ \A i \in 1..n : i \in 0..n /\ i # 0
      OBVIOUS
    <2>3. f[0] = g[0]
      BY <1>3, <2>1, <2>2
    <2>4. ASSUME NEW i \in 1..n, f[i - 1] = g[i - 1] PROVE f[i] = g[i]
      <3>1. f[i] = F(f, i) /\ g[i] = F(g, i)
        BY <1>2, <2>1, <2>2
      <3>2. F(f, i) = F(g, i)
        BY <2>4, Zenon DEF F
      <3> QED BY <3>1, <3>2
    <2> QED BY <2>3, <2>4
  <1>8. ff[n] = gg[n]
    <2>1. ff[0] = gg[0]
      BY <1>7
    <2>2. \A i \in 1..n : ff[i - 1] = gg[i - 1] => ff[i] = gg[i]
      BY <1>7
    <2>3. InStep(ff, gg, n)
      BY ONLY <2>1, <2>2 DEF InStep
    <2>4. \A i \in 0..n : ff[i] = gg[i]
      BY ONLY <2>3, n \in Nat, SameSteps, Zenon
    <2> QED BY <2>4
  <1> QED BY <1>1, <1>4, <1>8

LEMMA SealedInTurn ==
  ASSUME StreamAssumption, NEW k, NEW G, NEW S, NEW doc \in Seq(S), NEW b,
         Turns(k, G, doc, Protections(doc), b)
  PROVE  K!Sealed(doc, K!NewStream(k)) = InTurn(k, doc, Protections(doc), b)
  <1> PICK M : M = Protections(doc)
    OBVIOUS
  <1>1. \A i \in 1..Len(doc) : i \in M <=> doc[i].protected
    BY DEF Protections
  <1>2. K!Sealed(doc, K!NewStream(k)) = K!Unprotected(doc, K!NewStream(k), M)
    <2> PICK s : s = K!NewStream(k)
      OBVIOUS
    <2> PICK init : init = [s |-> s, out |-> <<>>]
      OBVIOUS
    <2> DEFINE Fs(h, i) ==
                 LET p == h[i - 1]
                     r == K!xor(p.s, doc[i].text)
                 IN IF doc[i].protected
                    THEN [s |-> r.s, out |-> Append(p.out, [doc[i] EXCEPT !.text = r.out])]
                    ELSE [s |-> p.s, out |-> Append(p.out, doc[i])]
               Fu(h, i) ==
                 LET p == h[i - 1]
                     r == K!xor(p.s, doc[i].text)
                 IN IF i \in M
                    THEN [s |-> r.s, out |-> Append(p.out, [doc[i] EXCEPT !.text = r.out])]
                    ELSE [s |-> p.s, out |-> Append(p.out, doc[i])]
    <2>1. K!Sealed(doc, s)
            = (CHOOSE f : f = [i \in 0..Len(doc) |-> IF i = 0 THEN init ELSE Fs(f, i)])[Len(doc)].out
      BY Zenon DEF K!Sealed
    <2>2. K!Unprotected(doc, s, M)
            = (CHOOSE f : f = [i \in 0..Len(doc) |-> IF i = 0 THEN init ELSE Fu(f, i)])[Len(doc)].out
      BY Zenon DEF K!Unprotected
    <2>3. \A h : \A i \in 0..Len(doc) : i # 0 => Fs(h, i) = Fu(h, i)
      <3> SUFFICES ASSUME NEW h, NEW i \in 0..Len(doc), i # 0 PROVE Fs(h, i) = Fu(h, i)
        OBVIOUS
      <3>1. i \in 1..Len(doc)
        OBVIOUS
      <3>2. i \in M <=> doc[i].protected
        BY <1>1, <3>1
      <3> QED BY <3>2, Zenon
    <2> HIDE DEF Fs, Fu
    <2>4. \A h : [i \in 0..Len(doc) |-> IF i = 0 THEN init ELSE Fs(h, i)]
                  = [i \in 0..Len(doc) |-> IF i = 0 THEN init ELSE Fu(h, i)]
      BY <2>3
    <2>5. (CHOOSE f : f = [i \in 0..Len(doc) |-> IF i = 0 THEN init ELSE Fs(f, i)])
            = (CHOOSE f : f = [i \in 0..Len(doc) |-> IF i = 0 THEN init ELSE Fu(f, i)])
      BY <2>4, Zenon
    <2> QED BY <2>1, <2>2, <2>5, Zenon
  <1>3. K!Unprotected(doc, K!NewStream(k), Protections(doc)) = InTurn(k, doc, Protections(doc), b)
    BY UnprotectedInTurn, SMT
  <1> QED BY <1>2, <1>3

\* Documents, and the elements they are parsed to.
Tokens(V, X) == [kind : {"open", "close", "leaf"}, tag : V, text : X, protected : BOOLEAN]
XmlElements(V, X) == [tag : V, up : Nat, text : X, protected : BOOLEAN]
ParseStates(V, X) == [stack : Seq(Nat) \ {<<>>}, els : Seq(XmlElements(V, X))]

Parses(doc, V, X, f) ==
  /\ f \in [0..Len(doc) -> ParseStates(V, X)]
  /\ f[0] = [stack |-> <<0>>, els |-> <<>>]
  /\ \A i \in 1..Len(doc) : f[i] = K!XmlToken(f[i - 1], doc[i])

LEMMA LastFront ==
  ASSUME NEW s \in Seq(Nat) \ {<<>>}
  PROVE  /\ K!Last(s) \in Nat
         /\ Len(s) > 1 => K!Front(s) \in Seq(Nat) \ {<<>>}
  <1>1. Len(s) \in Nat /\ Len(s) > 0
    OBVIOUS
  <1>2. K!Last(s) \in Nat
    BY <1>1 DEF K!Last
  <1>3. ASSUME Len(s) > 1 PROVE K!Front(s) \in Seq(Nat) \ {<<>>}
    <2> PICK u : u = SubSeq(s, 1, Len(s) - 1)
      OBVIOUS
    <2>1. u \in Seq(Nat) /\ Len(u) = Len(s) - 1
      BY <1>1, <1>3
    <2>2. u # <<>>
      <3>1. Len(<<>>) = 0 /\ Len(u) # 0
        BY <1>1, <1>3, <2>1
      <3> QED BY <3>1
    <2> QED BY <2>1, <2>2 DEF K!Front
  <1> QED BY <1>2, <1>3

Placed(p, t) ==
  [tag |-> t.tag, up |-> K!Last(p.stack), text |-> t.text, protected |-> t.protected]

TokenTaken(p, t) ==
  /\ t.kind = "open" => K!XmlToken(p, t)
       = [stack |-> Append(p.stack, Len(p.els) + 1), els |-> Append(p.els, Placed(p, t))]
  /\ t.kind = "leaf" => K!XmlToken(p, t)
       = [stack |-> p.stack, els |-> Append(p.els, Placed(p, t))]
  /\ t.kind = "close" => K!XmlToken(p, t)
       = [stack |-> IF Len(p.stack) > 1 THEN K!Front(p.stack) ELSE p.stack, els |-> p.els]

LEMMA TokenStep ==
  ASSUME NEW V, NEW X, NEW p \in ParseStates(V, X), NEW t \in Tokens(V, X)
  PROVE  /\ K!XmlToken(p, t) \in ParseStates(V, X) /\ Placed(p, t) \in XmlElements(V, X)
         /\ TokenTaken(p, t)
  <1> PICK e : e = [tag |-> t.tag, up |-> K!Last(p.stack), text |-> t.text, protected |-> t.protected]
    OBVIOUS
  <1>8. e = Placed(p, t)
    BY DEF Placed
  <1>1. /\ p.stack \in Seq(Nat) \ {<<>>} /\ p.els \in Seq(XmlElements(V, X))
        /\ t.kind \in {"open", "close", "leaf"} /\ t.tag \in V /\ t.text \in X /\ t.protected \in BOOLEAN
    BY DEF ParseStates, Tokens
  <1>2. K!Last(p.stack) \in Nat
    BY <1>1, LastFront
  <1>3. e \in XmlElements(V, X)
    BY <1>1, <1>2 DEF XmlElements
  <1> PICK stack \in Seq(Nat) \ {<<>>} : stack = p.stack
    BY <1>1
  <1> PICK els \in Seq(XmlElements(V, X)) : els = p.els
    BY <1>1
  <1>4. Append(els, e) \in Seq(XmlElements(V, X))
    BY <1>3
  <1>5. ASSUME t.kind = "open"
        PROVE  K!XmlToken(p, t) \in ParseStates(V, X) /\ TokenTaken(p, t)
    <2>1. K!XmlToken(p, t) = [stack |-> Append(stack, Len(els) + 1), els |-> Append(els, e)]
      BY <1>5 DEF K!XmlToken
    <2>2. Append(stack, Len(els) + 1) \in Seq(Nat) \ {<<>>}
      OBVIOUS
    <2>3. K!XmlToken(p, t) \in ParseStates(V, X)
      BY <1>4, <2>1, <2>2 DEF ParseStates
    <2>4. TokenTaken(p, t)
      BY <1>5, <1>8, <2>1 DEF TokenTaken
    <2> QED BY <2>3, <2>4
  <1>6. ASSUME t.kind = "leaf"
        PROVE  K!XmlToken(p, t) \in ParseStates(V, X) /\ TokenTaken(p, t)
    <2>1. K!XmlToken(p, t) = [stack |-> stack, els |-> Append(els, e)]
      BY <1>6 DEF K!XmlToken
    <2>2. K!XmlToken(p, t) \in ParseStates(V, X)
      BY <1>4, <2>1 DEF ParseStates
    <2>3. TokenTaken(p, t)
      BY <1>6, <1>8, <2>1 DEF TokenTaken
    <2> QED BY <2>2, <2>3
  <1>7. ASSUME t.kind = "close"
        PROVE  K!XmlToken(p, t) \in ParseStates(V, X) /\ TokenTaken(p, t)
    <2>1. K!XmlToken(p, t) = [stack |-> IF Len(stack) > 1 THEN K!Front(stack) ELSE stack, els |-> els]
      BY <1>7 DEF K!XmlToken
    <2>2. (IF Len(stack) > 1 THEN K!Front(stack) ELSE stack) \in Seq(Nat) \ {<<>>}
      BY LastFront
    <2>3. K!XmlToken(p, t) \in ParseStates(V, X)
      BY <2>1, <2>2 DEF ParseStates
    <2>4. TokenTaken(p, t)
      BY <1>7, <1>8, <2>1 DEF TokenTaken
    <2> QED BY <2>3, <2>4
  <1>9. Placed(p, t) \in XmlElements(V, X)
    BY <1>3, <1>8
  <1> QED BY <1>1, <1>5, <1>6, <1>7, <1>9

LEMMA ParseExists ==
  ASSUME NEW V, NEW X, NEW doc \in Seq(Tokens(V, X))
  PROVE  \E f : Parses(doc, V, X, f) /\ K!parseXml(doc) = f[Len(doc)].els
  <1> PICK n \in Nat : n = Len(doc)
    OBVIOUS
  <1> PICK D : D = ParseStates(V, X)
    OBVIOUS
  <1> PICK a : a = [stack |-> <<0>>, els |-> <<>>]
    OBVIOUS
  <1>1. a \in D
    <2>1. <<0>> \in Seq(Nat) \ {<<>>} /\ <<>> \in Seq(XmlElements(V, X))
      OBVIOUS
    <2> QED BY <2>1 DEF ParseStates
  <1> DEFINE H == [i \in 1..n |-> [p \in D |-> K!XmlToken(p, doc[i])]]
  <1>2. \A i \in 1..n, p \in D : K!XmlToken(p, doc[i]) \in D
    <2> SUFFICES ASSUME NEW i \in 1..n, NEW p \in D PROVE K!XmlToken(p, doc[i]) \in D
      OBVIOUS
    <2>1. doc[i] \in Tokens(V, X)
      OBVIOUS
    <2> QED BY <2>1, TokenStep
  <1>3. H \in [1..n -> [D -> D]]
    BY <1>2
  <1>4. \A i \in 1..n, p \in D : H[i][p] = K!XmlToken(p, doc[i])
    OBVIOUS
  <1> PICK HH : HH = H
    OBVIOUS
  <1> HIDE DEF H
  <1>5. PICK g : Recursive(g, n, D, a, HH)
    <2>1. HH \in [1..n -> [D -> D]]
      BY <1>3
    <2> QED BY <1>1, <2>1, Recursion
  <1>6. g \in [0..n -> D] /\ g[0] = a /\ \A i \in 1..n : g[i] = K!XmlToken(g[i - 1], doc[i])
    <2>1. g \in [0..n -> D] /\ g[0] = a /\ \A i \in 1..n : g[i] = HH[i][g[i - 1]]
      BY <1>5 DEF Recursive
    <2>2. ASSUME NEW i \in 1..n PROVE g[i] = K!XmlToken(g[i - 1], doc[i])
      <3>1. i - 1 \in 0..n
        OBVIOUS
      <3>2. g[i - 1] \in D
        BY <2>1, <3>1
      <3> QED BY <1>4, <2>1, <3>2
    <2> QED BY <2>1, <2>2
  <1> DEFINE f == CHOOSE f : f = [i \in 0..Len(doc) |->
                     IF i = 0 THEN a ELSE K!XmlToken(f[i - 1], doc[i])]
  <1>7. K!parseXml(doc) = f[Len(doc)].els
    BY Zenon DEF K!parseXml
  <1>8. g = [i \in 0..Len(doc) |-> IF i = 0 THEN a ELSE K!XmlToken(g[i - 1], doc[i])]
    <2>1. \A i \in 0..n : g[i] = IF i = 0 THEN a ELSE K!XmlToken(g[i - 1], doc[i])
      <3>1. \A i \in 0..n : i # 0 => i \in 1..n
        OBVIOUS
      <3> QED BY <1>6, <3>1
    <2> QED BY <1>6, <2>1
  <1>9. f = [i \in 0..Len(doc) |-> IF i = 0 THEN a ELSE K!XmlToken(f[i - 1], doc[i])]
    BY <1>8, Zenon
  <1> HIDE DEF f
  <1> PICK ff : ff = f
    OBVIOUS
  <1>10. ff[n] = g[n]
    <2>1. \A i \in 0..n : ff[i] = IF i = 0 THEN a ELSE K!XmlToken(ff[i - 1], doc[i])
      BY <1>9, Zenon
    <2>2. 0 \in 0..n /\ \A i \in 1..n : i \in 0..n /\ i # 0
      OBVIOUS
    <2>3. ff[0] = g[0]
      BY <1>6, <2>1, <2>2
    <2>4. \A i \in 1..n : ff[i - 1] = g[i - 1] => ff[i] = g[i]
      BY <1>6, <2>1, <2>2
    <2>5. InStep(ff, g, n)
      BY ONLY <2>3, <2>4 DEF InStep
    <2>6. \A i \in 0..n : ff[i] = g[i]
      BY ONLY <2>5, n \in Nat, SameSteps, Zenon
    <2> QED BY <2>6
  <1> QED BY <1>6, <1>7, <1>10 DEF Parses

\* What is protected in a document is the value of a field.
Regular(k, G, doc) ==
  \A i \in 1..Len(doc) : doc[i].protected =>
    doc[i].kind = "leaf" /\ doc[i].tag = "Value" /\ doc[i].text \in Seq(Bytes(k, G))

\* es is decrypted to out with the first n bytes of the keystream.
Decrypted(k, G, es, out, n) ==
  \E b : /\ Turns(k, G, es, K!Protected(es), b) /\ b[Len(es)] = n
         /\ out = InTurn(k, es, K!Protected(es), b)

LEMMA DecryptedMore ==
  ASSUME NEW k, NEW G, NEW S, NEW es \in Seq(S), NEW x \in S, NEW out, NEW n,
         Decrypted(k, G, es, out, n),
         NEW P \in BOOLEAN, P <=> x.tag = "Value" /\ x.protected, P => x.text \in Seq(Bytes(k, G)),
         NEW y, y = IF P THEN [x EXCEPT !.text = Ciphered(k, n, x.text)] ELSE x
  PROVE  /\ n \in Nat
         /\ Decrypted(k, G, Append(es, x), Append(out, y), n + (IF P THEN Len(x.text) ELSE 0))
  <1> PICK m \in Nat : m = Len(es)
    OBVIOUS
  <1> PICK M : M = K!Protected(es)
    OBVIOUS
  <1>1. PICK b : Turns(k, G, es, M, b) /\ b[m] = n /\ out = InTurn(k, es, M, b)
    BY DEF Decrypted
  <1>2. /\ b \in [0..m -> Nat] /\ b[0] = 0
        /\ \A i \in 1..m : b[i] = b[i - 1] + (IF i \in M THEN Len(es[i].text) ELSE 0)
        /\ \A i \in 1..m : i \in M => es[i].text \in Seq(Bytes(k, G))
    BY <1>1 DEF Turns, Offsets
  <1>3. n \in Nat
    BY <1>1, <1>2
  <1> PICK l : l = IF P THEN Len(x.text) ELSE 0
    OBVIOUS
  <1>4. l \in Nat
    <2>1. CASE P
      <3> PICK tx \in Seq(Bytes(k, G)) : tx = x.text
        BY <2>1
      <3> QED BY <2>1
    <2>2. CASE ~P
      BY <2>2
    <2> QED BY <2>1, <2>2
  <1> PICK ms : ms = Append(es, x)
    OBVIOUS
  <1>5. /\ ms \in Seq(S) /\ Len(ms) = m + 1 /\ ms[m + 1] = x /\ \A i \in 1..m : ms[i] = es[i]
    OBVIOUS
  <1> PICK N : N = K!Protected(ms)
    OBVIOUS
  <1>6. /\ \A i \in 1..m : i \in N <=> i \in M
        /\ m + 1 \in N <=> P
    <2>1. DOMAIN es = 1..m /\ DOMAIN ms = 1..m + 1
      BY <1>5
    <2>2. \A i \in 1..m : i \in 1..m + 1
      OBVIOUS
    <2>3. m + 1 \in 1..m + 1
      OBVIOUS
    <2> QED BY <1>5, <2>1, <2>2, <2>3 DEF K!Protected
  <1> PICK c : c = [i \in 0..m + 1 |-> IF i = m + 1 THEN n + l ELSE b[i]]
    OBVIOUS
  <1>7. c \in [0..m + 1 -> Nat] /\ c[m + 1] = n + l /\ \A i \in 0..m : c[i] = b[i]
    <2>1. n + l \in Nat
      BY <1>3, <1>4
    <2>2. \A i \in 0..m + 1 : i # m + 1 => i \in 0..m
      OBVIOUS
    <2> QED BY <1>2, <2>1, <2>2
  <1>8. ASSUME NEW i \in 1..m + 1
        PROVE  /\ c[i] = c[i - 1] + (IF i \in N THEN Len(ms[i].text) ELSE 0)
               /\ i \in N => ms[i].text \in Seq(Bytes(k, G))
    <2>1. CASE i = m + 1
      <3>1. c[i] = n + l /\ c[i - 1] = n /\ ms[i] = x /\ (i \in N <=> P)
        <4>1. i - 1 = m /\ m \in 0..m
          BY <2>1
        <4> QED BY <1>1, <1>5, <1>6, <1>7, <2>1, <4>1
      <3>2. l = IF i \in N THEN Len(ms[i].text) ELSE 0
        BY <3>1
      <3> QED BY <3>1, <3>2
    <2>2. CASE i # m + 1
      <3>1. i \in 1..m /\ i \in 0..m /\ i - 1 \in 0..m
        BY <2>2
      <3>2. c[i] = b[i] /\ c[i - 1] = b[i - 1] /\ ms[i] = es[i] /\ (i \in N <=> i \in M)
        BY <1>5, <1>6, <1>7, <3>1
      <3> QED BY <1>2, <3>1, <3>2
    <2> QED BY <2>1, <2>2
  <1>9. Turns(k, G, ms, N, c)
    <2>1. c[0] = 0
      BY <1>2, <1>7
    <2> QED BY <1>5, <1>7, <1>8, <2>1 DEF Turns, Offsets
  <1>10. Append(out, y) = InTurn(k, ms, N, c)
    <2>1. PICK R : /\ out \in Seq(R) /\ Len(out) = m
                   /\ \A i \in 1..m : out[i] = IF i \in M
                        THEN [es[i] EXCEPT !.text = Ciphered(k, b[i - 1], es[i].text)] ELSE es[i]
      BY <1>1, InTurnType
    <2>2. Append(out, y) = [i \in 1..m + 1 |-> IF i = m + 1 THEN y ELSE out[i]]
      BY <2>1
    <2>3. ASSUME NEW i \in 1..m + 1
          PROVE  (IF i = m + 1 THEN y ELSE out[i])
                   = IF i \in N THEN [ms[i] EXCEPT !.text = Ciphered(k, c[i - 1], ms[i].text)] ELSE ms[i]
      <3>1. CASE i = m + 1
        <4>1. c[i - 1] = n /\ ms[i] = x /\ (i \in N <=> P)
          <5>1. i - 1 = m /\ m \in 0..m
            BY <3>1
          <5> QED BY <1>1, <1>5, <1>6, <1>7, <3>1, <5>1
        <4> QED BY <3>1, <4>1, Zenon
      <3>2. CASE i # m + 1
        <4>1. i \in 1..m /\ i - 1 \in 0..m
          BY <3>2
        <4>2. c[i - 1] = b[i - 1] /\ ms[i] = es[i] /\ (i \in N <=> i \in M)
          BY <1>5, <1>6, <1>7, <4>1
        <4>3. out[i] = IF i \in M
                THEN [es[i] EXCEPT !.text = Ciphered(k, b[i - 1], es[i].text)] ELSE es[i]
          BY <2>1, <4>1
        <4> QED BY <3>2, <4>2, <4>3, Zenon
      <3> QED BY <3>1, <3>2
    <2>4. InTurn(k, ms, N, c)
            = [i \in 1..m + 1 |-> IF i \in N THEN [ms[i] EXCEPT !.text = Ciphered(k, c[i - 1], ms[i].text)]
                                  ELSE ms[i]]
      BY <1>5, Zenon DEF InTurn
    <2> DEFINE gg(i) == IF i = m + 1 THEN y ELSE out[i]
               hh(i) == IF i \in N THEN [ms[i] EXCEPT !.text = Ciphered(k, c[i - 1], ms[i].text)]
                        ELSE ms[i]
    <2>5. \A i \in 1..m + 1 : gg(i) = hh(i)
      BY <2>3, Zenon
    <2>6. Append(out, y) = [i \in 1..m + 1 |-> gg(i)] /\ InTurn(k, ms, N, c) = [i \in 1..m + 1 |-> hh(i)]
      BY <2>2, <2>4, Zenon
    <2> HIDE DEF gg, hh
    <2> QED BY <2>5, <2>6
  <1>11. c[Len(ms)] = n + l
    BY <1>5, <1>7
  <1>12. Decrypted(k, G, ms, Append(out, y), n + l)
    BY <1>9, <1>10, <1>11 DEF Decrypted
  <1> QED BY <1>3, <1>12

LEMMA NothingDecrypted ==
  ASSUME NEW k, NEW G
  PROVE  Decrypted(k, G, <<>>, <<>>, 0)
  <1> PICK b : b = [i \in 0..0 |-> 0]
    OBVIOUS
  <1> PICK M : M = K!Protected(<<>>)
    OBVIOUS
  <1>1. b \in [0..0 -> Nat] /\ b[0] = 0
    OBVIOUS
  <1>2. Len(<<>>) = 0 /\ \A i \in 1..0 : FALSE
    OBVIOUS
  <1>3. Turns(k, G, <<>>, M, b)
    BY <1>1, <1>2 DEF Turns, Offsets
  <1>4. InTurn(k, <<>>, M, b) = <<>>
    BY DEF InTurn
  <1> QED BY <1>1, <1>2, <1>3, <1>4 DEF Decrypted

LEMMA EncryptedTokens ==
  ASSUME StreamAssumption, NEW k, NEW G, NEW V, NEW X, Seq(Bytes(k, G)) \subseteq X,
         NEW d \in Seq(Tokens(V, X)), NEW b, Turns(k, G, d, Protections(d), b),
         NEW e, e = InTurn(k, d, Protections(d), b)
  PROVE  /\ e \in Seq(Tokens(V, X)) /\ Len(e) = Len(d)
         /\ \A i \in 1..Len(d) :
              /\ e[i].kind = d[i].kind /\ e[i].tag = d[i].tag /\ e[i].protected = d[i].protected
              /\ e[i].text = IF d[i].protected THEN Ciphered(k, b[i - 1], d[i].text) ELSE d[i].text
  <1> PICK n \in Nat : n = Len(d) /\ DOMAIN d = 1..n
    OBVIOUS
  <1>1. /\ Len(e) = n /\ e = [i \in 1..n |-> e[i]]
        /\ \A i \in 1..n : e[i] = IF i \in Protections(d)
             THEN [d[i] EXCEPT !.text = Ciphered(k, b[i - 1], d[i].text)] ELSE d[i]
    <2>1. PICK R : /\ e \in Seq(R) /\ Len(e) = Len(d)
                   /\ \A i \in 1..Len(d) : e[i] = IF i \in Protections(d)
                        THEN [d[i] EXCEPT !.text = Ciphered(k, b[i - 1], d[i].text)] ELSE d[i]
      BY InTurnType
    <2> QED BY <2>1
  <1>2. ASSUME NEW i \in 1..n
        PROVE  /\ e[i] \in Tokens(V, X)
               /\ e[i].kind = d[i].kind /\ e[i].tag = d[i].tag /\ e[i].protected = d[i].protected
               /\ e[i].text = IF d[i].protected THEN Ciphered(k, b[i - 1], d[i].text) ELSE d[i].text
    <2> PICK t \in Tokens(V, X) : t = d[i]
      OBVIOUS
    <2>1. i \in Protections(d) <=> t.protected
      BY DEF Protections
    <2>2. CASE t.protected
      <3>1. i \in Protections(d) /\ b[i - 1] \in Nat
        <4>1. i - 1 \in 0..n
          OBVIOUS
        <4> QED BY <2>1, <2>2, <4>1 DEF Turns, Offsets
      <3>2. t.text \in Seq(Bytes(k, G))
        BY <3>1 DEF Turns
      <3> PICK u \in X : u = Ciphered(k, b[i - 1], t.text)
        BY <3>1, <3>2, CipheredType
      <3>3. e[i] = [t EXCEPT !.text = u]
        BY <1>1, <3>1
      <3> QED BY <2>2, <3>3 DEF Tokens
    <2>3. CASE ~t.protected
      <3>1. e[i] = t
        BY <1>1, <2>1, <2>3
      <3> QED BY <2>3, <3>1
    <2> QED BY <2>2, <2>3
  <1>3. e \in [1..n -> Tokens(V, X)]
    BY <1>1, <1>2
  <1> QED BY <1>1, <1>2, <1>3

LEMMA EncryptedIsRead ==
  ASSUME StreamAssumption, NEW k, NEW G, NEW V, NEW X, Seq(Bytes(k, G)) \subseteq X,
         NEW d \in Seq(Tokens(V, X)), Regular(k, G, d), NEW b, Turns(k, G, d, Protections(d), b),
         NEW e, e = InTurn(k, d, Protections(d), b)
  PROVE  K!unprotectAll(K!parseXml(e), K!NewStream(k)) = K!parseXml(d)
  <1> PICK n \in Nat : n = Len(d) /\ DOMAIN d = 1..n
    OBVIOUS
  <1>1. /\ e \in Seq(Tokens(V, X)) /\ Len(e) = n
        /\ \A i \in 1..n :
             /\ e[i].kind = d[i].kind /\ e[i].tag = d[i].tag /\ e[i].protected = d[i].protected
             /\ e[i].text = IF d[i].protected THEN Ciphered(k, b[i - 1], d[i].text) ELSE d[i].text
    BY EncryptedTokens
  <1>2. PICK f : Parses(d, V, X, f) /\ K!parseXml(d) = f[n].els
    BY ParseExists
  <1>3. PICK h : Parses(e, V, X, h) /\ K!parseXml(e) = h[n].els
    BY <1>1, ParseExists
  <1>4. /\ f \in [0..n -> ParseStates(V, X)] /\ f[0] = [stack |-> <<0>>, els |-> <<>>]
        /\ \A i \in 1..n : f[i] = K!XmlToken(f[i - 1], d[i])
    BY <1>2 DEF Parses
  <1>5. /\ h \in [0..n -> ParseStates(V, X)] /\ h[0] = [stack |-> <<0>>, els |-> <<>>]
        /\ \A i \in 1..n : h[i] = K!XmlToken(h[i - 1], e[i])
    BY <1>1, <1>3 DEF Parses
  <1>6. /\ b \in [0..n -> Nat] /\ b[0] = 0
        /\ \A i \in 1..n : b[i] = b[i - 1] + (IF d[i].protected THEN Len(d[i].text) ELSE 0)
    <2>1. \A i \in 1..n : i \in Protections(d) <=> d[i].protected
      BY DEF Protections
    <2> QED BY <2>1 DEF Turns, Offsets
  <1> DEFINE T == {i \in Nat : i <= n =>
                     f[i].stack = h[i].stack /\ Decrypted(k, G, h[i].els, f[i].els, b[i])}
  <1>7. 0 \in T
    BY <1>4, <1>5, <1>6, NothingDecrypted
  <1>8. ASSUME NEW i \in Nat, i \in T PROVE i + 1 \in T
    <2> SUFFICES ASSUME i + 1 <= n
                 PROVE  f[i + 1].stack = h[i + 1].stack /\ Decrypted(k, G, h[i + 1].els, f[i + 1].els, b[i + 1])
      OBVIOUS
    <2> PICK j : j = i + 1
      OBVIOUS
    <2>1. j - 1 = i /\ j \in 1..n /\ i \in 0..n /\ f[i].stack = h[i].stack
          /\ Decrypted(k, G, h[i].els, f[i].els, b[i])
      BY <1>8
    <2> PICK t \in Tokens(V, X) : t = d[j]
      BY <2>1
    <2> PICK u \in Tokens(V, X) : u = e[j]
      BY <1>1, <2>1
    <2> PICK p \in ParseStates(V, X) : p = f[i]
      BY <1>4, <2>1
    <2> PICK q \in ParseStates(V, X) : q = h[i]
      BY <1>5, <2>1
    <2>2. /\ u.kind = t.kind /\ u.tag = t.tag /\ u.protected = t.protected
          /\ u.text = IF t.protected THEN Ciphered(k, b[i], t.text) ELSE t.text
      BY <1>1, <2>1
    <2>3. f[j] = K!XmlToken(p, t) /\ h[j] = K!XmlToken(q, u) /\ p.stack = q.stack
          /\ b[j] = b[i] + (IF t.protected THEN Len(t.text) ELSE 0)
      BY <1>4, <1>5, <1>6, <2>1
    <2>4. t.protected => t.kind = "leaf" /\ t.tag = "Value" /\ t.text \in Seq(Bytes(k, G))
      BY <2>1 DEF Regular
    <2> PICK x : x = Placed(q, u)
      OBVIOUS
    <2> PICK y : y = Placed(p, t)
      OBVIOUS
    <2>17. /\ x = [tag |-> u.tag, up |-> K!Last(q.stack), text |-> u.text, protected |-> u.protected]
           /\ y = [tag |-> t.tag, up |-> K!Last(p.stack), text |-> t.text, protected |-> t.protected]
      BY DEF Placed
    <2>5. x \in XmlElements(V, X) /\ y \in XmlElements(V, X)
      BY TokenStep
    <2>15. /\ u.kind = "open" => K!XmlToken(q, u)
               = [stack |-> Append(q.stack, Len(q.els) + 1), els |-> Append(q.els, x)]
           /\ u.kind = "leaf" => K!XmlToken(q, u) = [stack |-> q.stack, els |-> Append(q.els, x)]
           /\ u.kind = "close" => K!XmlToken(q, u)
               = [stack |-> IF Len(q.stack) > 1 THEN K!Front(q.stack) ELSE q.stack, els |-> q.els]
      <3>1. TokenTaken(q, u)
        BY TokenStep
      <3> QED BY <3>1, Zenon DEF TokenTaken
    <2>16. /\ t.kind = "open" => K!XmlToken(p, t)
               = [stack |-> Append(p.stack, Len(p.els) + 1), els |-> Append(p.els, y)]
           /\ t.kind = "leaf" => K!XmlToken(p, t) = [stack |-> p.stack, els |-> Append(p.els, y)]
           /\ t.kind = "close" => K!XmlToken(p, t)
               = [stack |-> IF Len(p.stack) > 1 THEN K!Front(p.stack) ELSE p.stack, els |-> p.els]
      <3>1. TokenTaken(p, t)
        BY TokenStep
      <3> QED BY <3>1, Zenon DEF TokenTaken
    <2>6. /\ q.els \in Seq(XmlElements(V, X)) /\ p.els \in Seq(XmlElements(V, X))
          /\ Decrypted(k, G, q.els, p.els, b[i]) /\ b[i] \in Nat
      BY <1>6, <2>1 DEF ParseStates
    <2>7. /\ t.protected \in BOOLEAN /\ t.kind \in {"open", "close", "leaf"}
          /\ (t.protected <=> x.tag = "Value" /\ x.protected)
      BY <2>2, <2>4, <2>17 DEF Tokens
    <2>8. t.protected => x.text \in Seq(Bytes(k, G)) /\ Ciphered(k, b[i], x.text) = t.text
                         /\ Len(x.text) = Len(t.text)
      <3> SUFFICES ASSUME t.protected
                   PROVE  x.text \in Seq(Bytes(k, G)) /\ Ciphered(k, b[i], x.text) = t.text
                            /\ Len(x.text) = Len(t.text)
        OBVIOUS
      <3> PICK nn \in Nat : nn = b[i]
        BY <2>6
      <3> PICK tx \in Seq(Bytes(k, G)) : tx = t.text
        BY <2>4
      <3>1. x.text = Ciphered(k, nn, tx)
        BY <2>2, <2>17
      <3>2. Ciphered(k, nn, tx) \in Seq(Bytes(k, G)) /\ Len(Ciphered(k, nn, tx)) = Len(tx)
        BY CipheredType
      <3>3. Ciphered(k, nn, Ciphered(k, nn, tx)) = tx
        BY CipheredTwice
      <3> QED BY <3>1, <3>2, <3>3
    <2>9. y = IF t.protected THEN [x EXCEPT !.text = Ciphered(k, b[i], x.text)] ELSE x
      <3>1. CASE t.protected
        <4>1. y = [x EXCEPT !.text = t.text]
          BY <2>2, <2>3, <2>5, <2>17 DEF XmlElements
        <4> QED BY <2>8, <3>1, <4>1
      <3>2. CASE ~t.protected
        <4>1. u.text = t.text
          BY <2>2, <3>2
        <4> QED BY <2>2, <2>3, <2>17, <3>2, <4>1
      <3> QED BY <3>1, <3>2
    <2>10. Decrypted(k, G, Append(q.els, x), Append(p.els, y),
                     b[i] + (IF t.protected THEN Len(x.text) ELSE 0))
      <3> PICK P \in BOOLEAN : P = t.protected
        BY <2>7
      <3>1. /\ P <=> x.tag = "Value" /\ x.protected
            /\ P => x.text \in Seq(Bytes(k, G))
            /\ y = IF P THEN [x EXCEPT !.text = Ciphered(k, b[i], x.text)] ELSE x
        BY <2>7, <2>8, <2>9
      <3> PICK S : S = XmlElements(V, X)
        OBVIOUS
      <3> PICK es \in Seq(S) : es = q.els
        BY <2>6
      <3> PICK xx \in S : xx = x
        BY <2>5
      <3> PICK out, nn : out = p.els /\ nn = b[i]
        OBVIOUS
      <3>2. /\ Decrypted(k, G, es, out, nn) /\ (P <=> xx.tag = "Value" /\ xx.protected)
            /\ (P => xx.text \in Seq(Bytes(k, G)))
            /\ y = IF P THEN [xx EXCEPT !.text = Ciphered(k, nn, xx.text)] ELSE xx
        BY <2>6, <3>1
      <3>3. Decrypted(k, G, Append(es, xx), Append(out, y), nn + (IF P THEN Len(xx.text) ELSE 0))
        BY ONLY <3>2, DecryptedMore, es \in Seq(S), xx \in S, P \in BOOLEAN
      <3> QED BY <3>3
    <2>11. b[j] = b[i] + (IF t.protected THEN Len(x.text) ELSE 0)
      BY <2>3, <2>8
    <2>12. CASE t.kind = "open"
      <3>1. /\ h[j] = [stack |-> Append(q.stack, Len(q.els) + 1), els |-> Append(q.els, x)]
            /\ f[j] = [stack |-> Append(p.stack, Len(p.els) + 1), els |-> Append(p.els, y)]
        BY <2>2, <2>3, <2>12, <2>15, <2>16, Zenon
      <3>2. Len(q.els) = Len(p.els)
        <4>1. PICK c : p.els = InTurn(k, q.els, K!Protected(q.els), c)
          BY <2>6 DEF Decrypted
        <4> QED BY <2>6, <4>1, InTurnType
      <3> QED BY <2>3, <2>10, <2>11, <3>1, <3>2
    <2>13. CASE t.kind = "leaf"
      <3>1. /\ h[j] = [stack |-> q.stack, els |-> Append(q.els, x)]
            /\ f[j] = [stack |-> p.stack, els |-> Append(p.els, y)]
        BY <2>2, <2>3, <2>13, <2>15, <2>16, Zenon
      <3> QED BY <2>3, <2>10, <2>11, <3>1
    <2>14. CASE t.kind = "close"
      <3>1. /\ h[j] = [stack |-> IF Len(q.stack) > 1 THEN K!Front(q.stack) ELSE q.stack, els |-> q.els]
            /\ f[j] = [stack |-> IF Len(p.stack) > 1 THEN K!Front(p.stack) ELSE p.stack, els |-> p.els]
        BY <2>2, <2>3, <2>14, <2>15, <2>16, Zenon
      <3>2. b[j] = b[i]
        BY <2>3, <2>4, <2>6, <2>14
      <3> QED BY <2>3, <2>6, <3>1, <3>2
    <2> QED BY <2>7, <2>12, <2>13, <2>14
  <1> HIDE DEF T
  <1>9. n \in T
    BY <1>7, <1>8, Induction
  <1>10. Decrypted(k, G, h[n].els, f[n].els, b[n])
    BY <1>9 DEF T
  <1>11. PICK c : /\ Turns(k, G, h[n].els, K!Protected(h[n].els), c)
                  /\ f[n].els = InTurn(k, h[n].els, K!Protected(h[n].els), c)
    BY <1>10 DEF Decrypted
  <1>12. h[n].els \in Seq(XmlElements(V, X))
    <2>1. n \in 0..n
      OBVIOUS
    <2>2. h[n] \in ParseStates(V, X)
      BY <1>5, <2>1
    <2> QED BY <2>2 DEF ParseStates
  <1> PICK es \in Seq(XmlElements(V, X)) : es = h[n].els
    BY <1>12
  <1>13. K!Unprotected(es, K!NewStream(k), K!Protected(es)) = InTurn(k, es, K!Protected(es), c)
    <2>1. Turns(k, G, es, K!Protected(es), c)
      BY <1>11
    <2> QED BY <2>1, UnprotectedInTurn, SMT
  <1> QED BY <1>2, <1>3, <1>11, <1>13 DEF K!unprotectAll

\* What another program encrypts by the offsets of the document.
LEMMA SealedByOffsetInTurn ==
  ASSUME NEW k, NEW S, NEW doc \in Seq(S), NEW b, Offsets(doc, Protections(doc), b)
  PROVE  /\ k.id # "plain" => K!SealedByOffset(doc, k) = InTurn(k, doc, Protections(doc), b)
         /\ k.id = "plain" => K!SealedByOffset(doc, k) = doc
  <1> PICK n \in Nat : n = Len(doc)
    OBVIOUS
  <1>0. DOMAIN doc = 1..n /\ \A i \in 1..n : i \in Protections(doc) <=> doc[i].protected
    BY DEF Protections
  <1>1. /\ b \in [0..n -> Nat] /\ b[0] = 0
        /\ \A i \in 1..n : b[i] = b[i - 1] + (IF doc[i].protected THEN Len(doc[i].text) ELSE 0)
    BY <1>0 DEF Offsets
  <1> DEFINE before == CHOOSE f : f = [i \in 0..Len(doc) |->
                         IF i = 0 THEN 0
                         ELSE f[i - 1] + (IF doc[i].protected THEN Len(doc[i].text) ELSE 0)]
  <1>2. K!SealedByOffset(doc, k)
          = [i \in DOMAIN doc |->
               IF doc[i].protected /\ k.id # "plain"
               THEN [doc[i] EXCEPT !.text = [j \in DOMAIN doc[i].text |->
                       K!Toggle(doc[i].text[j], Pad(k, before[i - 1] + j - 1))]]
               ELSE doc[i]]
    BY Zenon DEF K!SealedByOffset, Pad
  <1>3. b = [i \in 0..Len(doc) |->
               IF i = 0 THEN 0
               ELSE b[i - 1] + (IF doc[i].protected THEN Len(doc[i].text) ELSE 0)]
    <2>1. \A i \in 0..n : b[i] = IF i = 0 THEN 0
             ELSE b[i - 1] + (IF doc[i].protected THEN Len(doc[i].text) ELSE 0)
      <3>1. \A i \in 0..n : i # 0 => i \in 1..n
        OBVIOUS
      <3> QED BY <1>1, <3>1
    <2> QED BY <1>1, <2>1
  <1>4. before = [i \in 0..Len(doc) |->
               IF i = 0 THEN 0
               ELSE before[i - 1] + (IF doc[i].protected THEN Len(doc[i].text) ELSE 0)]
    BY <1>3, Zenon
  <1> HIDE DEF before
  <1> PICK c : c = before
    OBVIOUS
  <1>5. \A i \in 0..n : c[i] = b[i]
    <2>1. \A i \in 0..n : c[i] = IF i = 0 THEN 0
             ELSE c[i - 1] + (IF doc[i].protected THEN Len(doc[i].text) ELSE 0)
      BY <1>4, Zenon
    <2>2. 0 \in 0..n /\ \A i \in 1..n : i \in 0..n /\ i # 0
      OBVIOUS
    <2>3. c[0] = b[0]
      BY <1>1, <2>1, <2>2
    <2>4. \A i \in 1..n : c[i - 1] = b[i - 1] => c[i] = b[i]
      BY <1>1, <2>1, <2>2
    <2>5. InStep(c, b, n)
      BY ONLY <2>3, <2>4 DEF InStep
    <2> QED BY ONLY <2>5, n \in Nat, SameSteps, Zenon
  <1>6. CASE k.id # "plain"
    <2> DEFINE x(i) == IF doc[i].protected /\ k.id # "plain"
                       THEN [doc[i] EXCEPT !.text = [j \in DOMAIN doc[i].text |->
                               K!Toggle(doc[i].text[j], Pad(k, before[i - 1] + j - 1))]]
                       ELSE doc[i]
               y(i) == IF i \in Protections(doc)
                       THEN [doc[i] EXCEPT !.text = Ciphered(k, b[i - 1], doc[i].text)]
                       ELSE doc[i]
    <2>1. ASSUME NEW i \in 1..n PROVE x(i) = y(i)
      <3>1. CASE doc[i].protected
        <4>1. i - 1 \in 0..n
          OBVIOUS
        <4>2. before[i - 1] = b[i - 1]
          BY <1>5, <4>1
        <4>3. Ciphered(k, b[i - 1], doc[i].text)
                = [j \in DOMAIN doc[i].text |-> K!Toggle(doc[i].text[j], Pad(k, b[i - 1] + j - 1))]
          BY <1>6, Zenon DEF Ciphered
        <4>4. x(i) = [doc[i] EXCEPT !.text = Ciphered(k, b[i - 1], doc[i].text)]
          BY <1>6, <3>1, <4>2, <4>3, Zenon
        <4> QED BY <1>0, <3>1, <4>4, Zenon
      <3>2. CASE ~doc[i].protected
        BY <1>0, <3>2, Zenon
      <3> QED BY <3>1, <3>2
    <2>2. K!SealedByOffset(doc, k) = [i \in DOMAIN doc |-> x(i)]
      BY <1>2, Zenon
    <2>3. InTurn(k, doc, Protections(doc), b) = [i \in 1..Len(doc) |-> y(i)]
      BY Zenon DEF InTurn
    <2> HIDE DEF x, y
    <2> QED BY <1>0, <1>6, <2>1, <2>2, <2>3
  <1>7. CASE k.id = "plain"
    <2>1. K!SealedByOffset(doc, k) = [i \in DOMAIN doc |-> doc[i]]
      BY <1>2, <1>7, Zenon
    <2> QED BY <1>7, <2>1
  <1> QED BY <1>6, <1>7

\* Nothing changes a text that is not encrypted.
LEMMA PlainInTurn ==
  ASSUME NEW k, k.id = "plain", NEW V, NEW X, NEW doc \in Seq(Tokens(V, X)), NEW b
  PROVE  InTurn(k, doc, Protections(doc), b) = doc
  <1> PICK n \in Nat : n = Len(doc) /\ DOMAIN doc = 1..n
    OBVIOUS
  <1> DEFINE y(i) == IF i \in Protections(doc)
                     THEN [doc[i] EXCEPT !.text = Ciphered(k, b[i - 1], doc[i].text)]
                     ELSE doc[i]
  <1>1. ASSUME NEW i \in 1..n PROVE y(i) = doc[i]
    <2>1. Ciphered(k, b[i - 1], doc[i].text) = doc[i].text
      BY DEF Ciphered
    <2> PICK t \in Tokens(V, X) : t = doc[i]
      OBVIOUS
    <2>2. [t EXCEPT !.text = t.text] = t
      BY DEF Tokens
    <2> QED BY <2>1, <2>2
  <1>2. InTurn(k, doc, Protections(doc), b) = [i \in 1..Len(doc) |-> y(i)]
    BY Zenon DEF InTurn
  <1> HIDE DEF y
  <1> QED BY <1>1, <1>2

\* One way or the other, what is written is read.
LEMMA SealedIsRead ==
  ASSUME StreamAssumption, NEW k, NEW G, NEW V, NEW X, Seq(Bytes(k, G)) \subseteq X,
         NEW d \in Seq(Tokens(V, X)), Regular(k, G, d)
  PROVE  /\ K!unprotectAll(K!parseXml(K!Sealed(d, K!NewStream(k))), K!NewStream(k)) = K!parseXml(d)
         /\ K!unprotectAll(K!parseXml(K!SealedByOffset(d, k)), K!NewStream(k)) = K!parseXml(d)
  <1> PICK n \in Nat : n = Len(d) /\ DOMAIN d = 1..n
    OBVIOUS
  <1>1. \A i \in 1..n : i \in Protections(d) => d[i].text \in Seq(Bytes(k, G))
    BY DEF Protections, Regular
  <1>2. PICK b : Offsets(d, Protections(d), b)
    <2>1. \A i \in 1..n : i \in Protections(d) => Len(d[i].text) \in Nat
      BY <1>1
    <2> QED BY <2>1, OffsetsExist
  <1>3. Turns(k, G, d, Protections(d), b)
    BY <1>1, <1>2 DEF Turns
  <1> PICK e : e = InTurn(k, d, Protections(d), b)
    OBVIOUS
  <1>4. K!unprotectAll(K!parseXml(e), K!NewStream(k)) = K!parseXml(d)
    BY <1>3, EncryptedIsRead
  <1>5. K!Sealed(d, K!NewStream(k)) = e
    BY <1>3, SealedInTurn
  <1>6. K!SealedByOffset(d, k) = e
    <2>1. CASE k.id # "plain"
      BY <1>2, <2>1, SealedByOffsetInTurn
    <2>2. CASE k.id = "plain"
      BY <1>2, <2>2, SealedByOffsetInTurn, PlainInTurn
    <2> QED BY <2>1, <2>2
  <1> QED BY <1>4, <1>5, <1>6

-----------------------------------------------------------------------------
(* What is written is such a document: only values of fields are protected, *)
(* and these are texts.                                                    *)

Document(d) ==
  /\ IsSeq(d)
  /\ \A i \in DOMAIN d :
       /\ d[i] = [kind |-> d[i].kind, tag |-> d[i].tag, text |-> d[i].text, protected |-> d[i].protected]
       /\ d[i].kind \in {"open", "close", "leaf"} /\ d[i].protected \in BOOLEAN
       /\ d[i].protected => d[i].kind = "leaf" /\ d[i].tag = "Value" /\ Secret(d[i].text)

\* Properties of all members make a sequence of these, whatever they are.
LEMMA IsSeqOf ==
  ASSUME NEW S, NEW s \in Seq(S)
  PROVE  IsSeq(s) /\ DOMAIN s = 1..Len(s) /\ Len(s) \in Nat
  <1>1. s \in [1..Len(s) -> {s[i] : i \in DOMAIN s}] /\ Len(s) \in Nat
    OBVIOUS
  <1> QED BY <1>1 DEF IsSeq

Joined(s, t) ==
  /\ IsSeq(s \o t)
  /\ \A i \in DOMAIN (s \o t) : (\E j \in DOMAIN s : (s \o t)[i] = s[j])
                                \/ (\E j \in DOMAIN t : (s \o t)[i] = t[j])

LEMMA JoinOf ==
  ASSUME NEW s, NEW t, IsSeq(s), IsSeq(t)
  PROVE  Joined(s, t)
  <1> DEFINE S == {s[i] : i \in DOMAIN s} \cup {t[i] : i \in DOMAIN t}
  <1>1. s \in Seq(S) /\ t \in Seq(S)
    <2> PICK A1, B1 : A1 = {s[i] : i \in DOMAIN s} /\ B1 = {t[i] : i \in DOMAIN t}
      OBVIOUS
    <2>1. s \in Seq(A1) /\ t \in Seq(B1)
      BY DEF IsSeq
    <2>2. s \in Seq(A1 \cup B1) /\ t \in Seq(A1 \cup B1)
      BY <2>1
    <2> QED BY <2>2
  <1> HIDE DEF S
  <1>2. s \o t \in Seq(S)
    BY <1>1
  <1>3. IsSeq(s \o t)
    BY <1>2, IsSeqOf
  <1>4. ASSUME NEW i \in DOMAIN (s \o t)
        PROVE  (\E j \in DOMAIN s : (s \o t)[i] = s[j]) \/ (\E j \in DOMAIN t : (s \o t)[i] = t[j])
    <2> PICK a \in Nat, b \in Nat : a = Len(s) /\ b = Len(t)
      BY <1>1
    <2>1. i \in 1..a + b /\ DOMAIN s = 1..a /\ DOMAIN t = 1..b
      BY <1>1
    <2>2. CASE i <= a
      <3>1. i \in 1..a /\ (s \o t)[i] = s[i]
        BY <1>1, <2>1, <2>2
      <3> QED BY <2>1, <3>1
    <2>3. CASE i > a
      <3>1. i - a \in 1..b /\ (s \o t)[i] = t[i - a]
        BY <1>1, <2>1, <2>3
      <3> QED BY <2>1, <3>1
    <2> QED BY <2>1, <2>2, <2>3
  <1> QED BY <1>3, <1>4 DEF Joined

LEMMA DocumentsJoin ==
  ASSUME NEW d, NEW e, Document(d), Document(e)
  PROVE  Document(d \o e)
  <1> DEFINE Good(t) ==
        /\ t = [kind |-> t.kind, tag |-> t.tag, text |-> t.text, protected |-> t.protected]
        /\ t.kind \in {"open", "close", "leaf"} /\ t.protected \in BOOLEAN
        /\ t.protected => t.kind = "leaf" /\ t.tag = "Value" /\ Secret(t.text)
  <1>1. IsSeq(d) /\ IsSeq(e) /\ (\A i \in DOMAIN d : Good(d[i])) /\ (\A i \in DOMAIN e : Good(e[i]))
    BY Zenon DEF Document
  <1> HIDE DEF Good
  <1>2. IsSeq(d \o e) /\ \A i \in DOMAIN (d \o e) : Good((d \o e)[i])
    <2> PICK f : f = d \o e
      OBVIOUS
    <2>1. IsSeq(f) /\ \A i \in DOMAIN f : (\E j \in DOMAIN d : f[i] = d[j]) \/ (\E j \in DOMAIN e : f[i] = e[j])
      BY <1>1, JoinOf DEF Joined
    <2> QED BY <1>1, <2>1
  <1> QED BY <1>2, Zenon DEF Document, Good

\* Every sequence of documents, put together.
LEMMA FlatIsSum ==
  ASSUME NEW S, NEW ss \in Seq(Seq(S)), NEW g, Sums(g, ss, S)
  PROVE  \A k \in 0..Len(ss) : \A i \in DOMAIN g[k] :
           \E p \in 1..Len(ss) : \E j \in DOMAIN ss[p] : g[k][i] = ss[p][j]
  <1> PICK n \in Nat : n = Len(ss)
    OBVIOUS
  <1>1. /\ g \in [0..n -> Seq(S)] /\ g[0] = <<>>
        /\ \A i \in 1..n : g[i] = g[i - 1] \o ss[i]
    BY DEF Sums
  <1> DEFINE From(s) == \A i \in DOMAIN s : \E p \in 1..n : \E j \in DOMAIN ss[p] : s[i] = ss[p][j]
             T == {k \in Nat : k <= n => From(g[k])}
  <1>2. 0 \in T
    <2>1. From(<<>>)
      OBVIOUS
    <2> QED BY <1>1, <2>1
  <1>3. ASSUME NEW k \in Nat, k \in T PROVE k + 1 \in T
    <2> SUFFICES ASSUME k + 1 <= n PROVE From(g[k + 1])
      OBVIOUS
    <2> PICK q : q = k + 1
      OBVIOUS
    <2>1. q - 1 = k /\ q \in 1..n /\ k \in 0..n
      OBVIOUS
    <2> PICK s, t, u : s = g[k] /\ t = ss[q] /\ u = s \o t
      OBVIOUS
    <2>2. s \in Seq(S) /\ t \in Seq(S)
      <3>1. g[k] \in Seq(S)
        BY <1>1, <2>1
      <3>2. ss[q] \in Seq(S)
        BY <2>1
      <3> QED BY <3>1, <3>2
    <2>3. From(s)
      BY <1>3, <2>1
    <2>4. IsSeq(s) /\ IsSeq(t)
      BY <2>2, IsSeqOf
    <2>5. \A i \in DOMAIN u : (\E j \in DOMAIN s : u[i] = s[j]) \/ (\E j \in DOMAIN t : u[i] = t[j])
      <3>1. Joined(s, t)
        BY <2>4, JoinOf, Zenon
      <3>2. u = s \o t
        OBVIOUS
      <3> QED BY ONLY <3>1, <3>2, Zenon DEF Joined
    <2>6. ASSUME NEW i \in DOMAIN u PROVE \E p \in 1..n : \E j \in DOMAIN ss[p] : u[i] = ss[p][j]
      <3>1. CASE \E j \in DOMAIN s : u[i] = s[j]
        <4>1. PICK h \in DOMAIN s : u[i] = s[h]
          BY <3>1
        <4>2. PICK p \in 1..n : \E j \in DOMAIN ss[p] : s[h] = ss[p][j]
          BY <2>3, <4>1
        <4>3. PICK j \in DOMAIN ss[p] : s[h] = ss[p][j]
          BY <4>2
        <4>4. u[i] = ss[p][j]
          BY <4>1, <4>3
        <4> QED BY <4>4, Zenon
      <3>2. CASE \E j \in DOMAIN t : u[i] = t[j]
        <4>1. PICK j \in DOMAIN t : u[i] = t[j]
          BY <3>2
        <4>2. q \in 1..n /\ j \in DOMAIN ss[q] /\ u[i] = ss[q][j]
          BY <2>1, <4>1
        <4> QED BY <4>2, Zenon
      <3> QED BY <2>5, <3>1, <3>2
    <2>7. From(u)
      BY <2>6, Zenon
    <2>8. g[k + 1] = u
      BY <1>1, <2>1
    <2> HIDE DEF From
    <2> QED BY <2>7, <2>8
  <1> HIDE DEF T
  <1>4. \A k \in Nat : k \in T
    BY <1>2, <1>3, Induction
  <1> USE DEF T
  <1> QED BY <1>4

LEMMA KFlat ==
  ASSUME NEW ss
  PROVE  K!FlattenSeq(ss) = FlattenSeq(ss)
  BY Zenon DEF K!FlattenSeq, FlattenSeq

LEMMA FlatDocument ==
  ASSUME NEW ss, IsSeq(ss), \A i \in DOMAIN ss : Document(ss[i])
  PROVE  Document(K!FlattenSeq(ss))
  <1> DEFINE Good(t) ==
        /\ t = [kind |-> t.kind, tag |-> t.tag, text |-> t.text, protected |-> t.protected]
        /\ t.kind \in {"open", "close", "leaf"} /\ t.protected \in BOOLEAN
        /\ t.protected => t.kind = "leaf" /\ t.tag = "Value" /\ Secret(t.text)
  <1>1. \A p \in DOMAIN ss : IsSeq(ss[p]) /\ \A i \in DOMAIN ss[p] : Good(ss[p][i])
    BY Zenon DEF Document
  <1> HIDE DEF Good
  <1> DEFINE S == UNION {{ss[p][i] : i \in DOMAIN ss[p]} : p \in DOMAIN ss}
  <1>2. ss \in Seq(Seq(S))
    <2>1. ASSUME NEW p \in DOMAIN ss PROVE ss[p] \in Seq(S)
      <3> PICK R : R = {ss[p][i] : i \in DOMAIN ss[p]}
        OBVIOUS
      <3>1. ss[p] \in Seq(R)
        BY <1>1 DEF IsSeq
      <3>2. R \subseteq S
        OBVIOUS
      <3> HIDE DEF S
      <3> QED BY <3>1, <3>2
    <2> HIDE DEF S
    <2> PICK R : R = {ss[i] : i \in DOMAIN ss}
      OBVIOUS
    <2>2. ss \in Seq(R)
      BY DEF IsSeq
    <2>3. R \subseteq Seq(S)
      BY <2>1
    <2> QED BY <2>2, <2>3
  <1> HIDE DEF S
  <1> PICK n \in Nat : n = Len(ss) /\ DOMAIN ss = 1..n
    BY <1>2
  <1>3. PICK g : Sums(g, ss, S) /\ FlattenSeq(ss) = g[n]
    BY <1>2, SumsExist
  <1> PICK flat : flat = FlattenSeq(ss)
    OBVIOUS
  <1>4. flat \in Seq(S)
    BY <1>2, FlattenType
  <1>5. IsSeq(flat)
    BY <1>4, IsSeqOf
  <1>6. \A i \in DOMAIN flat : Good(flat[i])
    <2>1. \A k \in 0..n : \A i \in DOMAIN g[k] : \E p \in 1..n : \E j \in DOMAIN ss[p] : g[k][i] = ss[p][j]
      BY <1>2, <1>3, FlatIsSum
    <2>2. \A i \in DOMAIN flat : \E p \in 1..n : \E j \in DOMAIN ss[p] : flat[i] = ss[p][j]
      BY <1>3, <2>1
    <2> QED BY <1>1, <2>2
  <1>7. K!FlattenSeq(ss) = flat
    BY KFlat
  <1>8. Document(flat)
    BY <1>5, <1>6, Zenon DEF Document, Good
  <1> QED BY <1>7, <1>8

LEMMA NoDocument == Document(<<>>) /\ Secret(<<>>)
  <1>1. <<>> \in Seq({<<>>[i] : i \in DOMAIN <<>>}) /\ DOMAIN <<>> = {}
    OBVIOUS
  <1>2. <<>> \in Seq([c : {<<>>[i].c : i \in DOMAIN <<>>}, pads : {{}}])
    OBVIOUS
  <1> QED BY <1>1, <1>2 DEF Document, IsSeq, Secret

LEMMA OneToken ==
  ASSUME NEW kind \in {"open", "close", "leaf"}, NEW tag, NEW text1, NEW p \in BOOLEAN,
         p => kind = "leaf" /\ tag = "Value" /\ Secret(text1)
  PROVE  Document(<<K!Token(kind, tag, text1, p)>>)
  <1> PICK t : t = [kind |-> kind, tag |-> tag, text |-> text1, protected |-> p]
    OBVIOUS
  <1>1. K!Token(kind, tag, text1, p) = t
    BY DEF K!Token
  <1> PICK d : d = <<t>>
    OBVIOUS
  <1>2. d \in Seq({t}) /\ DOMAIN d = {1} /\ d[1] = t
    OBVIOUS
  <1>3. IsSeq(d)
    BY <1>2, IsSeqOf
  <1>4. Document(d)
    <2>1. t.kind = kind /\ t.tag = tag /\ t.text = text1 /\ t.protected = p
      OBVIOUS
    <2>2. t = [kind |-> t.kind, tag |-> t.tag, text |-> t.text, protected |-> t.protected]
      OBVIOUS
    <2> QED BY <1>2, <1>3, <2>1, <2>2, Zenon DEF Document
  <1> QED BY <1>1, <1>4

LEMMA LeafDocument ==
  ASSUME NEW tag, NEW text1, NEW p \in BOOLEAN, p => tag = "Value" /\ Secret(text1)
  PROVE  Document(K!Leaf(tag, text1, p))
  BY OneToken DEF K!Leaf

LEMMA ElementDocument ==
  ASSUME NEW tag, NEW body, Document(body)
  PROVE  Document(K!Element(tag, body))
  <1>1. Document(<<K!Token("open", tag, <<>>, FALSE)>>) /\ Document(<<K!Token("close", tag, <<>>, FALSE)>>)
    BY OneToken
  <1>2. Document(<<K!Token("open", tag, <<>>, FALSE)>> \o body)
    BY <1>1, DocumentsJoin
  <1>3. Document((<<K!Token("open", tag, <<>>, FALSE)>> \o body) \o <<K!Token("close", tag, <<>>, FALSE)>>)
    BY <1>1, <1>2, DocumentsJoin
  <1> QED BY <1>3 DEF K!Element

LEMMA StringsDocument ==
  ASSUME NEW fs, KdbxFields(fs)
  PROVE  Document(K!Strings(fs))
  <1> PICK n \in Nat : n = Len(fs) /\ DOMAIN fs = 1..n
    BY DEF KdbxFields, IsSeq
  <1> DEFINE part(i) == IF fs[i].value = <<>> THEN <<>> ELSE K!StringXml(fs[i])
             ss == [i \in 1..n |-> part(i)]
  <1>1. ASSUME NEW i \in 1..n PROVE Document(part(i))
    <2>1. CASE fs[i].value = <<>>
      BY <2>1, NoDocument
    <2>2. CASE fs[i].value # <<>>
      <3> PICK f : f = fs[i]
        OBVIOUS
      <3>1. f.protected \in BOOLEAN /\ (f.protected => Secret(f.value))
        BY DEF KdbxFields
      <3>2. Document(K!Leaf("Key", f.key, FALSE))
        BY LeafDocument
      <3> PICK p \in BOOLEAN : p = f.protected
        BY <3>1
      <3> PICK v : v = IF f.protected THEN f.value ELSE K!xmlEsc(f.value)
        OBVIOUS
      <3>3. Document(K!Leaf("Value", v, p))
        BY <3>1, LeafDocument
      <3>4. Document(K!Leaf("Key", f.key, FALSE) \o K!Leaf("Value", v, p))
        BY <3>2, <3>3, DocumentsJoin
      <3>5. Document(K!Element("String", K!Leaf("Key", f.key, FALSE) \o K!Leaf("Value", v, p)))
        BY <3>4, ElementDocument
      <3> QED BY <2>2, <3>5, Zenon DEF K!StringXml
    <2> QED BY <2>1, <2>2
  <1> HIDE DEF part
  <1>2. ss \in Seq({part(i) : i \in 1..n}) /\ DOMAIN ss = 1..n /\ \A i \in 1..n : ss[i] = part(i)
    OBVIOUS
  <1> HIDE DEF ss
  <1>3. IsSeq(ss)
    BY <1>2, IsSeqOf
  <1>4. Document(K!FlattenSeq(ss))
    BY <1>1, <1>2, <1>3, FlatDocument
  <1> USE DEF ss, part
  <1>5. K!Strings(fs) = K!FlattenSeq(ss)
    BY Zenon DEF K!Strings
  <1> QED BY <1>4, <1>5

LEMMA HistoryDocument ==
  ASSUME NEW h, IsSeq(h), \A i \in DOMAIN h : KdbxFields(h[i])
  PROVE  Document(K!FlattenSeq([i \in DOMAIN h |-> K!Element("Entry", K!Strings(h[i]))]))
  <1> PICK n \in Nat : n = Len(h) /\ DOMAIN h = 1..n
    BY DEF IsSeq
  <1> DEFINE part(i) == K!Element("Entry", K!Strings(h[i]))
  <1>1. \A i \in 1..n : Document(part(i))
    BY StringsDocument, ElementDocument
  <1> HIDE DEF part
  <1> PICK ss : ss = [i \in 1..n |-> part(i)]
    OBVIOUS
  <1>2. ss \in Seq({part(i) : i \in 1..n}) /\ DOMAIN ss = 1..n /\ \A i \in 1..n : ss[i] = part(i)
    OBVIOUS
  <1>3. IsSeq(ss)
    BY <1>2, IsSeqOf
  <1>4. Document(K!FlattenSeq(ss))
    BY <1>1, <1>2, <1>3, FlatDocument
  <1> USE DEF part
  <1>5. ss = [i \in DOMAIN h |-> K!Element("Entry", K!Strings(h[i]))]
    OBVIOUS
  <1> QED BY <1>4, <1>5

LEMMA EntryDocument ==
  ASSUME NEW e, KdbxFields(e.fields), IsSeq(e.history), \A j \in DOMAIN e.history : KdbxFields(e.history[j])
  PROVE  Document(K!entryXml(e))
  <1> PICK a : a = IF e.tags = <<>> THEN <<>> ELSE K!Leaf("Tags", K!xmlEsc(K!Joined(e.tags)), FALSE)
    OBVIOUS
  <1> PICK b : b = K!Strings(e.fields)
    OBVIOUS
  <1> PICK h : h = K!FlattenSeq([i \in DOMAIN e.history |-> K!Element("Entry", K!Strings(e.history[i]))])
    OBVIOUS
  <1> PICK c : c = IF e.history = <<>> THEN <<>> ELSE K!Element("History", h)
    OBVIOUS
  <1>1. Document(a)
    BY LeafDocument, NoDocument
  <1>2. Document(b)
    BY StringsDocument
  <1>3. Document(c)
    <2>1. Document(h)
      BY HistoryDocument
    <2> QED BY <2>1, ElementDocument, NoDocument
  <1>4. Document(a \o b)
    BY <1>1, <1>2, DocumentsJoin
  <1>5. Document((a \o b) \o c)
    BY <1>3, <1>4, DocumentsJoin
  <1>6. Document(K!Element("Entry", (a \o b) \o c))
    BY <1>5, ElementDocument
  <1> QED BY <1>6, Zenon DEF K!entryXml

LEMMA EntriesDocument ==
  ASSUME NEW es, KdbxEntries(es)
  PROVE  Document(K!Entries(es))
  <1> PICK n \in Nat : n = Len(es) /\ DOMAIN es = 1..n
    BY DEF KdbxEntries, IsSeq
  <1> DEFINE part(i) == K!entryXml(es[i])
  <1>1. ASSUME NEW i \in 1..n PROVE Document(part(i))
    <2> PICK e : e = es[i]
      OBVIOUS
    <2>1. KdbxFields(e.fields) /\ IsSeq(e.history) /\ \A j \in DOMAIN e.history : KdbxFields(e.history[j])
      BY DEF KdbxEntries
    <2> QED BY <2>1, EntryDocument
  <1> HIDE DEF part
  <1> PICK ss : ss = [i \in 1..n |-> part(i)]
    OBVIOUS
  <1>2. ss \in Seq({part(i) : i \in 1..n}) /\ DOMAIN ss = 1..n /\ \A i \in 1..n : ss[i] = part(i)
    OBVIOUS
  <1>3. IsSeq(ss)
    BY <1>2, IsSeqOf
  <1>4. Document(K!FlattenSeq(ss))
    BY <1>1, <1>2, <1>3, FlatDocument
  <1> USE DEF part
  <1>5. K!Entries(es) = K!FlattenSeq(ss)
    BY DEF K!Entries
  <1> QED BY <1>4, <1>5

LEMMA DatabaseDocument ==
  ASSUME NEW es, KdbxEntries(es)
  PROVE  Document(K!databaseXml(es))
  <1> PICK name, a, b : name = K!Char("name") /\ a = K!Leaf("DatabaseName", name, FALSE)
                        /\ b = K!Leaf("Name", name, FALSE)
    OBVIOUS
  <1>1. Document(a) /\ Document(b)
    BY LeafDocument
  <1>2. Document(K!Element("Meta", a))
    BY <1>1, ElementDocument
  <1>3. Document(b \o K!Entries(es))
    BY <1>1, EntriesDocument, DocumentsJoin
  <1>4. Document(K!Element("Root", K!Element("Group", b \o K!Entries(es))))
    BY <1>3, ElementDocument
  <1>5. Document(K!Element("Meta", a) \o K!Element("Root", K!Element("Group", b \o K!Entries(es))))
    BY <1>2, <1>4, DocumentsJoin
  <1> QED BY <1>5, ElementDocument DEF K!databaseXml

LEMMA ForeignDocument ==
  ASSUME NEW db, NEW h, KdbxEntries(db.entries),
         IsSeq(db.groups), \A i \in DOMAIN db.groups : KdbxEntries(db.groups[i].entries)
  PROVE  Document(K!ForeignXml(db, h))
  <1> PICK n \in Nat : n = Len(db.groups) /\ DOMAIN db.groups = 1..n
    BY DEF IsSeq
  <1> PICK bin : bin = IF db.bin = "none" THEN <<>> ELSE K!Leaf("RecycleBinUUID", K!Char(db.bin), FALSE)
    OBVIOUS
  <1> PICK hash : hash = IF db.major = 3 /\ db.hashed THEN K!Leaf("HeaderHash", K!Hash(h), FALSE) ELSE <<>>
    OBVIOUS
  <1>1. Document(bin) /\ Document(hash)
    BY LeafDocument, NoDocument
  <1>2. Document(K!Element("Meta", bin \o hash))
    BY <1>1, DocumentsJoin, ElementDocument
  <1> DEFINE part(i) == K!GroupXml(db.groups[i])
  <1>3. ASSUME NEW i \in 1..n PROVE Document(part(i))
    <2> PICK g : g = db.groups[i]
      OBVIOUS
    <2> PICK u, b : u = K!Leaf("UUID", K!Char(g.name), FALSE) /\ b = K!Leaf("Name", K!Char(g.name), FALSE)
      OBVIOUS
    <2>1. Document(u) /\ Document(b)
      BY LeafDocument
    <2>2. Document(K!Entries(g.entries))
      BY EntriesDocument
    <2>3. Document(u \o b)
      BY <2>1, DocumentsJoin
    <2>4. Document((u \o b) \o K!Entries(g.entries))
      BY <2>2, <2>3, DocumentsJoin
    <2>5. Document(K!Element("Group", (u \o b) \o K!Entries(g.entries)))
      BY <2>4, ElementDocument
    <2> QED BY <2>5, Zenon DEF K!GroupXml
  <1> HIDE DEF part
  <1> PICK ss : ss = [i \in 1..n |-> part(i)]
    OBVIOUS
  <1>4. ss \in Seq({part(i) : i \in 1..n}) /\ DOMAIN ss = 1..n /\ \A i \in 1..n : ss[i] = part(i)
    OBVIOUS
  <1>5. IsSeq(ss)
    BY <1>4, IsSeqOf
  <1> PICK groups : groups = K!FlattenSeq(ss)
    OBVIOUS
  <1>6. Document(groups)
    BY <1>3, <1>4, <1>5, FlatDocument
  <1> USE DEF part
  <1>7. groups = K!FlattenSeq([i \in DOMAIN db.groups |-> K!GroupXml(db.groups[i])])
    OBVIOUS
  <1> HIDE DEF part
  <1> PICK root, es : root = K!Leaf("UUID", K!Char("root"), FALSE) /\ es = K!Entries(db.entries)
    OBVIOUS
  <1>8. Document(root) /\ Document(es)
    BY LeafDocument, EntriesDocument
  <1>9. Document(root \o es)
    BY <1>8, DocumentsJoin
  <1>10. Document((root \o es) \o groups)
    BY <1>6, <1>9, DocumentsJoin
  <1>11. Document(K!Element("Root", K!Element("Group", (root \o es) \o groups)))
    BY <1>10, ElementDocument
  <1>12. Document(K!Element("Meta", bin \o hash) \o K!Element("Root", K!Element("Group", (root \o es) \o groups)))
    BY <1>2, <1>11, DocumentsJoin
  <1>13. Document(K!Element("KeePassFile", K!Element("Meta", bin \o hash)
                    \o K!Element("Root", K!Element("Group", (root \o es) \o groups))))
    BY <1>12, ElementDocument
  <1> QED BY <1>7, <1>13, Zenon DEF K!ForeignXml

\* The fields an item becomes.
LEMMA FieldsJoin ==
  ASSUME NEW a, NEW b, KdbxFields(a), KdbxFields(b)
  PROVE  KdbxFields(a \o b)
  <1> PICK c : c = a \o b
    OBVIOUS
  <1>1. IsSeq(a) /\ IsSeq(b)
    BY DEF KdbxFields
  <1>2. IsSeq(c) /\ \A i \in DOMAIN c : (\E j \in DOMAIN a : c[i] = a[j]) \/ (\E j \in DOMAIN b : c[i] = b[j])
    BY <1>1, JoinOf DEF Joined
  <1>3. KdbxFields(c)
    BY <1>2 DEF KdbxFields
  <1> QED BY <1>3

LEMMA OneField ==
  ASSUME NEW key, NEW v, NEW p \in BOOLEAN, p => Secret(v)
  PROVE  KdbxFields(<<K!Field(key, v, p)>>)
  <1> PICK f : f = [key |-> key, value |-> v, protected |-> p]
    OBVIOUS
  <1>1. K!Field(key, v, p) = f /\ f.value = v /\ f.protected = p
    BY DEF K!Field
  <1> PICK s : s = <<f>>
    OBVIOUS
  <1>2. s \in Seq({f}) /\ DOMAIN s = {1} /\ s[1] = f
    OBVIOUS
  <1>3. IsSeq(s)
    BY <1>2, IsSeqOf
  <1>4. KdbxFields(s)
    BY <1>1, <1>2, <1>3 DEF KdbxFields
  <1> QED BY <1>1, <1>4

LEMMA NoFields == KdbxFields(<<>>)
  <1>1. IsSeq(<<>>) /\ DOMAIN <<>> = {}
    BY NoDocument DEF Document
  <1> QED BY <1>1 DEF KdbxFields

LEMMA OtpIsSecret ==
  ASSUME NEW d, Secret(d.totp)
  PROVE  Secret(K!otpauthUri(d))
  <1> PICK t : t = d.totp
    OBVIOUS
  <1> PICK o : o = [c |-> "otpauth", pads |-> {}]
    OBVIOUS
  <1>1. CASE K!otpauthUri(d) = t
    BY <1>1
  <1>2. CASE K!otpauthUri(d) = <<o>> \o t
    <2> PICK G : G = {t[i].c : i \in DOMAIN t} \cup {"otpauth"}
      OBVIOUS
    <2> PICK R : R = [c : G, pads : {{}}]
      OBVIOUS
    <2>1. t \in Seq(R)
      <3> PICK H : H = {t[i].c : i \in DOMAIN t}
        OBVIOUS
      <3> PICK Q : Q = [c : H, pads : {{}}]
        OBVIOUS
      <3>1. t \in Seq(Q)
        BY Zenon DEF Secret
      <3>2. Q \subseteq R
        <4>1. H \subseteq G
          OBVIOUS
        <4> QED BY <4>1
      <3> QED BY ONLY <3>1, <3>2
    <2>2. o \in R
      OBVIOUS
    <2> PICK u : u = <<o>> \o t
      OBVIOUS
    <2>3. u \in Seq(R)
      BY <2>1, <2>2
    <2>4. ASSUME NEW i \in DOMAIN u PROVE u[i] \in [c : {u[j].c : j \in DOMAIN u}, pads : {{}}]
      <3>1. u[i] \in [c : G, pads : {{}}]
        <4>1. u[i] \in R
          BY ONLY <2>3, i \in DOMAIN u
        <4> QED BY <4>1
      <3> PICK x \in [c : G, pads : {{}}] : x = u[i]
        BY <3>1
      <3>2. x.c \in {u[j].c : j \in DOMAIN u} /\ x.pads = {}
        OBVIOUS
      <3> PICK J : J = {u[j].c : j \in DOMAIN u}
        OBVIOUS
      <3>3. x \in [c : J, pads : {{}}]
        BY <3>2
      <3> QED BY <3>3
    <2> PICK J : J = [c : {u[j].c : j \in DOMAIN u}, pads : {{}}]
      OBVIOUS
    <2>5. u \in Seq(J)
      <3>1. \A i \in DOMAIN u : u[i] \in J
        BY <2>4
      <3>2. u \in [1..Len(u) -> J] /\ Len(u) \in Nat
        BY ONLY <2>3, <3>1
      <3> QED BY ONLY <3>2
    <2> QED BY <1>2, <2>5 DEF Secret
  <1>3. K!otpauthUri(d) = IF d.totp = <<>> \/ Head(d.totp).c = "otpauth" THEN t ELSE <<o>> \o t
    BY Zenon DEF K!otpauthUri
  <1> QED BY <1>1, <1>2, <1>3

LEMMA StandardFields ==
  ASSUME NEW d, Secret(d.password), Secret(d.totp)
  PROVE  KdbxFields(K!Standard(d))
  <1> PICK a, b, c, e, f, g :
        /\ a = K!Field(K!Key("Title"), d.title, FALSE) /\ b = K!Field(K!Key("UserName"), d.username, FALSE)
        /\ c = K!Field(K!Key("Password"), d.password, TRUE) /\ e = K!Field(K!Key("URL"), d.url, FALSE)
        /\ f = K!Field(K!Key("Notes"), d.notes, FALSE) /\ g = K!Field(K!Key("otp"), K!otpauthUri(d), TRUE)
    OBVIOUS
  <1>1. /\ KdbxFields(<<a>>) /\ KdbxFields(<<b>>) /\ KdbxFields(<<c>>) /\ KdbxFields(<<e>>)
        /\ KdbxFields(<<f>>) /\ KdbxFields(<<g>>)
    BY OneField, OtpIsSecret
  <1> PICK s : s = <<a, b, c, e, f>>
    OBVIOUS
  <1> PICK R : R = {a, b, c, e, f}
    OBVIOUS
  <1>2. s \in Seq(R)
    OBVIOUS
  <1>3. IsSeq(s)
    BY <1>2, IsSeqOf
  <1>4. \A x \in R : x.protected \in BOOLEAN /\ (x.protected => Secret(x.value))
    <2>1. Secret(c.value) /\ c.protected = TRUE
      BY DEF K!Field
    <2>2. a.protected = FALSE /\ b.protected = FALSE /\ e.protected = FALSE /\ f.protected = FALSE
      BY DEF K!Field
    <2> QED BY <2>1, <2>2
  <1>5. \A i \in DOMAIN s : s[i] \in R
    BY ONLY <1>2
  <1>7. KdbxFields(s)
    BY ONLY <1>3, <1>4, <1>5 DEF KdbxFields
  <1> PICK h : h = IF K!otpauthUri(d) = <<>> THEN <<>> ELSE <<g>>
    OBVIOUS
  <1>8. KdbxFields(s \o h)
    BY <1>1, <1>7, NoFields, FieldsJoin
  <1> QED BY <1>8, Zenon DEF K!Standard

LEMMA ExtraFields ==
  ASSUME NEW d, d.type = "card" => \A k \in K!CardKeys : Secret(d.extra[k])
  PROVE  KdbxFields(K!extraFields(d))
  <1> PICK o : o = K!ExtraOrder(d.type)
    OBVIOUS
  <1>1. PICK n \in Nat : /\ IsSeq(o) /\ Len(o) = n
                         /\ \A i \in 1..n : o[i] \in K!Hidden => Secret(d.extra[o[i]])
    <2>1. CASE d.type = "card"
      <3> PICK s1, s2, s3, s4 :
            s1 = "Card Holder" /\ s2 = "Card Number" /\ s3 = "Card Brand" /\ s4 = "Card PIN"
        BY Zenon
      <3>1. o = <<s1, s2, s3, s4>>
        BY <2>1, Zenon DEF K!ExtraOrder
      <3>2. IsSeq(o) /\ Len(o) = 4
        <4>1. o \in Seq({s1, s2, s3, s4}) /\ Len(o) = 4
          BY ONLY <3>1
        <4> QED BY <4>1, IsSeqOf
      <3>3. \A i \in 1..4 : o[i] \in K!Hidden => o[i] \in K!CardKeys
        BY DEF K!Hidden, K!CardKeys
      <3> QED BY <2>1, <3>2, <3>3
    <2>2. CASE d.type = "identity"
      <3> PICK s1, s2 : s1 = "Full Name" /\ s2 = "Email"
        BY Zenon
      <3>1. o = <<s1, s2>>
        <4>1. "identity" # "card"
          OBVIOUS
        <4> QED BY <2>2, <4>1, Zenon DEF K!ExtraOrder
      <3>2. IsSeq(o) /\ Len(o) = 2
        <4>1. o \in Seq({s1, s2}) /\ Len(o) = 2
          BY ONLY <3>1
        <4> QED BY <4>1, IsSeqOf
      <3>3. \A i \in 1..2 : o[i] \notin K!Hidden
        <4>1. ASSUME NEW i \in 1..2 PROVE i = 1 \/ i = 2
          BY ONLY i \in 1..2
        <4>2. o[1] \notin K!Hidden /\ o[2] \notin K!Hidden
          <5>1. s1 \notin K!Hidden /\ s2 \notin K!Hidden
            BY Zenon DEF K!Hidden
          <5>2. o[1] = s1 /\ o[2] = s2
            BY ONLY <3>1
          <5> QED BY <5>1, <5>2
        <4> QED BY <4>1, <4>2
      <3> QED BY <3>2, <3>3
    <2>3. CASE d.type # "card" /\ d.type # "identity"
      <3>1. o = <<>>
        BY <2>3 DEF K!ExtraOrder
      <3>2. IsSeq(<<>>)
        BY NoFields DEF KdbxFields
      <3> QED BY <3>1, <3>2
    <2> QED BY <2>1, <2>2, <2>3
  <1> DEFINE f(i) == K!Field(K!Key(o[i]), d.extra[o[i]], o[i] \in K!Hidden)
  <1> PICK s : s = [i \in 1..n |-> f(i)]
    OBVIOUS
  <1>2. K!extraFields(d) = s
    BY <1>1 DEF K!extraFields
  <1>3. \A i \in 1..n : /\ f(i).protected \in BOOLEAN
                        /\ f(i).protected => Secret(f(i).value)
    <2> SUFFICES ASSUME NEW i \in 1..n
                 PROVE  f(i).protected \in BOOLEAN /\ (f(i).protected => Secret(f(i).value))
      OBVIOUS
    <2> PICK key, w : key = K!Key(o[i]) /\ w = d.extra[o[i]]
      OBVIOUS
    <2> PICK p \in BOOLEAN : p <=> o[i] \in K!Hidden
      OBVIOUS
    <2>1. f(i) = [key |-> key, value |-> w, protected |-> p]
      <3>1. (o[i] \in K!Hidden) = p
        BY Zenon
      <3> QED BY <3>1, Zenon DEF K!Field
    <2>2. f(i).protected = p /\ f(i).value = w
      <3> HIDE DEF f
      <3> QED BY <2>1
    <2> HIDE DEF f
    <2> QED BY <1>1, <2>2
  <1> HIDE DEF f
  <1>4. s \in Seq({f(i) : i \in 1..n}) /\ DOMAIN s = 1..n /\ \A i \in 1..n : s[i] = f(i)
    OBVIOUS
  <1>5. IsSeq(s)
    BY <1>4, IsSeqOf
  <1>6. KdbxFields(s)
    BY <1>3, <1>4, <1>5 DEF KdbxFields
  <1> QED BY <1>2, <1>6

\* One field after another: what is added depends on those before it.
LEMMA CustomFields ==
  ASSUME NEW fs, KdbxFields(fs), NEW custom, IsSeq(custom),
         \A i \in DOMAIN custom : Secret(custom[i].value) /\ custom[i].hidden \in BOOLEAN
  PROVE  KdbxFields(K!WithCustom(fs, custom))
  <1> PICK n \in Nat : n = Len(custom) /\ DOMAIN custom = 1..n
    BY DEF IsSeq
  <1> DEFINE label(i) == IF custom[i].label = <<>> THEN K!Key("Field") ELSE custom[i].label
             added(done, i) == Append(done, K!Field(K!Fresh(label(i), K!KeysOf(done)),
                                                    custom[i].value, custom[i].hidden))
             next(done, i) == IF custom[i].label = <<>> /\ custom[i].value = <<>> THEN done
                              ELSE added(done, i)
             f == CHOOSE f : f = [i \in 0..Len(custom) |-> IF i = 0 THEN fs ELSE next(f[i - 1], i)]
  <1>1. K!WithCustom(fs, custom) = f[Len(custom)]
    BY Zenon DEF K!WithCustom
  <1>2. ASSUME NEW done, KdbxFields(done), NEW i \in 1..n PROVE KdbxFields(next(done, i))
    <2>1. CASE custom[i].label = <<>> /\ custom[i].value = <<>>
      BY <1>2, <2>1, Zenon
    <2>2. CASE ~(custom[i].label = <<>> /\ custom[i].value = <<>>)
      <3> PICK key : key = K!Fresh(label(i), K!KeysOf(done))
        OBVIOUS
      <3> PICK v, p : v = custom[i].value /\ p = custom[i].hidden
        OBVIOUS
      <3>1. Secret(v) /\ p \in BOOLEAN
        OBVIOUS
      <3>2. KdbxFields(<<K!Field(key, v, p)>>)
        BY <3>1, OneField
      <3> PICK x : x = K!Field(key, v, p)
        OBVIOUS
      <3>3. KdbxFields(done \o <<x>>)
        BY <1>2, <3>2, FieldsJoin
      <3>4. Append(done, x) = done \o <<x>>
        <4>1. PICK S : done \in Seq(S)
          BY <1>2 DEF KdbxFields, IsSeq
        <4>2. done \in Seq(S \cup {x})
          BY <4>1
        <4> QED BY <4>2
      <3>5. next(done, i) = Append(done, x)
        BY <2>2, Zenon
      <3> QED BY <3>3, <3>4, <3>5, Zenon
    <2> QED BY <2>1, <2>2
  <1> HIDE DEF next, added, label
  <1> DEFINE Has(k, g) == /\ g = [i \in 0..k |-> g[i]] /\ g[0] = fs
                          /\ \A i \in 1..k : g[i] = next(g[i - 1], i)
             T == {k \in Nat : k <= n => \E g : Has(k, g) /\ KdbxFields(g[k])}
  <1>3. 0 \in T
    <2> PICK g : g = [i \in 0..0 |-> fs]
      OBVIOUS
    <2>1. Has(0, g) /\ KdbxFields(g[0])
      OBVIOUS
    <2> QED BY <2>1
  <1>4. ASSUME NEW k \in Nat, k \in T PROVE k + 1 \in T
    <2> SUFFICES ASSUME k + 1 <= n PROVE \E g : Has(k + 1, g) /\ KdbxFields(g[k + 1])
      OBVIOUS
    <2>1. PICK g : Has(k, g) /\ KdbxFields(g[k])
      BY <1>4
    <2> PICK q \in 1..n : q = k + 1
      OBVIOUS
    <2> PICK x : x = next(g[k], q)
      OBVIOUS
    <2> PICK h : h = [i \in 0..k + 1 |-> IF i = k + 1 THEN x ELSE g[i]]
      OBVIOUS
    <2>2. KdbxFields(x)
      BY <1>2, <2>1
    <2>3. h[k + 1] = x /\ \A i \in 0..k : h[i] = g[i]
      OBVIOUS
    <2>4. h = [i \in 0..k + 1 |-> h[i]]
      OBVIOUS
    <2>5. h[0] = fs
      BY <2>1, <2>3
    <2>6. ASSUME NEW i \in 1..k + 1 PROVE h[i] = next(h[i - 1], i)
      <3>1. CASE i = k + 1
        <4>1. h[i] = x /\ h[i - 1] = g[k] /\ i = q
          <5>1. i - 1 = k /\ k \in 0..k
            BY <3>1
          <5> QED BY <2>3, <3>1, <5>1
        <4> QED BY <4>1
      <3>2. CASE i # k + 1
        <4>1. i \in 1..k /\ i \in 0..k /\ i - 1 \in 0..k
          BY <3>2
        <4>2. h[i] = g[i] /\ h[i - 1] = g[i - 1]
          BY <2>3, <4>1
        <4> QED BY <2>1, <4>1, <4>2
      <3> QED BY <3>1, <3>2
    <2>7. Has(k + 1, h)
      BY <2>4, <2>5, <2>6
    <2> QED BY <2>2, <2>3, <2>7
  <1>5. n \in T
    <2> HIDE DEF T
    <2> QED BY <1>3, <1>4, Induction
  <1>6. PICK g : Has(n, g) /\ KdbxFields(g[n])
    BY <1>5
  <1>7. g = [i \in 0..Len(custom) |-> IF i = 0 THEN fs ELSE next(g[i - 1], i)]
    <2>1. \A i \in 0..n : g[i] = IF i = 0 THEN fs ELSE next(g[i - 1], i)
      <3>1. \A i \in 0..n : i # 0 => i \in 1..n
        OBVIOUS
      <3> QED BY <1>6, <3>1
    <2> PICK h : h = [i \in 0..n |-> IF i = 0 THEN fs ELSE next(g[i - 1], i)]
      OBVIOUS
    <2>2. \A i \in 0..n : g[i] = h[i]
      BY <2>1
    <2>3. g = [i \in 0..n |-> g[i]] /\ h = [i \in 0..n |-> h[i]]
      BY <1>6
    <2>4. g = h
      BY ONLY <2>2, <2>3
    <2> QED BY <2>4
  <1>8. f = [i \in 0..Len(custom) |-> IF i = 0 THEN fs ELSE next(f[i - 1], i)]
    BY <1>7, Zenon
  <1> HIDE DEF f
  <1> PICK ff : ff = f
    OBVIOUS
  <1>9. ff[n] = g[n]
    <2>1. \A i \in 0..n : ff[i] = IF i = 0 THEN fs ELSE next(ff[i - 1], i)
      BY <1>8, Zenon
    <2>2. 0 \in 0..n /\ \A i \in 1..n : i \in 0..n /\ i # 0
      OBVIOUS
    <2>3. ff[0] = g[0]
      BY <1>6, <2>1, <2>2
    <2>4. \A i \in 1..n : ff[i - 1] = g[i - 1] => ff[i] = g[i]
      BY <1>6, <2>1, <2>2
    <2>5. InStep(ff, g, n)
      BY ONLY <2>3, <2>4 DEF InStep
    <2>6. \A i \in 0..n : ff[i] = g[i]
      BY ONLY <2>5, n \in Nat, SameSteps, Zenon
    <2> QED BY <2>6
  <1> QED BY <1>1, <1>6, <1>9

LEMMA ItemsAreFields ==
  ASSUME NEW v, IsSeq(v), \A i \in DOMAIN v : KdbxItem(v[i])
  PROVE  KdbxEntries(K!itemsToKdbxEntries(v))
  <1> PICK n \in Nat : n = Len(v) /\ DOMAIN v = 1..n
    BY DEF IsSeq
  <1> DEFINE fields(d) == K!WithCustom(K!Standard(d) \o K!extraFields(d), d.custom)
             e(i) == [fields |-> fields(v[i]), tags |-> v[i].tags, history |-> <<>>]
  <1>1. ASSUME NEW i \in 1..n PROVE KdbxFields(fields(v[i]))
    <2> PICK d : d = v[i]
      OBVIOUS
    <2>1. KdbxItem(d)
      OBVIOUS
    <2>2. KdbxFields(K!Standard(d)) /\ KdbxFields(K!extraFields(d))
      BY <2>1, StandardFields, ExtraFields DEF KdbxItem
    <2>3. KdbxFields(K!Standard(d) \o K!extraFields(d))
      BY <2>2, FieldsJoin
    <2>4. KdbxFields(K!WithCustom(K!Standard(d) \o K!extraFields(d), d.custom))
      BY <2>1, <2>3, CustomFields DEF KdbxItem
    <2> QED BY <2>4
  <1> HIDE DEF fields
  <1>2. \A i \in 1..n : e(i).fields = fields(v[i]) /\ e(i).history = <<>>
    OBVIOUS
  <1> PICK s : s = [i \in 1..n |-> e(i)]
    OBVIOUS
  <1> USE DEF fields
  <1>3. K!itemsToKdbxEntries(v) = s
    BY DEF K!itemsToKdbxEntries
  <1> HIDE DEF fields, e
  <1>4. s \in Seq({e(i) : i \in 1..n}) /\ DOMAIN s = 1..n /\ \A i \in 1..n : s[i] = e(i)
    OBVIOUS
  <1>5. IsSeq(s)
    BY <1>4, IsSeqOf
  <1>6. IsSeq(<<>>) /\ DOMAIN <<>> = {}
    BY NoDocument DEF Document
  <1>7. KdbxEntries(s)
    BY <1>1, <1>2, <1>4, <1>5, <1>6 DEF KdbxEntries
  <1> QED BY <1>3, <1>7

\* Every document that is written comes back, under every key.
LEMMA DocumentIsRead ==
  ASSUME StreamAssumption, NEW k, NEW d, Document(d)
  PROVE  /\ K!unprotectAll(K!parseXml(K!Sealed(d, K!NewStream(k))), K!NewStream(k)) = K!parseXml(d)
         /\ K!unprotectAll(K!parseXml(K!SealedByOffset(d, k)), K!NewStream(k)) = K!parseXml(d)
  <1> PICK n \in Nat : n = Len(d) /\ DOMAIN d = 1..n /\ d = [i \in 1..n |-> d[i]]
    BY DEF Document, IsSeq
  <1> DEFINE G == UNION {{d[i].text[j].c : j \in DOMAIN d[i].text} : i \in 1..n}
             V == {d[i].tag : i \in 1..n}
             X == {d[i].text : i \in 1..n} \cup Seq(Bytes(k, G))
  <1>1. ASSUME NEW i \in 1..n
        PROVE  /\ d[i] \in Tokens(V, X)
               /\ d[i].protected => /\ d[i].kind = "leaf" /\ d[i].tag = "Value"
                                    /\ d[i].text \in Seq(Bytes(k, G))
    <2> PICK kind, tag, u, p : kind = d[i].kind /\ tag = d[i].tag /\ u = d[i].text /\ p = d[i].protected
      OBVIOUS
    <2>1. /\ d[i] = [kind |-> kind, tag |-> tag, text |-> u, protected |-> p]
          /\ kind \in {"open", "close", "leaf"} /\ p \in BOOLEAN
          /\ p => kind = "leaf" /\ tag = "Value" /\ Secret(u)
      BY DEF Document
    <2>2. tag \in V /\ u \in X
      OBVIOUS
    <2>3. Secret(u) => u \in Seq(Bytes(k, G))
      <3> SUFFICES ASSUME Secret(u) PROVE u \in Seq(Bytes(k, G))
        OBVIOUS
      <3> PICK H : H = {u[j].c : j \in DOMAIN u}
        OBVIOUS
      <3> PICK Q : Q = [c : H, pads : {{}}]
        OBVIOUS
      <3>1. u \in Seq(Q)
        BY Zenon DEF Secret
      <3>2. H \subseteq G
        OBVIOUS
      <3> HIDE DEF G
      <3>3. Q \subseteq Bytes(k, G)
        BY <3>2 DEF Bytes
      <3> QED BY ONLY <3>1, <3>3
    <2> HIDE DEF G, V, X
    <2>4. d[i] \in Tokens(V, X)
      BY <2>1, <2>2 DEF Tokens
    <2> QED BY <2>1, <2>3, <2>4
  <1>2. Seq(Bytes(k, G)) \subseteq X
    OBVIOUS
  <1> HIDE DEF G, V, X
  <1>3. d \in Seq(Tokens(V, X))
    <2> PICK Q : Q = Tokens(V, X)
      OBVIOUS
    <2>1. \A i \in 1..n : d[i] \in Q
      BY <1>1
    <2>2. d \in [1..n -> Q]
      BY <2>1
    <2> QED BY <2>2
  <1>4. Regular(k, G, d)
    BY <1>1, Zenon DEF Regular
  <1> QED BY <1>2, <1>3, <1>4, SealedIsRead

LEMMA TogetherFive ==
  ASSUME NEW S, NEW u \in Seq(S), NEW v \in Seq(S), NEW w \in Seq(S), NEW r \in Seq(S),
         Len(u) = 2, Len(v) = 2, Len(w) = 1, Len(r) = 5,
         r[1] = u[1], r[2] = u[2], r[3] = v[1], r[4] = v[2], r[5] = w[1]
  PROVE  (u \o v) \o w = r
  <1> PICK x, y : x = u \o v /\ y = x \o w
    OBVIOUS
  <1>1. x \in Seq(S) /\ Len(x) = 4 /\ x[1] = u[1] /\ x[2] = u[2] /\ x[3] = v[1] /\ x[4] = v[2]
    <2>1. /\ u \o v \in Seq(S) /\ Len(u \o v) = Len(u) + Len(v)
          /\ \A i \in 1..Len(u) : (u \o v)[i] = u[i]
          /\ \A i \in 1..Len(v) : (u \o v)[Len(u) + i] = v[i]
      BY ONLY u \in Seq(S), v \in Seq(S), Joins
    <2>2. 1 \in 1..2 /\ 2 \in 1..2 /\ 2 + 1 = 3 /\ 2 + 2 = 4
      OBVIOUS
    <2> QED BY <2>1, <2>2
  <1>2. y \in Seq(S) /\ Len(y) = 5 /\ y[1] = x[1] /\ y[2] = x[2] /\ y[3] = x[3] /\ y[4] = x[4] /\ y[5] = w[1]
    <2>1. /\ x \o w \in Seq(S) /\ Len(x \o w) = Len(x) + Len(w)
          /\ \A i \in 1..Len(x) : (x \o w)[i] = x[i]
          /\ \A i \in 1..Len(w) : (x \o w)[Len(x) + i] = w[i]
      <3>1. x \in Seq(S)
        BY <1>1
      <3> QED BY ONLY <3>1, w \in Seq(S), Joins
    <2>2. 1 \in 1..4 /\ 2 \in 1..4 /\ 3 \in 1..4 /\ 4 \in 1..4 /\ 1 \in 1..1 /\ 4 + 1 = 5
      OBVIOUS
    <2> QED BY <1>1, <2>1, <2>2
  <1>3. \A i \in 1..5 : i = 1 \/ i = 2 \/ i = 3 \/ i = 4 \/ i = 5
    OBVIOUS
  <1>4. \A i \in 1..5 : y[i] = r[i]
    BY <1>1, <1>2, <1>3
  <1>5. y = r
    BY <1>2, <1>4, SeqEqual
  <1> QED BY <1>5

LEMMA FiveTogether ==
  ASSUME NEW a, NEW b, NEW p, NEW q, NEW c
  PROVE  (<<a, b>> \o <<p, q>>) \o <<c>> = <<a, b, p, q, c>>
  <1> PICK A1 : A1 = {a, b, p, q, c}
    OBVIOUS
  <1> PICK u, v, w, R : u = <<a, b>> /\ v = <<p, q>> /\ w = <<c>> /\ R = <<a, b, p, q, c>>
    OBVIOUS
  <1>1. /\ u \in Seq(A1) /\ Len(u) = 2 /\ u[1] = a /\ u[2] = b
        /\ v \in Seq(A1) /\ Len(v) = 2 /\ v[1] = p /\ v[2] = q
        /\ w \in Seq(A1) /\ Len(w) = 1 /\ w[1] = c
        /\ R \in Seq(A1) /\ Len(R) = 5 /\ R[1] = a /\ R[2] = b /\ R[3] = p /\ R[4] = q /\ R[5] = c
    OBVIOUS
  <1>2. (u \o v) \o w = R
    BY ONLY <1>1, TogetherFive
  <1> QED BY <1>2

-----------------------------------------------------------------------------
(* The file: what is authenticated is what was written.                    *)

Derived(o, pw) == K!Transformed(o.kdf, K!Composite(pw))
Base(o, pw) == K!HmacKeyBase("seed", Derived(o, pw))
Payload(o, x) == [zipped |-> o.zipped, stream |-> [id |-> o.stream, key |-> "inner"], xml |-> x]
Block(o, x, n) == K!Part(o.cipher, K!CipherKey("seed", Derived(o, "password")), "iv", Payload(o, x), n)
TheHeader(o) ==
  << K!Header(2, o.cipher), K!Header(3, o.zipped), K!Header(4, "seed"),
     K!Header(7, "iv"), K!Header(11, o.kdf), K!Header(0, "end") >>
Data(o, x, n) == IF n < 2 THEN Block(o, x, n + 1) ELSE NoData
Mac(o, x, n) == K!BlockHmac(Base(o, "password"), n, Data(o, x, n))

LEMMA HeaderFieldIs ==
  ASSUME NEW h, NEW id, NEW j, j \in DOMAIN h, h[j].id = id, j \in Int,
         \A i \in DOMAIN h : h[i].id = id => i = j
  PROVE  K!HeaderField(h, id) = h[j].data
  <1> DEFINE at1 == {i \in DOMAIN h : h[i].id = id}
             c == CHOOSE i \in at1 : \A k \in at1 : k <= i
  <1>1. at1 = {j}
    OBVIOUS
  <1>2. \E i \in at1 : \A k \in at1 : k <= i
    BY <1>1
  <1>3. c \in at1
    BY <1>2, Zenon
  <1>4. c = j
    BY <1>1, <1>3
  <1>5. K!HeaderField(h, id) = h[c].data
    BY Zenon DEF K!HeaderField
  <1> QED BY <1>4, <1>5

LEMMA FieldsOfHeader ==
  ASSUME NEW a, NEW z, NEW kdf, NEW h,
         h = << [id |-> 2, data |-> a], [id |-> 3, data |-> z], [id |-> 4, data |-> "seed"],
                [id |-> 7, data |-> "iv"], [id |-> 11, data |-> kdf], [id |-> 0, data |-> "end"] >>
  PROVE  /\ K!HeaderField(h, 11) = kdf /\ K!HeaderField(h, 4) = "seed"
         /\ K!HeaderField(h, 2) = a /\ K!HeaderField(h, 7) = "iv"
  <1>2. DOMAIN h = 1..6
    OBVIOUS
  <1>3. /\ h[1] = [id |-> 2, data |-> a] /\ h[2] = [id |-> 3, data |-> z] /\ h[3] = [id |-> 4, data |-> "seed"]
        /\ h[4] = [id |-> 7, data |-> "iv"] /\ h[5] = [id |-> 11, data |-> kdf] /\ h[6] = [id |-> 0, data |-> "end"]
    OBVIOUS
  <1>4. /\ h[1].id = 2 /\ h[2].id = 3 /\ h[3].id = 4 /\ h[4].id = 7 /\ h[5].id = 11 /\ h[6].id = 0
        /\ h[1].data = a /\ h[3].data = "seed" /\ h[4].data = "iv" /\ h[5].data = kdf
    BY <1>3
  <1>5. \A i \in 1..6 : i = 1 \/ i = 2 \/ i = 3 \/ i = 4 \/ i = 5 \/ i = 6
    OBVIOUS
  <1>6. 1 \in 1..6 /\ 3 \in 1..6 /\ 4 \in 1..6 /\ 5 \in 1..6
    OBVIOUS
  <1>7. K!HeaderField(h, 11) = kdf
    <2>1. \A i \in 1..6 : h[i].id = 11 => i = 5
      BY <1>4, <1>5
    <2> QED BY <1>2, <1>4, <1>6, <2>1, HeaderFieldIs
  <1>8. K!HeaderField(h, 4) = "seed"
    <2>1. \A i \in 1..6 : h[i].id = 4 => i = 3
      BY <1>4, <1>5
    <2> QED BY <1>2, <1>4, <1>6, <2>1, HeaderFieldIs
  <1>9. K!HeaderField(h, 2) = a
    <2>1. \A i \in 1..6 : h[i].id = 2 => i = 1
      BY <1>4, <1>5
    <2> QED BY <1>2, <1>4, <1>6, <2>1, HeaderFieldIs
  <1>10. K!HeaderField(h, 7) = "iv"
    <2>1. \A i \in 1..6 : h[i].id = 7 => i = 4
      BY <1>4, <1>5
    <2> QED BY <1>2, <1>4, <1>6, <2>1, HeaderFieldIs
  <1> QED BY <1>7, <1>8, <1>9, <1>10

LEMMA HeaderHolds ==
  ASSUME NEW o
  PROVE  /\ K!HeaderField(TheHeader(o), 11) = o.kdf /\ K!HeaderField(TheHeader(o), 4) = "seed"
         /\ K!HeaderField(TheHeader(o), 2) = o.cipher /\ K!HeaderField(TheHeader(o), 7) = "iv"
  <1> PICK h, a, z, kdf : h = TheHeader(o) /\ a = o.cipher /\ z = o.zipped /\ kdf = o.kdf
    OBVIOUS
  <1>1. h = << [id |-> 2, data |-> a], [id |-> 3, data |-> z], [id |-> 4, data |-> "seed"],
               [id |-> 7, data |-> "iv"], [id |-> 11, data |-> kdf], [id |-> 0, data |-> "end"] >>
    BY Zenon DEF TheHeader, K!Header
  <1>2. /\ K!HeaderField(h, 11) = kdf /\ K!HeaderField(h, 4) = "seed"
        /\ K!HeaderField(h, 2) = a /\ K!HeaderField(h, 7) = "iv"
    BY ONLY <1>1, FieldsOfHeader
  <1> QED BY <1>2, Zenon

LEMMA File4Is ==
  ASSUME NEW o, NEW x
  PROVE  \E R, S :
           /\ K!File4(o, x) = [magic |-> TRUE, major |-> 4, header |-> TheHeader(o), rest |-> R]
           /\ R \in Seq(S) /\ Len(R) = 5 /\ R[1] = K!Hash(TheHeader(o))
           /\ R[2] = K!HeaderHmac(Base(o, "password"), TheHeader(o))
           /\ \A n \in 0..2 : R[n + 3] = [data |-> Data(o, x, n), hmac |-> Mac(o, x, n)]
  <1> PICK h, base : h = TheHeader(o) /\ base = Base(o, "password")
    OBVIOUS
  <1> PICK a, b, c : a = K!Hash(h) /\ b = K!HeaderHmac(base, h)
                     /\ c = [data |-> NoData, hmac |-> K!BlockHmac(base, 2, NoData)]
    OBVIOUS
  <1> PICK p, q : /\ p = [data |-> Block(o, x, 1), hmac |-> K!BlockHmac(base, 0, Block(o, x, 1))]
                  /\ q = [data |-> Block(o, x, 2), hmac |-> K!BlockHmac(base, 1, Block(o, x, 2))]
    OBVIOUS
  <1> PICK R : R = <<a, b, p, q, c>>
    OBVIOUS
  <1> DEFINE d == [n \in 1..2 |-> Block(o, x, n)]
             e == [n \in 1..2 |-> [data |-> d[n], hmac |-> K!BlockHmac(base, n - 1, d[n])]]
  <1>1. K!File4(o, x) = [magic |-> TRUE, major |-> 4, header |-> h,
                         rest |-> <<a, b>> \o e \o <<c>>]
    <2>1. K!PayloadParts = 2
      BY DEF K!PayloadParts
    <2> QED BY <2>1, Zenon DEF K!File4, TheHeader, Base, Derived, Block, Payload
  <1>2. e = <<p, q>>
    <2>1. e[1] = p /\ e[2] = q
      <3>1. d[1] = Block(o, x, 1) /\ d[2] = Block(o, x, 2)
        OBVIOUS
      <3> PICK b1, b2 : b1 = Block(o, x, 1) /\ b2 = Block(o, x, 2)
        OBVIOUS
      <3> HIDE DEF d
      <3> QED BY <3>1
    <2>2. e = [n \in 1..2 |-> e[n]]
      OBVIOUS
    <2> HIDE DEF e
    <2> QED BY <2>1, <2>2
  <1> HIDE DEF e
  <1>3. <<a, b>> \o <<p, q>> \o <<c>> = R
    BY FiveTogether
  <1> PICK S : S = {a, b, p, q, c}
    OBVIOUS
  <1>4. R \in Seq(S) /\ Len(R) = 5 /\ R[1] = a /\ R[2] = b /\ R[3] = p /\ R[4] = q /\ R[5] = c
    BY ONLY R = <<a, b, p, q, c>>, S = {a, b, p, q, c}
  <1>5. ASSUME NEW n \in 0..2 PROVE R[n + 3] = [data |-> Data(o, x, n), hmac |-> Mac(o, x, n)]
    <2>1. CASE n = 0
      <3>1. Data(o, x, n) = Block(o, x, 1)
        BY <2>1 DEF Data
      <3> QED BY <1>4, <2>1, <3>1 DEF Mac
    <2>2. CASE n = 1
      <3>1. Data(o, x, n) = Block(o, x, 2)
        BY <2>2 DEF Data
      <3> QED BY <1>4, <2>2, <3>1 DEF Mac
    <2>3. CASE n = 2
      <3>1. Data(o, x, n) = NoData
        BY <2>3 DEF Data
      <3> QED BY <1>4, <2>3, <3>1 DEF Mac
    <2> QED BY <2>1, <2>2, <2>3
  <1>6. K!File4(o, x) = [magic |-> TRUE, major |-> 4, header |-> h, rest |-> R]
    BY <1>1, <1>2, <1>3
  <1> QED BY <1>4, <1>5, <1>6

LEMMA FirstOne ==
  ASSUME NEW T, NEW n \in Nat, n \in T, n > 0
  PROVE  \E j \in 1..n : j \in T /\ \A k \in 1..j - 1 : k \notin T
  <1> SUFFICES ASSUME ~\E j \in 1..n : j \in T /\ \A k \in 1..j - 1 : k \notin T PROVE FALSE
    OBVIOUS
  <1> DEFINE S == {k \in Nat : k <= n => \A i \in 1..k : i \notin T}
  <1>1. 0 \in S
    OBVIOUS
  <1>2. ASSUME NEW k \in Nat, k \in S PROVE k + 1 \in S
    <2> SUFFICES ASSUME k + 1 <= n PROVE \A i \in 1..k + 1 : i \notin T
      OBVIOUS
    <2>1. \A i \in 1..k : i \notin T
      BY <1>2
    <2> PICK j \in 1..n : j = k + 1
      OBVIOUS
    <2>2. j - 1 = k
      OBVIOUS
    <2>3. j \notin T
      BY <2>1, <2>2
    <2>4. \A i \in 1..k + 1 : i \in 1..k \/ i = j
      OBVIOUS
    <2> QED BY <2>1, <2>3, <2>4
  <1> HIDE DEF S
  <1>3. n \in S
    BY <1>1, <1>2, Induction
  <1> QED BY <1>3 DEF S

\* A MAC is of one key, place and data.
LEMMA MacsDiffer ==
  ASSUME NEW o, NEW x, NEW n \in 0..2, NEW m \in Int, NEW pw, NEW data1,
         Mac(o, x, n) = K!BlockHmac(Base(o, pw), m, data1)
  PROVE  m = n /\ data1 = Data(o, x, n) /\ Derived(o, pw) = Derived(o, "password")
  <1> PICK b1, b2, d1, d2, e1, e2 :
         /\ b1 = Base(o, "password") /\ b2 = Base(o, pw) /\ e2 = Data(o, x, n)
         /\ d1 = Derived(o, "password") /\ d2 = Derived(o, pw) /\ e1 = data1
    OBVIOUS
  <1>1. [key |-> b1, index |-> n, data |-> e2] = [key |-> b2, index |-> m, data |-> e1]
    BY Zenon DEF Mac, K!BlockHmac
  <1>2. b1 = b2 /\ n = m /\ e2 = e1
    BY <1>1
  <1>3. b1 = [use |-> "hmac", seed |-> "seed", of |-> d1] /\ b2 = [use |-> "hmac", seed |-> "seed", of |-> d2]
    BY Zenon DEF Base, K!HmacKeyBase
  <1>4. d1 = d2
    BY <1>2, <1>3
  <1> QED BY <1>2, <1>4, Zenon

\* The end of the blocks is the first block without data.
LEMMA EndIs ==
  ASSUME NEW S, NEW B \in Seq(S), \E n \in DOMAIN B : K!Ends(B[n])
  PROVE  /\ K!BlocksEnd(B) \in 1..Len(B) /\ K!Ends(B[K!BlocksEnd(B)])
         /\ \A m \in 1..K!BlocksEnd(B) - 1 : ~K!Ends(B[m])
  <1> DEFINE First(n) == K!Ends(B[n]) /\ \A m \in 1..n - 1 : ~K!Ends(B[m])
  <1> PICK n \in DOMAIN B : K!Ends(B[n])
    OBVIOUS
  <1>1. DOMAIN B = 1..Len(B) /\ n \in Nat /\ n > 0 /\ Len(B) \in Nat /\ n <= Len(B)
    OBVIOUS
  <1>2. \E j \in DOMAIN B : First(j)
    <2> PICK T : T = {k \in Nat : K!Ends(B[k])}
      OBVIOUS
    <2>1. n \in T
      BY <1>1
    <2>2. PICK j \in 1..n : j \in T /\ \A k \in 1..j - 1 : k \notin T
      BY <1>1, <2>1, FirstOne
    <2>3. j \in DOMAIN B /\ K!Ends(B[j])
      BY <1>1, <2>2
    <2>4. ASSUME NEW m \in 1..j - 1 PROVE ~K!Ends(B[m])
      <3>1. m \in Nat /\ m \notin T
        BY <2>2
      <3> QED BY <3>1
    <2> QED BY <2>3, <2>4
  <1>3. K!BlocksEnd(B) = CHOOSE j \in DOMAIN B : First(j)
    BY Zenon DEF K!BlocksEnd
  <1> HIDE DEF First
  <1>4. K!BlocksEnd(B) \in DOMAIN B /\ First(K!BlocksEnd(B))
    BY <1>2, <1>3, Zenon
  <1> USE DEF First
  <1> QED BY <1>1, <1>4

\* Blocks that are all authentic are the ones that were written, in order.
LEMMA BlocksAreAuthentic ==
  ASSUME NEW o, NEW x, NEW S, NEW B \in Seq(S), NEW pw,
         Block(o, x, 1) # NoData, Block(o, x, 2) # NoData,
         \A i \in 1..Len(B) : \E n \in 0..2 : B[i].hmac = Mac(o, x, n),
         \E n \in DOMAIN B : K!Ends(B[n]),
         \A n \in 1..K!BlocksEnd(B) : B[n].hmac = K!BlockHmac(Base(o, pw), n - 1, B[n].data)
  PROVE  /\ K!BlocksEnd(B) = 3 /\ Derived(o, pw) = Derived(o, "password")
         /\ B[1].data = Block(o, x, 1) /\ B[2].data = Block(o, x, 2)
  <1> PICK end : end = K!BlocksEnd(B)
    OBVIOUS
  <1>1. end \in 1..Len(B) /\ K!Ends(B[end]) /\ \A m \in 1..end - 1 : ~K!Ends(B[m])
    BY EndIs
  <1>2. ASSUME NEW i \in 1..end
        PROVE  i - 1 \in 0..2 /\ B[i].data = Data(o, x, i - 1) /\ Derived(o, pw) = Derived(o, "password")
    <2>1. i \in 1..Len(B)
      BY <1>1
    <2>2. PICK n \in 0..2 : B[i].hmac = Mac(o, x, n)
      BY <2>1
    <2> PICK m \in Int : m = i - 1
      OBVIOUS
    <2>3. Mac(o, x, n) = K!BlockHmac(Base(o, pw), m, B[i].data)
      BY <2>2
    <2>4. m = n /\ B[i].data = Data(o, x, n) /\ Derived(o, pw) = Derived(o, "password")
      BY <2>3, MacsDiffer
    <2> QED BY <2>4
  <1>3. end \in 1..3
    BY <1>1, <1>2
  <1>4. /\ Data(o, x, 0) = Block(o, x, 1) /\ Data(o, x, 1) = Block(o, x, 2)
    BY DEF Data
  <1>5. B[end].data = NoData
    BY <1>1 DEF K!Ends
  <1>6. end = 3
    <2>1. CASE end = 1
      BY <1>2, <1>4, <1>5, <2>1
    <2>2. CASE end = 2
      BY <1>2, <1>4, <1>5, <2>2
    <2> QED BY <1>3, <2>1, <2>2
  <1>7. B[1].data = Block(o, x, 1) /\ B[2].data = Block(o, x, 2) /\ Derived(o, pw) = Derived(o, "password")
    <2>1. 1 \in 1..end /\ 2 \in 1..end /\ 1 - 1 = 0 /\ 2 - 1 = 1
      BY <1>6
    <2> QED BY <1>2, <1>4, <2>1
  <1> QED BY <1>6, <1>7

LEMMA TwoTogether ==
  ASSUME NEW a, NEW b
  PROVE  <<a>> \o <<b>> = <<a, b>> /\ Append(Append(<<>>, a), b) = <<a, b>>
  <1> PICK S : S = {a, b}
    OBVIOUS
  <1> PICK u, v, w, e : u = <<a>> /\ v = <<b>> /\ w = <<a, b>> /\ e = Append(<<>>, a)
    OBVIOUS
  <1>1. /\ u \in Seq(S) /\ Len(u) = 1 /\ u[1] = a /\ v \in Seq(S) /\ Len(v) = 1 /\ v[1] = b
        /\ w \in Seq(S) /\ Len(w) = 2 /\ w[1] = a /\ w[2] = b
    OBVIOUS
  <1>2. \A i \in 1..2 : i = 1 \/ i = 2
    OBVIOUS
  <1>3. u \o v = w
    <2> PICK z : z = u \o v
      OBVIOUS
    <2>1. z \in Seq(S) /\ Len(z) = 2 /\ z[1] = a /\ z[2] = b
      <3>1. u \in Seq(S) /\ v \in Seq(S)
        BY <1>1
      <3>2. /\ u \o v \in Seq(S) /\ Len(u \o v) = Len(u) + Len(v)
            /\ \A i \in 1..Len(u) : (u \o v)[i] = u[i]
            /\ \A i \in 1..Len(v) : (u \o v)[Len(u) + i] = v[i]
        BY ONLY <3>1, Joins
      <3> QED BY <1>1, <3>2
    <2>2. \A i \in 1..2 : z[i] = w[i]
      BY <1>1, <1>2, <2>1
    <2> QED BY <1>1, <2>1, <2>2, SeqEqual
  <1>4. Append(e, b) = w
    <2> PICK z : z = Append(e, b)
      OBVIOUS
    <2>1. e \in Seq(S) /\ Len(e) = 1 /\ e[1] = a
      OBVIOUS
    <2>2. z \in Seq(S) /\ Len(z) = 2 /\ z[1] = a /\ z[2] = b
      BY <2>1
    <2>3. \A i \in 1..2 : z[i] = w[i]
      BY <1>1, <1>2, <2>2
    <2> QED BY <1>1, <2>2, <2>3, SeqEqual
  <1> QED BY <1>3, <1>4

\* The cipher gives back what was encrypted when the parts are all there.
LEMMA PayloadIsRead ==
  ASSUME NEW o, NEW x
  PROVE  K!decryptOuter(o.cipher, K!CipherKey("seed", Derived(o, "password")), "iv",
           K!FlattenSeq(<<Block(o, x, 1), Block(o, x, 2)>>)) = Payload(o, x)
  <1> PICK key, cipher, p : /\ key = K!CipherKey("seed", Derived(o, "password"))
                            /\ cipher = o.cipher /\ p = Payload(o, x)
    OBVIOUS
  <1> PICK e1, e2 :
         /\ e1 = [cipher |-> cipher, key |-> key, iv |-> "iv", payload |-> p, part |-> 1]
         /\ e2 = [cipher |-> cipher, key |-> key, iv |-> "iv", payload |-> p, part |-> 2]
    OBVIOUS
  <1>1. Block(o, x, 1) = <<e1>> /\ Block(o, x, 2) = <<e2>>
    BY Zenon DEF Block, K!Part
  <1> PICK S : S = {e1, e2}
    OBVIOUS
  <1> PICK u, v : u = <<e1>> /\ v = <<e2>>
    OBVIOUS
  <1>2. u \in Seq(S) /\ v \in Seq(S)
    OBVIOUS
  <1>3. FlattenSeq(<<u, v>>) = <<e1, e2>>
    <2>1. FlattenSeq(Append(<<>>, u)) = FlattenSeq(<<>>) \o u
      <3>1. <<>> \in Seq(Seq(S))
        OBVIOUS
      <3> QED BY ONLY <1>2, <3>1, FlattenAppend
    <2>2. FlattenSeq(Append(Append(<<>>, u), v)) = FlattenSeq(Append(<<>>, u)) \o v
      <3>1. Append(<<>>, u) \in Seq(Seq(S))
        BY <1>2
      <3> QED BY ONLY <1>2, <3>1, FlattenAppend
    <2>3. Append(Append(<<>>, u), v) = <<u, v>> /\ FlattenSeq(<<>>) \o u = u
      <3>1. FlattenSeq(<<>>) = <<>>
        BY FlattenEmpty
      <3>2. <<>> \o u = u
        BY ONLY <1>2
      <3>3. Append(Append(<<>>, u), v) = <<u, v>>
        BY TwoTogether
      <3> QED BY <3>1, <3>2, <3>3
    <2>4. u \o v = <<e1, e2>>
      BY TwoTogether
    <2> QED BY <2>1, <2>2, <2>3, <2>4
  <1> PICK parts : parts = <<e1, e2>>
    OBVIOUS
  <1>4. K!FlattenSeq(<<Block(o, x, 1), Block(o, x, 2)>>) = parts
    BY <1>1, <1>3, KFlat
  <1>5. /\ Len(parts) = 2
        /\ \A k \in DOMAIN parts : parts[k].key = key /\ parts[k].iv = "iv" /\ parts[k].part = k
        /\ parts[1].payload = p
    <2>1. Len(parts) = 2 /\ DOMAIN parts = {1, 2} /\ parts[1] = e1 /\ parts[2] = e2
      OBVIOUS
    <2>2. /\ e1.key = key /\ e1.iv = "iv" /\ e1.part = 1 /\ e1.payload = p
          /\ e2.key = key /\ e2.iv = "iv" /\ e2.part = 2
      OBVIOUS
    <2> QED BY <2>1, <2>2
  <1>6. K!decryptOuter(cipher, key, "iv", parts) = p
    BY <1>5, Zenon DEF K!decryptOuter, K!PayloadParts
  <1> QED BY <1>4, <1>6

\* What the reader computes of a file of version 4.
Keys4(f, pw) == K!Transformed(K!HeaderField(f.header, 11), K!Composite(pw))
Base4(f, pw) == K!HmacKeyBase(K!HeaderField(f.header, 4), Keys4(f, pw))
Blocks4(f) == SubSeq(f.rest, 3, Len(f.rest))
Payload4(f, pw) ==
  K!decryptOuter(K!HeaderField(f.header, 2), K!CipherKey(K!HeaderField(f.header, 4), Keys4(f, pw)),
    K!HeaderField(f.header, 7),
    K!FlattenSeq([k \in 1..K!BlocksEnd(Blocks4(f)) - 1 |-> Blocks4(f)[k].data]))
Read4(f, pw) ==
  [code |-> "ok", xml |-> Payload4(f, pw).xml, header |-> NoData,
   stream |-> K!innerStreamFor(Payload4(f, pw).stream.id, Payload4(f, pw).stream.key)]

\* One that is not refused has its header and blocks vouched for, and is
\* decrypted from these.
LEMMA Opened4 ==
  ASSUME NEW f, NEW pw, K!readKdbx4(f, pw).code = "ok"
  PROVE  /\ ~(Len(f.rest) < 1) /\ Head(f.rest) = K!Hash(f.header)
         /\ \E n \in DOMAIN Blocks4(f) : K!Ends(Blocks4(f)[n])
         /\ \A n \in 1..K!BlocksEnd(Blocks4(f)) :
              Blocks4(f)[n].hmac = K!BlockHmac(Base4(f, pw), n - 1, Blocks4(f)[n].data)
         /\ K!readKdbx4(f, pw) = Read4(f, pw)
  <1> DEFINE blocks == Blocks4(f)
             base == Base4(f, pw)
             Cut == Len(f.rest) < 1 \/ Head(f.rest) # K!Hash(f.header)
             Kdf == K!HeaderField(f.header, 11) \notin {"aes", "argon"}
             Mistyped == Len(f.rest) < 2 \/ f.rest[2] # K!HeaderHmac(base, f.header)
             Broken == \/ ~\E n \in DOMAIN blocks : K!Ends(blocks[n])
                       \/ \E n \in 1..K!BlocksEnd(blocks) :
                            blocks[n].hmac # K!BlockHmac(base, n - 1, blocks[n].data)
             Cipher == K!HeaderField(f.header, 2) \notin {"aes", "chacha"}
  <1>1. K!readKdbx4(f, pw) =
          IF Cut THEN K!Refused("corrupt")
          ELSE IF Kdf THEN K!Refused("unsupported")
          ELSE IF Mistyped THEN K!Refused("bad-password")
          ELSE IF Broken THEN K!Refused("corrupt")
          ELSE IF Cipher THEN K!Refused("unsupported") ELSE Read4(f, pw)
    BY Zenon DEF K!readKdbx4, K!deriveTransformed, Keys4, Base4, Blocks4, Payload4, Read4
  <1>2. /\ K!Refused("corrupt").code # "ok" /\ K!Refused("unsupported").code # "ok"
        /\ K!Refused("bad-password").code # "ok"
    BY DEF K!Refused
  <1> HIDE DEF Cut, Kdf, Mistyped, Broken, Cipher
  <1>3. ~Cut /\ ~Broken /\ K!readKdbx4(f, pw) = Read4(f, pw)
    BY <1>1, <1>2, Zenon
  <1>4. ~(Len(f.rest) < 1) /\ Head(f.rest) = K!Hash(f.header)
    BY <1>3, Zenon DEF Cut
  <1>5. /\ \E n \in DOMAIN blocks : K!Ends(blocks[n])
        /\ \A n \in 1..K!BlocksEnd(blocks) : blocks[n].hmac = K!BlockHmac(base, n - 1, blocks[n].data)
    BY <1>3, Zenon DEF Broken
  <1> QED BY <1>3, <1>4, <1>5, Zenon

\* What is read of a file is what was written, when its blocks are blocks that
\* were written, each of them altered, moved, repeated or lost.
LEMMA OnlyWhatWasWritten ==
  ASSUME NEW o, NEW x, NEW f, NEW S, f.rest \in Seq(S), NEW pw,
         Block(o, x, 1) # NoData, Block(o, x, 2) # NoData,
         \/ f.header = TheHeader(o) \/ f.rest = <<>> \/ f.rest[1] = K!Hash(TheHeader(o)),
         \A i \in 3..Len(f.rest) : \E n \in 0..2 : f.rest[i].hmac = Mac(o, x, n),
         K!readKdbx4(f, pw).code = "ok"
  PROVE  K!readKdbx4(f, pw) = [code |-> "ok", xml |-> x, header |-> NoData,
                               stream |-> K!innerStreamFor(o.stream, "inner")]
  <1> PICK h, R, B : h = f.header /\ R = f.rest /\ B = Blocks4(f)
    OBVIOUS
  <1>0. /\ ~(Len(R) < 1) /\ Head(R) = K!Hash(h)
        /\ \E n \in DOMAIN B : K!Ends(B[n])
        /\ \A n \in 1..K!BlocksEnd(B) : B[n].hmac = K!BlockHmac(Base4(f, pw), n - 1, B[n].data)
        /\ K!readKdbx4(f, pw) = Read4(f, pw)
    BY Opened4, Zenon
  <1>1. h = TheHeader(o)
    <2>1. CASE R[1] = K!Hash(TheHeader(o))
      <3>1. K!Hash(h) = K!Hash(TheHeader(o))
        BY <1>0, <2>1
      <3> PICK g : g = TheHeader(o)
        OBVIOUS
      <3>2. [hash |-> h] = [hash |-> g]
        BY <3>1 DEF K!Hash
      <3>3. h = g
        BY <3>2
      <3> QED BY <3>3
    <2>2. R # <<>>
      BY <1>0
    <2> QED BY <2>1, <2>2
  <1>2. /\ K!HeaderField(h, 11) = o.kdf /\ K!HeaderField(h, 4) = "seed"
        /\ K!HeaderField(h, 2) = o.cipher /\ K!HeaderField(h, 7) = "iv"
    BY <1>1, HeaderHolds
  <1>3. Keys4(f, pw) = Derived(o, pw) /\ Base4(f, pw) = Base(o, pw)
    BY <1>2, Zenon DEF Derived, Base, Keys4, Base4
  <1>4. B \in Seq(S) /\ \A i \in 1..Len(B) : i + 2 \in 3..Len(R) /\ B[i] = R[i + 2]
    <2> PICK l \in Nat : l = Len(R)
      OBVIOUS
    <2> QED BY DEF Blocks4
  <1>5. \A i \in 1..Len(B) : \E n \in 0..2 : B[i].hmac = Mac(o, x, n)
    BY <1>4
  <1>6. /\ K!BlocksEnd(B) = 3 /\ Derived(o, pw) = Derived(o, "password")
        /\ B[1].data = Block(o, x, 1) /\ B[2].data = Block(o, x, 2)
    <2>1. \A n \in 1..K!BlocksEnd(B) : B[n].hmac = K!BlockHmac(Base(o, pw), n - 1, B[n].data)
      BY <1>0, <1>3, Zenon
    <2>2. B \in Seq(S)
      BY <1>4
    <2>3. \E n \in DOMAIN B : K!Ends(B[n])
      BY <1>0
    <2> QED BY ONLY <1>5, <2>1, <2>2, <2>3, Block(o, x, 1) # NoData, Block(o, x, 2) # NoData, BlocksAreAuthentic
  <1>7. [k \in 1..K!BlocksEnd(B) - 1 |-> B[k].data] = <<Block(o, x, 1), Block(o, x, 2)>>
    <2> PICK a, b, e : a = Block(o, x, 1) /\ b = Block(o, x, 2) /\ e = K!BlocksEnd(B)
      OBVIOUS
    <2>0. e = 3 /\ B[1].data = a /\ B[2].data = b
      BY <1>6
    <2>1. [k \in 1..e - 1 |-> B[k].data] = <<a, b>>
      BY ONLY <2>0
    <2> QED BY <2>1, Zenon
  <1>8. Payload4(f, pw) = Payload(o, x)
    <2>1. K!decryptOuter(o.cipher, K!CipherKey("seed", Derived(o, "password")), "iv",
            K!FlattenSeq(<<Block(o, x, 1), Block(o, x, 2)>>)) = Payload(o, x)
      BY PayloadIsRead, Zenon
    <2> QED BY <1>2, <1>3, <1>6, <1>7, <2>1, Zenon DEF Payload4
  <1>9. Payload(o, x).xml = x /\ Payload(o, x).stream.id = o.stream /\ Payload(o, x).stream.key = "inner"
    <2> PICK z, st : z = o.zipped /\ st = o.stream
      OBVIOUS
    <2>1. Payload(o, x) = [zipped |-> z, stream |-> [id |-> st, key |-> "inner"], xml |-> x]
      BY DEF Payload
    <2> QED BY ONLY <2>1, st = o.stream
  <1> QED BY <1>0, <1>8, <1>9, Zenon DEF Read4

-----------------------------------------------------------------------------
(* The damages: blocks keep the MAC they had.                              *)

Marked(M, r) ==
  (\E S : r \in Seq(S)) /\ \A i \in 3..Len(r) : r[i].hmac \in M

LEMMA CutShort ==
  ASSUME NEW M, NEW r, Marked(M, r), NEW n \in DOMAIN r
  PROVE  Marked(M, SubSeq(r, 1, n))
  <1> PICK S : r \in Seq(S)
    BY DEF Marked
  <1> PICK l \in Nat : l = Len(r) /\ n \in 1..l
    OBVIOUS
  <1> PICK q : q = SubSeq(r, 1, n)
    OBVIOUS
  <1>1. q \in Seq(S) /\ Len(q) = n /\ \A i \in 1..n : q[i] = r[i]
    OBVIOUS
  <1>2. \A i \in 3..Len(q) : q[i].hmac \in M
    <2>1. \A i \in 3..l : r[i].hmac \in M
      BY DEF Marked
    <2> QED BY <1>1, <2>1
  <1> QED BY <1>1, <1>2 DEF Marked

LEMMA Removed ==
  ASSUME NEW M, NEW r, Marked(M, r), NEW n \in 3..Len(r)
  PROVE  Marked(M, K!RemoveAt(r, n))
  <1> PICK S : r \in Seq(S)
    BY DEF Marked
  <1> PICK l \in Nat : l = Len(r) /\ n \in 3..l
    OBVIOUS
  <1> PICK a \in Nat : a = n - 1 /\ a > 1
    <2>1. n - 1 \in Nat /\ n - 1 > 1
      OBVIOUS
    <2> QED BY <2>1
  <1> PICK b \in Nat : b = l - n /\ n + b = l
    <2>1. l - n \in Nat /\ n + (l - n) = l
      OBVIOUS
    <2> QED BY <2>1
  <1> PICK u, v : u = SubSeq(r, 1, n - 1) /\ v = SubSeq(r, n + 1, Len(r))
    OBVIOUS
  <1>1. /\ u \in Seq(S) /\ Len(u) = a /\ \A i \in 1..a : u[i] = r[i]
        /\ v \in Seq(S) /\ Len(v) = b /\ \A i \in 1..b : v[i] = r[n + i]
    OBVIOUS
  <1> PICK q : q = u \o v
    OBVIOUS
  <1>2. q \in Seq(S) /\ Len(q) = a + b
        /\ (\A i \in 1..a : q[i] = u[i]) /\ \A i \in 1..b : q[a + i] = v[i]
    <2>1. u \in Seq(S) /\ v \in Seq(S)
      BY <1>1
    <2>2. /\ u \o v \in Seq(S) /\ Len(u \o v) = Len(u) + Len(v)
          /\ \A i \in 1..Len(u) : (u \o v)[i] = u[i]
          /\ \A i \in 1..Len(v) : (u \o v)[Len(u) + i] = v[i]
      BY ONLY <2>1, Joins
    <2>3. Len(u) = a /\ Len(v) = b
      BY <1>1
    <2> QED BY ONLY <2>2, <2>3, q = u \o v
  <1>3. ASSUME NEW i \in 3..Len(q) PROVE q[i].hmac \in M
    <2>1. \A j \in 3..l : r[j].hmac \in M
      BY DEF Marked
    <2>0. i \in 3..a + b
      BY <1>2
    <2>2. CASE i <= a
      <3>1. i \in 1..a /\ i \in 3..l
        BY <2>0, <2>2
      <3> QED BY <1>1, <1>2, <2>1, <3>1
    <2>3. CASE i > a
      <3> PICK j \in 1..b : i = a + j
        <4>1. i - a \in 1..b /\ i = a + (i - a)
          BY <2>0, <2>3
        <4> QED BY <4>1
      <3>1. q[i] = v[j] /\ v[j] = r[n + j]
        BY <1>1, <1>2
      <3>2. n + j \in 3..l
        OBVIOUS
      <3> QED BY <2>1, <3>1, <3>2
    <2> QED BY <2>0, <2>2, <2>3
  <1>4. K!RemoveAt(r, n) = q
    BY Zenon DEF K!RemoveAt
  <1> QED BY <1>2, <1>3, <1>4 DEF Marked

\* One part in the place of another: what matters is the MACs.
LEMMA Replaced ==
  ASSUME NEW M, NEW r, Marked(M, r), NEW n \in DOMAIN r, NEW e, n > 2 => e.hmac \in M
  PROVE  Marked(M, [r EXCEPT ![n] = e])
  <1> PICK S : r \in Seq(S)
    BY DEF Marked
  <1> PICK l \in Nat : l = Len(r) /\ n \in 1..l
    OBVIOUS
  <1> PICK q, T : q = [r EXCEPT ![n] = e] /\ T = S \cup {e}
    OBVIOUS
  <1>1. q \in Seq(T) /\ Len(q) = l /\ q[n] = e /\ \A i \in 1..l : i # n => q[i] = r[i]
    OBVIOUS
  <1>2. \A i \in 3..l : r[i].hmac \in M
    BY DEF Marked
  <1>3. \A i \in 3..Len(q) : q[i].hmac \in M
    BY <1>1, <1>2
  <1> QED BY <1>1, <1>3 DEF Marked

\* What damage leaves of a file of version 4: its blocks are still blocks that
\* were written, or altered ones; a header that was altered is not the one
\* whose hash follows.
Survives(h, M, r, g) ==
  /\ g.major \in {1, 4} /\ Marked(M, g.rest)
  /\ g.header = h \/ g.rest = <<>> \/ g.rest = r

LEMMA PartSurvives ==
  ASSUME NEW h, NEW M, NEW r, Marked(M, r),
         NEW f, f = [magic |-> TRUE, major |-> 4, header |-> h, rest |-> r], NEW g
  PROVE  /\ (\E n : g = [magic |-> f.magic, major |-> f.major, header |-> SubSeq(f.header, 1, n), rest |-> <<>>])
              => Survives(h, M, r, g)
         /\ (\E n : g = [f EXCEPT !.header[n].data = Damaged]) => Survives(h, M, r, g)
         /\ g = [f EXCEPT !.magic = FALSE] => Survives(h, M, r, g)
         /\ g = [f EXCEPT !.major = 1] => Survives(h, M, r, g)
         /\ g = [f EXCEPT !.header[2].data = ~@] => Survives(h, M, r, g)
         /\ (\E q : Marked(M, q) /\ g = [f EXCEPT !.rest = q]) => Survives(h, M, r, g)
  <1>1. f.header = h /\ f.rest = r /\ f.major = 4 /\ f.magic = TRUE
    OBVIOUS
  <1>2. ASSUME NEW n, g = [magic |-> f.magic, major |-> f.major, header |-> SubSeq(f.header, 1, n), rest |-> <<>>]
        PROVE  Survives(h, M, r, g)
    <2>1. <<>> \in Seq({}) /\ Len(<<>>) = 0
      OBVIOUS
    <2>2. Marked(M, <<>>)
      BY <2>1 DEF Marked
    <2> QED BY <1>1, <1>2, <2>2 DEF Survives
  <1>3. ASSUME NEW n, g = [f EXCEPT !.header[n].data = Damaged]
        PROVE  Survives(h, M, r, g)
    <2>1. g.rest = r /\ g.major = 4
      BY <1>3
    <2> QED BY <2>1 DEF Survives
  <1>4. ASSUME g = [f EXCEPT !.magic = FALSE] PROVE Survives(h, M, r, g)
    BY <1>4 DEF Survives
  <1>5. ASSUME g = [f EXCEPT !.major = 1] PROVE Survives(h, M, r, g)
    BY <1>5 DEF Survives
  <1>6. ASSUME g = [f EXCEPT !.header[2].data = ~@] PROVE Survives(h, M, r, g)
    <2>1. g.rest = r /\ g.major = 4
      BY <1>6
    <2> QED BY <2>1 DEF Survives
  <1>7. ASSUME NEW q, Marked(M, q), g = [f EXCEPT !.rest = q]
        PROVE  Survives(h, M, r, g)
    <2>1. g.rest = q /\ g.major = 4 /\ g.header = h
      BY <1>7
    <2> QED BY <1>7, <2>1 DEF Survives
  <1> QED BY <1>2, <1>3, <1>4, <1>5, <1>6, <1>7, Zenon

\* How the blocks of a file are damaged.
Without(r, n) == [r EXCEPT ![n] = Damaged]
WithoutData(r, n) == [r EXCEPT ![n].data = Damaged]
Exchanged(r, n, m) == [r EXCEPT ![n] = r[m], ![m] = r[n]]
Altered(r) ==
  {SubSeq(r, 1, n) : n \in DOMAIN r}
  \cup {Without(r, n) : n \in {1, 2}}
  \cup {K!RemoveAt(r, n) : n \in 3..Len(r)}
  \cup {WithoutData(r, n) : n \in 3..Len(r)}
  \cup {Exchanged(r, p[1], p[2]) : p \in (3..Len(r)) \X (3..Len(r))}

LEMMA AlteredAreMarked ==
  ASSUME NEW M, NEW r, Marked(M, r), Len(r) > 1,
         \A n \in 3..Len(r) : r[n] = [data |-> r[n].data, hmac |-> r[n].hmac], NEW q \in Altered(r)
  PROVE  Marked(M, q)
  <1> PICK S : r \in Seq(S)
    BY DEF Marked
  <1> PICK l \in Nat : l = Len(r) /\ DOMAIN r = 1..l /\ l > 1
    OBVIOUS
  <1>0. \A n \in 3..l : n \in 1..l /\ r[n].hmac \in M
    BY DEF Marked
  <1>1. ASSUME NEW n \in DOMAIN r, q = SubSeq(r, 1, n) PROVE Marked(M, q)
    BY <1>1, CutShort
  <1>2. ASSUME NEW n \in {1, 2}, q = Without(r, n) PROVE Marked(M, q)
    <2>1. n \in DOMAIN r /\ ~(n > 2)
      OBVIOUS
    <2> QED BY <1>2, <2>1, Replaced DEF Without
  <1>3. ASSUME NEW n \in 3..Len(r), q = K!RemoveAt(r, n) PROVE Marked(M, q)
    BY <1>3, Removed
  <1>4. ASSUME NEW n \in 3..Len(r), q = WithoutData(r, n) PROVE Marked(M, q)
    <2> PICK d, m, e : d = r[n].data /\ m = r[n].hmac /\ e = [r[n] EXCEPT !.data = Damaged]
      OBVIOUS
    <2>1. r[n] = [data |-> d, hmac |-> m] /\ n \in 1..l /\ m \in M
      BY <1>0
    <2>2. e.hmac = m
      BY <2>1
    <2>3. Marked(M, [r EXCEPT ![n] = e])
      BY <2>1, <2>2, Replaced
    <2>4. q = [r EXCEPT ![n] = e]
      BY <1>4, Zenon DEF WithoutData
    <2> QED BY <2>3, <2>4
  <1>5. ASSUME NEW n \in 3..Len(r), NEW m \in 3..Len(r), q = Exchanged(r, n, m)
        PROVE  Marked(M, q)
    <2> PICK a, b, s : a = r[n] /\ b = r[m] /\ s = [r EXCEPT ![n] = b]
      OBVIOUS
    <2>1. a.hmac \in M /\ b.hmac \in M /\ n \in 1..l /\ m \in 1..l
      BY <1>0
    <2>2. Marked(M, s)
      BY <2>1, Replaced
    <2>3. DOMAIN s = 1..l
      OBVIOUS
    <2>4. Marked(M, [s EXCEPT ![m] = a])
      BY <2>1, <2>2, <2>3, Replaced
    <2>5. q = [s EXCEPT ![m] = a]
      BY <1>5 DEF Exchanged
    <2> QED BY <2>4, <2>5
  <1>6. ASSUME NEW p \in (3..Len(r)) \X (3..Len(r)), q = Exchanged(r, p[1], p[2]) PROVE Marked(M, q)
    <2>1. p[1] \in 3..Len(r) /\ p[2] \in 3..Len(r)
      OBVIOUS
    <2> QED BY <1>5, <1>6, <2>1
  <1> QED BY <1>1, <1>2, <1>3, <1>4, <1>6 DEF Altered

LEMMA DamagesSurvive ==
  ASSUME NEW h, NEW M, NEW r, Marked(M, r), Len(r) > 1,
         \A n \in 3..Len(r) : r[n] = [data |-> r[n].data, hmac |-> r[n].hmac],
         NEW f, f = [magic |-> TRUE, major |-> 4, header |-> h, rest |-> r],
         NEW g \in K!Damages(f)
  PROVE  Survives(h, M, r, g)
  <1>1. f.rest = r /\ f.major = 4
    OBVIOUS
  <1> DEFINE D1 == {[magic |-> f.magic, major |-> f.major, header |-> SubSeq(f.header, 1, n), rest |-> <<>>] :
                      n \in 0..Len(f.header)}
             D2 == {[f EXCEPT !.header[n].data = Damaged] : n \in 1..Len(f.header) - 1}
             D3 == {[f EXCEPT !.magic = FALSE], [f EXCEPT !.major = 1], [f EXCEPT !.header[2].data = ~@]}
             D4 == {[f EXCEPT !.rest = SubSeq(@, 1, n)] : n \in DOMAIN f.rest}
             D5 == {[f EXCEPT !.rest = Without(f.rest, n)] : n \in {1, 2}}
             D6 == {[f EXCEPT !.rest = K!RemoveAt(@, n)] : n \in 3..Len(f.rest)}
             D7 == {[f EXCEPT !.rest = WithoutData(f.rest, n)] : n \in 3..Len(f.rest)}
             D8 == {[f EXCEPT !.rest = Exchanged(f.rest, p[1], p[2])] :
                      p \in (3..Len(f.rest)) \X (3..Len(f.rest))}
             D9 == {[f EXCEPT !.rest[1].parts = SubSeq(@, 1, n)] : n \in 1..3}
                   \cup {[f EXCEPT !.rest[1].parts[n].data = Damaged] : n \in 1..3}
  <1>2. K!Damages(f) = D1 \cup D2 \cup D3 \cup (IF f.major = 4 THEN D4 \cup D5 \cup D6 \cup D7 \cup D8 ELSE D9)
    BY DEF K!Damages, Without, WithoutData, Exchanged
  <1> HIDE DEF D1, D2, D3, D4, D5, D6, D7, D8, D9
  <1>3. g \in D1 \/ g \in D2 \/ g \in D3 \/ g \in D4 \/ g \in D5 \/ g \in D6 \/ g \in D7 \/ g \in D8
    BY <1>1, <1>2
  <1>4. ASSUME NEW q \in Altered(r), g = [f EXCEPT !.rest = q] PROVE Survives(h, M, r, g)
    <2>1. Marked(M, q)
      BY AlteredAreMarked
    <2> QED BY <1>4, <2>1, PartSurvives
  <1>5. CASE g \in D1
    <2>1. \E n : g = [magic |-> f.magic, major |-> f.major, header |-> SubSeq(f.header, 1, n), rest |-> <<>>]
      BY <1>5, Zenon DEF D1
    <2> QED BY <2>1, PartSurvives
  <1>6. CASE g \in D2
    <2>1. \E n : g = [f EXCEPT !.header[n].data = Damaged]
      BY <1>6, Zenon DEF D2
    <2> QED BY <2>1, PartSurvives
  <1>7. CASE g \in D3
    <2>1. \/ g = [f EXCEPT !.magic = FALSE] \/ g = [f EXCEPT !.major = 1]
          \/ g = [f EXCEPT !.header[2].data = ~@]
      BY <1>7, Zenon DEF D3
    <2> QED BY <2>1, PartSurvives
  <1>8. CASE g \in D4
    <2>1. PICK n \in DOMAIN r : g = [f EXCEPT !.rest = SubSeq(f.rest, 1, n)]
      BY <1>1, <1>8, Zenon DEF D4
    <2>2. SubSeq(r, 1, n) \in Altered(r)
      BY DEF Altered
    <2> QED BY <1>1, <1>4, <2>1, <2>2
  <1>9. CASE g \in D5
    <2>1. PICK n \in {1, 2} : g = [f EXCEPT !.rest = Without(f.rest, n)]
      BY <1>9, Zenon DEF D5
    <2>2. Without(r, n) \in Altered(r)
      BY DEF Altered
    <2> QED BY <1>1, <1>4, <2>1, <2>2
  <1>10. CASE g \in D6
    <2>1. PICK n \in 3..Len(r) : g = [f EXCEPT !.rest = K!RemoveAt(f.rest, n)]
      BY <1>1, <1>10, Zenon DEF D6
    <2>2. K!RemoveAt(r, n) \in Altered(r)
      BY DEF Altered
    <2> QED BY <1>1, <1>4, <2>1, <2>2
  <1>11. CASE g \in D7
    <2>1. PICK n \in 3..Len(r) : g = [f EXCEPT !.rest = WithoutData(f.rest, n)]
      BY <1>1, <1>11, Zenon DEF D7
    <2>2. WithoutData(r, n) \in Altered(r)
      BY DEF Altered
    <2> QED BY <1>1, <1>4, <2>1, <2>2
  <1>12. CASE g \in D8
    <2>1. PICK p \in (3..Len(r)) \X (3..Len(r)) :
            g = [f EXCEPT !.rest = Exchanged(f.rest, p[1], p[2])]
      BY <1>1, <1>12, Zenon DEF D8
    <2>2. Exchanged(r, p[1], p[2]) \in Altered(r)
      BY DEF Altered
    <2> QED BY <1>1, <1>4, <2>1, <2>2
  <1> QED BY <1>3, <1>5, <1>6, <1>7, <1>8, <1>9, <1>10, <1>11, <1>12, Zenon

\* Of a file of version 4, whatever happened to it, nothing is read but what
\* was written.
File4Or(o, x, g) == g = K!File4(o, x) \/ g \in K!Damages(K!File4(o, x))

LEMMA WrittenIsRead ==
  ASSUME NEW o, NEW x, NEW g, File4Or(o, x, g), NEW pw,
         Block(o, x, 1) # NoData, Block(o, x, 2) # NoData
  PROVE  /\ g.major \in {1, 4}
         /\ K!readKdbx4(g, pw).code = "ok" =>
              K!readKdbx4(g, pw) = [code |-> "ok", xml |-> x, header |-> NoData,
                                    stream |-> K!innerStreamFor(o.stream, "inner")]
  <1> PICK h, M : h = TheHeader(o) /\ M = {Mac(o, x, n) : n \in 0..2}
    OBVIOUS
  <1>1. PICK R, S :
           /\ K!File4(o, x) = [magic |-> TRUE, major |-> 4, header |-> h, rest |-> R]
           /\ R \in Seq(S) /\ Len(R) = 5 /\ R[1] = K!Hash(h)
           /\ \A n \in 0..2 : R[n + 3] = [data |-> Data(o, x, n), hmac |-> Mac(o, x, n)]
    BY File4Is, Zenon
  <1>2. ASSUME NEW i \in 3..Len(R)
        PROVE  R[i] = [data |-> R[i].data, hmac |-> R[i].hmac] /\ R[i].hmac \in M
    <2> PICK n \in 0..2 : n = i - 3 /\ i = n + 3
      <3>1. i - 3 \in 0..2 /\ i = (i - 3) + 3
        BY <1>1
      <3> QED BY <3>1
    <2> PICK d, m : d = Data(o, x, n) /\ m = Mac(o, x, n)
      OBVIOUS
    <2>1. R[i] = [data |-> d, hmac |-> m]
      BY <1>1
    <2>2. m \in M
      OBVIOUS
    <2> QED BY ONLY <2>1, <2>2
  <1>3. Marked(M, R)
    BY <1>1, <1>2, Zenon DEF Marked
  <1>4. Survives(h, M, R, g)
    <2> PICK f : f = K!File4(o, x)
      OBVIOUS
    <2>1. f = [magic |-> TRUE, major |-> 4, header |-> h, rest |-> R]
      BY <1>1
    <2>2. CASE g = f
      <3>1. g.major = 4 /\ g.rest = R /\ g.header = h
        BY <2>1, <2>2
      <3> QED BY <1>3, <3>1 DEF Survives
    <2>3. CASE g \in K!Damages(f)
      <3>1. Len(R) > 1 /\ \A n \in 3..Len(R) : R[n] = [data |-> R[n].data, hmac |-> R[n].hmac]
        BY <1>1, <1>2
      <3> QED BY ONLY <1>3, <2>1, <2>3, <3>1, DamagesSurvive
    <2> QED BY <2>2, <2>3 DEF File4Or
  <1>5. g.major \in {1, 4} /\ Marked(M, g.rest) /\ (g.header = h \/ g.rest = <<>> \/ g.rest = R)
    BY <1>4, Zenon DEF Survives
  <1>6. PICK T : g.rest \in Seq(T)
    BY <1>5, Zenon DEF Marked
  <1>7. ASSUME NEW i \in 3..Len(g.rest) PROVE \E n \in 0..2 : g.rest[i].hmac = Mac(o, x, n)
    <2>1. g.rest[i].hmac \in M
      BY <1>5, Zenon DEF Marked
    <2> QED BY <2>1
  <1>8. g.header = h \/ g.rest = <<>> \/ g.rest[1] = K!Hash(h)
    BY <1>1, <1>5
  <1>9. K!readKdbx4(g, pw).code = "ok" =>
              K!readKdbx4(g, pw) = [code |-> "ok", xml |-> x, header |-> NoData,
                                    stream |-> K!innerStreamFor(o.stream, "inner")]
    BY ONLY h = TheHeader(o), <1>6, <1>7, <1>8, Block(o, x, 1) # NoData, Block(o, x, 2) # NoData, OnlyWhatWasWritten
  <1> QED BY <1>5, <1>9

-----------------------------------------------------------------------------
(* What is read of a file that is authentic is what the document says that *)
(* was written: nothing that happens to a file of version 4 gives another. *)

EntriesOf(d) ==
  K!walkGroup(K!parseXml(d),
    K!childText(K!parseXml(d), Head(K!Children(K!parseXml(d), 1, "Meta")), "RecycleBinUUID"))

LEMMA DocumentOfFile ==
  ASSUME NEW o, NEW d, NEW x, NEW g, File4Or(o, x, g), NEW pw,
         Block(o, x, 1) # NoData, Block(o, x, 2) # NoData, x # Damaged,
         K!unprotectAll(K!parseXml(x), K!NewStream(K!innerStreamFor(o.stream, "inner"))) = K!parseXml(d),
         K!readKdbx(g, pw).code = "ok"
  PROVE  K!readKdbx(g, pw).entries = EntriesOf(d)
  <1> PICK st, opened, es, declared :
        /\ st = K!innerStreamFor(o.stream, "inner")
        /\ opened = K!readKdbx4(g, pw)
        /\ es = K!unprotectAll(K!parseXml(opened.xml), K!NewStream(opened.stream))
        /\ declared = K!childText(es, Head(K!Children(es, 1, "Meta")), "HeaderHash")
    OBVIOUS
  <1> PICK E : E = K!walkGroup(es, K!childText(es, Head(K!Children(es, 1, "Meta")), "RecycleBinUUID"))
    OBVIOUS
  <1> DEFINE Later == /\ opened.header # NoData /\ declared # <<>>
                      /\ declared # K!Hash(opened.header)
  <1>0. /\ g.major \in {1, 4}
        /\ opened.code = "ok" => opened = [code |-> "ok", xml |-> x, header |-> NoData, stream |-> st]
    BY WrittenIsRead
  <1>1. g.major = 4 =>
        K!readKdbx(g, pw) =
          IF ~g.magic THEN K!Refused("not-kdbx")
          ELSE IF g.major \notin {3, 4} THEN K!Refused("unsupported")
          ELSE IF ~K!HeaderEnds(g.header) THEN K!Refused("corrupt")
          ELSE IF opened.code # "ok" THEN K!Refused(opened.code)
          ELSE IF opened.xml = Damaged THEN [code |-> "ok", entries |-> <<Damaged>>]
          ELSE IF Later THEN K!Refused("corrupt")
          ELSE [code |-> "ok", entries |-> E]
    BY Zenon DEF K!readKdbx
  <1>2. g.major # 4 /\ g.major # 3 =>
        K!readKdbx(g, pw) = K!Refused("not-kdbx") \/ K!readKdbx(g, pw) = K!Refused("unsupported")
    <2> SUFFICES ASSUME g.major # 4 /\ g.major # 3
                 PROVE  K!readKdbx(g, pw) = K!Refused("not-kdbx") \/ K!readKdbx(g, pw) = K!Refused("unsupported")
      OBVIOUS
    <2>1. g.major \notin {3, 4}
      OBVIOUS
    <2> QED BY <2>1, Zenon DEF K!readKdbx
  <1>3. \A c : K!Refused(c).code = c
    BY DEF K!Refused
  <1>4. "not-kdbx" # "ok" /\ "unsupported" # "ok" /\ "corrupt" # "ok"
    OBVIOUS
  <1>5. g.major = 4
    <2>1. g.major = 4 \/ (g.major # 4 /\ g.major # 3)
      BY <1>0
    <2> QED BY <1>2, <1>3, <1>4, <2>1, Zenon
  <1> HIDE DEF Later
  <1>6. opened.code = "ok"
    BY <1>1, <1>3, <1>4, <1>5, Zenon
  <1>7. opened = [code |-> "ok", xml |-> x, header |-> NoData, stream |-> st]
    BY <1>0, <1>6
  <1>8. opened.xml = x /\ opened.stream = st /\ opened.header = NoData
    BY ONLY <1>7
  <1>13. ~Later
    BY <1>8 DEF Later
  <1>9. es = K!parseXml(d)
    BY <1>8
  <1>10. E = EntriesOf(d)
    BY <1>9, Zenon DEF EntriesOf
  <1>11. K!readKdbx(g, pw) = [code |-> "ok", entries |-> E]
    BY <1>1, <1>3, <1>4, <1>5, <1>6, <1>8, <1>13, Zenon
  <1>12. K!readKdbx(g, pw).entries = E
    BY ONLY <1>11
  <1> QED BY <1>10, <1>12

-----------------------------------------------------------------------------
(* Where a file has got, and what it was written from.                     *)

ExportChoices == [cipher |-> "aes", zipped |-> FALSE, kdf |-> "aes", stream |-> "chacha"]
Inner(id) == [id |-> id, key |-> "inner"]

\* The files of version 4, the program's own and those of others: the choices
\* of the program, the document, and what it becomes when it is encrypted.
Source4(s, o, d, x) ==
  \/ \E v \in KdbxVaults :
       /\ s = [by |-> "export", vault |-> v] /\ o = ExportChoices
       /\ d = K!databaseXml(K!itemsToKdbxEntries(v))
       /\ x = K!Sealed(d, K!NewStream(Inner("chacha")))
  \/ \E db \in KdbxDatabases :
       /\ s = [by |-> "other", db |-> db] /\ db.major = 4 /\ o = db
       /\ d = K!ForeignXml(db, <<>>) /\ x = K!SealedByOffset(d, Inner(db.stream))

Source3(s) == \E db \in KdbxDatabases : s = [by |-> "other", db |-> db] /\ db.major = 3

\* What the source says of its entries, read from it before it is encrypted.
DocumentOf(s) ==
  IF s.by = "export" THEN K!databaseXml(K!itemsToKdbxEntries(s.vault)) ELSE K!ForeignXml(s.db, <<>>)
Version4(s) == s.by = "export" \/ s.db.major = 4

KdbxInv ==
  /\ stage \in {"none", "written", "damaged", "read", "done"}
  /\ stage # "none" => Source3(source) \/
       \E o, d, x : /\ Source4(source, o, d, x)
                    /\ stage = "written" => file = K!File4(o, x)
                    /\ stage = "damaged" => file \in K!Damages(K!File4(o, x))
                    /\ stage \in {"read", "done"} /\ code = "ok" => entries = EntriesOf(d)

\* A block can be told from the end, and a document from rubbish.
LEMMA IntactBlocks ==
  ASSUME NEW o, NEW x, Intact(K!File4(o, x))
  PROVE  Block(o, x, 1) # NoData /\ Block(o, x, 2) # NoData /\ x # Damaged
  <1> PICK f : f = K!File4(o, x)
    OBVIOUS
  <1>1. PICK R, S :
           /\ f = [magic |-> TRUE, major |-> 4, header |-> TheHeader(o), rest |-> R]
           /\ R \in Seq(S) /\ Len(R) = 5
           /\ \A n \in 0..2 : R[n + 3] = [data |-> Data(o, x, n), hmac |-> Mac(o, x, n)]
    BY File4Is, Zenon
  <1> PICK a, b : a = Block(o, x, 1) /\ b = Block(o, x, 2)
    OBVIOUS
  <1>2. Data(o, x, 0) = a /\ Data(o, x, 1) = b
    BY DEF Data
  <1>3. f.rest = R
    BY <1>1
  <1>4. R[3].data = a /\ R[4].data = b
    <2>1. /\ R[0 + 3] = [data |-> Data(o, x, 0), hmac |-> Mac(o, x, 0)]
          /\ R[1 + 3] = [data |-> Data(o, x, 1), hmac |-> Mac(o, x, 1)]
      BY <1>1
    <2> QED BY <1>2, <2>1
  <1>5. a[1].payload.xml = x
    <2> PICK z, st, key, cipher, p : z = o.zipped /\ st = [id |-> o.stream, key |-> "inner"]
          /\ cipher = o.cipher /\ p = [zipped |-> z, stream |-> st, xml |-> x]
          /\ key = K!CipherKey("seed", Derived(o, "password"))
      OBVIOUS
    <2>1. a = <<[cipher |-> cipher, key |-> key, iv |-> "iv", payload |-> p, part |-> 1]>>
      BY Zenon DEF Block, K!Part, Payload
    <2>2. p.xml = x
      OBVIOUS
    <2> QED BY ONLY <2>1, <2>2
  <1>6. (\A n \in 3..4 : f.rest[n].data # NoData) /\ f.rest[3].data[1].payload.xml # Damaged
    <2>1. K!PayloadParts + 2 = 4
      BY DEF K!PayloadParts
    <2> QED BY <2>1, Zenon DEF Intact
  <1> QED BY <1>3, <1>4, <1>5, <1>6

LEMMA Source4Is ==
  ASSUME NEW s, NEW o, NEW d, NEW x, Source4(s, o, d, x)
  PROVE  /\ Document(d) /\ Intact(K!File4(o, x)) /\ d = DocumentOf(s) /\ Version4(s)
         /\ K!unprotectAll(K!parseXml(x), K!NewStream(K!innerStreamFor(o.stream, "inner"))) = K!parseXml(d)
  <1>0. StreamAssumption /\ KdbxAssumption
    BY FormatsAssumption DEF KdbxAssumption, StreamAssumption
  <1>1. ASSUME NEW v \in KdbxVaults, s = [by |-> "export", vault |-> v], o = ExportChoices,
               d = K!databaseXml(K!itemsToKdbxEntries(v)), x = K!Sealed(d, K!NewStream(Inner("chacha")))
        PROVE  /\ Document(d) /\ Intact(K!File4(o, x)) /\ d = DocumentOf(s) /\ Version4(s)
               /\ K!unprotectAll(K!parseXml(x), K!NewStream(K!innerStreamFor(o.stream, "inner"))) = K!parseXml(d)
    <2>1. IsSeq(v) /\ (\A i \in DOMAIN v : KdbxItem(v[i])) /\ Intact(K!buildKdbx(v))
      BY <1>0, Zenon DEF KdbxAssumption
    <2>2. Document(d)
      BY <1>1, <2>1, ItemsAreFields, DatabaseDocument
    <2>3. K!buildKdbx(v) = K!File4(o, x)
      BY <1>1, Zenon DEF K!buildKdbx, ExportChoices, Inner
    <2>4. s.by = "export" /\ s.vault = v
      BY <1>1
    <2>5. K!innerStreamFor(o.stream, "inner") = Inner("chacha")
      <3>1. o.stream = "chacha"
        BY <1>1 DEF ExportChoices
      <3> QED BY <3>1 DEF K!innerStreamFor, Inner
    <2>6. K!unprotectAll(K!parseXml(x), K!NewStream(Inner("chacha"))) = K!parseXml(d)
      BY <1>0, <1>1, <2>2, DocumentIsRead
    <2> QED BY <1>1, <2>1, <2>2, <2>3, <2>4, <2>5, <2>6, Zenon DEF DocumentOf, Version4
  <1>2. ASSUME NEW db \in KdbxDatabases, s = [by |-> "other", db |-> db], db.major = 4, o = db,
               d = K!ForeignXml(db, <<>>), x = K!SealedByOffset(d, Inner(db.stream))
        PROVE  /\ Document(d) /\ Intact(K!File4(o, x)) /\ d = DocumentOf(s) /\ Version4(s)
               /\ K!unprotectAll(K!parseXml(x), K!NewStream(K!innerStreamFor(o.stream, "inner"))) = K!parseXml(d)
    <2>1. /\ db.stream \in {"chacha", "salsa", "arc4", "plain"}
          /\ KdbxEntries(db.entries) /\ Intact(K!Foreign(db))
          /\ IsSeq(db.groups) /\ \A i \in DOMAIN db.groups : KdbxEntries(db.groups[i].entries)
      BY <1>0, <1>2, Zenon DEF KdbxAssumption
    <2>2. Document(d)
      BY <1>2, <2>1, ForeignDocument
    <2>3. K!Foreign(db) = K!File4(o, x)
      <3>1. db.major # 3
        BY <1>2
      <3> QED BY <1>2, <3>1, Zenon DEF K!Foreign, Inner
    <2>4. s.by = "other" /\ s.db = db /\ "other" # "export"
      BY <1>2
    <2>5. K!innerStreamFor(o.stream, "inner") = Inner(db.stream)
      BY <1>2, <2>1 DEF K!innerStreamFor, Inner
    <2>6. K!unprotectAll(K!parseXml(x), K!NewStream(Inner(db.stream))) = K!parseXml(d)
      BY <1>0, <1>2, <2>2, DocumentIsRead
    <2> QED BY <1>2, <2>1, <2>2, <2>3, <2>4, <2>5, <2>6, Zenon DEF DocumentOf, Version4
  <1> QED BY <1>1, <1>2, Zenon DEF Source4

LEMMA KdbxInit == K!Init => KdbxInv
  BY DEF K!Init, KdbxInv

LEMMA KdbxStep == KdbxInv /\ [K!Next]_K!vars => KdbxInv'
  <1> SUFFICES ASSUME KdbxInv, [K!Next]_K!vars PROVE KdbxInv'
    OBVIOUS
  <1>1. ASSUME NEW v \in KdbxVaults, K!runExport(v) PROVE KdbxInv'
    <2> PICK d, x : /\ d = K!databaseXml(K!itemsToKdbxEntries(v))
                    /\ x = K!Sealed(d, K!NewStream(Inner("chacha")))
      OBVIOUS
    <2>1. Source4(source', ExportChoices, d, x)
      BY <1>1, Zenon DEF Source4, K!runExport
    <2>2. file' = K!File4(ExportChoices, x)
      BY <1>1, Zenon DEF K!runExport, K!buildKdbx, ExportChoices, Inner
    <2>3. stage' = "written"
      BY <1>1 DEF K!runExport
    <2> QED BY <2>1, <2>2, <2>3 DEF KdbxInv
  <1>2. ASSUME NEW db \in KdbxDatabases, K!OtherExport(db) PROVE KdbxInv'
    <2>0. source' = [by |-> "other", db |-> db] /\ stage' = "written" /\ file' = K!Foreign(db)
      BY <1>2, Zenon DEF K!OtherExport
    <2>1. CASE db.major = 3
      <3>1. Source3(source')
        BY <2>0, <2>1, Zenon DEF Source3
      <3> QED BY <2>0, <3>1 DEF KdbxInv
    <2>2. CASE db.major # 3
      <3>1. db.major = 4
        BY <2>2, FormatsAssumption DEF KdbxAssumption
      <3> PICK d, x : d = K!ForeignXml(db, <<>>) /\ x = K!SealedByOffset(d, Inner(db.stream))
        OBVIOUS
      <3>2. Source4(source', db, d, x)
        BY <2>0, <3>1, Zenon DEF Source4
      <3>3. file' = K!File4(db, x)
        BY <2>0, <2>2, Zenon DEF K!Foreign, Inner
      <3> QED BY <2>0, <3>2, <3>3 DEF KdbxInv
    <2> QED BY <2>1, <2>2
  <1>3. CASE K!Damage
    <2>1. stage = "written" /\ stage' = "damaged" /\ file' \in K!Damages(file) /\ source' = source
      BY <1>3 DEF K!Damage
    <2>2. CASE Source3(source)
      <3>1. Source3(source')
        BY <2>1, <2>2
      <3> QED BY <2>1, <3>1 DEF KdbxInv
    <2>3. CASE ~Source3(source)
      <3>1. PICK o, d, x : Source4(source, o, d, x) /\ file = K!File4(o, x)
        BY <2>1, <2>3 DEF KdbxInv
      <3>2. Source4(source', o, d, x) /\ file' \in K!Damages(K!File4(o, x))
        BY <2>1, <3>1
      <3> QED BY <2>1, <3>2 DEF KdbxInv
    <2> QED BY <2>2, <2>3
  <1>4. ASSUME NEW pw \in {"password", "mistyped"}, K!Read(pw) PROVE KdbxInv'
    <2>1. /\ stage \in {"written", "damaged"} /\ stage' = "read" /\ source' = source
          /\ code' = K!readKdbx(file, pw).code /\ entries' = K!readKdbx(file, pw).entries
      BY <1>4, Zenon DEF K!Read
    <2>2. CASE Source3(source)
      <3>1. Source3(source')
        BY <2>1, <2>2
      <3> QED BY <2>1, <3>1 DEF KdbxInv
    <2>3. CASE ~Source3(source)
      <3>0. stage # "none"
        BY <2>1
      <3>1. PICK o, d, x : /\ Source4(source, o, d, x)
                           /\ stage = "written" => file = K!File4(o, x)
                           /\ stage = "damaged" => file \in K!Damages(K!File4(o, x))
        BY <2>3, <3>0, Zenon DEF KdbxInv
      <3>2. File4Or(o, x, file)
        BY <2>1, <3>1 DEF File4Or
      <3>3. /\ Intact(K!File4(o, x))
            /\ K!unprotectAll(K!parseXml(x), K!NewStream(K!innerStreamFor(o.stream, "inner"))) = K!parseXml(d)
        BY <3>1, Source4Is
      <3>4. Block(o, x, 1) # NoData /\ Block(o, x, 2) # NoData /\ x # Damaged
        BY <3>3, IntactBlocks
      <3>5. code' = "ok" => entries' = EntriesOf(d)
        <4> SUFFICES ASSUME code' = "ok" PROVE K!readKdbx(file, pw).entries = EntriesOf(d)
          BY <2>1
        <4>1. K!readKdbx(file, pw).code = "ok"
          BY <2>1
        <4> QED BY ONLY <3>2, <3>3, <3>4, <4>1, DocumentOfFile
      <3>6. Source4(source', o, d, x)
        BY <2>1, <3>1
      <3> QED BY <2>1, <3>5, <3>6 DEF KdbxInv
    <2> QED BY <2>2, <2>3
  <1>5. CASE K!Import
    <2>1. /\ stage = "read" /\ stage' = "done" /\ source' = source
          /\ entries' = entries /\ code' = code
      BY <1>5 DEF K!Import
    <2> QED BY <2>1 DEF KdbxInv
  <1>6. CASE UNCHANGED K!vars
    BY <1>6 DEF K!vars, KdbxInv
  <1> QED BY <1>1, <1>2, <1>3, <1>4, <1>5, <1>6, Zenon DEF K!Next

\* Whatever happened to a KeePass file of version 4, its import ends with an
\* error or finds what the document says that was written: each value that
\* was encrypted under the stream comes back, at its place.
THEOREM DocumentsComeBack ==
  K!Spec => [](stage \in {"read", "done"} /\ code = "ok" /\ Version4(source)
                 => entries = EntriesOf(DocumentOf(source)))
  <1>1. K!Init => KdbxInv
    BY KdbxInit
  <1>2. KdbxInv /\ [K!Next]_K!vars => KdbxInv'
    BY KdbxStep
  <1>3. KdbxInv => (stage \in {"read", "done"} /\ code = "ok" /\ Version4(source)
                      => entries = EntriesOf(DocumentOf(source)))
    <2> SUFFICES ASSUME KdbxInv, stage \in {"read", "done"}, code = "ok", Version4(source)
                 PROVE  entries = EntriesOf(DocumentOf(source))
      OBVIOUS
    <2>1. ~Source3(source)
      <3> SUFFICES ASSUME NEW db \in KdbxDatabases, source = [by |-> "other", db |-> db], db.major = 3
                   PROVE  FALSE
        BY DEF Source3
      <3>1. source.by = "other" /\ source.db = db
        OBVIOUS
      <3> QED BY <3>1 DEF Version4
    <2>2. PICK o, d, x : Source4(source, o, d, x) /\ entries = EntriesOf(d)
      BY <2>1 DEF KdbxInv
    <2> QED BY <2>2, Source4Is, Zenon
  <1> QED BY <1>1, <1>2, <1>3, PTL DEF K!Spec
================================================================================

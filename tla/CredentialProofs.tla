-------------------------- MODULE CredentialProofs --------------------------
(***************************************************************************)
(* Proofs about what lets somebody in without a password, for any sets of  *)
(* users, requests, links, tokens and keys and any clock: ShareLinks       *)
(* implements OneTimeSecret; DeviceTokens (D) and LoginPasskeys (P) each   *)
(* implement Credential; the keys a KeyCache (K) accepts a token with are  *)
(* recent.  Every theorem is about the behaviours of one of them.          *)
(***************************************************************************)
EXTENDS ShareLinks, Credentials, TLAPS

-----------------------------------------------------------------------------
(* Share links.  A visitor holds only links that have a row, and a request   *)
(* that will insert one holds an id without; so no INSERT brings a link to   *)
(* life that a visitor was refused, and time and the other statements only   *)
(* take links away.                                                          *)


\* A request that creates has its id for itself, and no row has it yet.
FreshLinks ==
    \A u \in Users : call[u] # Idle =>
        IF call[u].op = "create"
          THEN /\ link[call[u].link] = NoRow
               /\ \A w \in Users \ {u} : call[w] # Idle => call[w].link # call[u].link
          ELSE link[call[u].link] # NoRow

\* A visitor's link was in the table once.
VisitsKnown == \A x \in Visitors : visit[x] # Idle => link[visit[x].link] # NoRow

\* The foreign key: what has a row has its item.
ItemsOfLinks == \A l \in Links : Exists(l) => link[l].item \in items

LinkInv == TypeOK /\ FreshLinks /\ VisitsKnown /\ ItemsOfLinks /\ RefusedRightly

-----------------------------------------------------------------------------
\* Nothing is offered, nobody asks: the invariant holds at the start.
LEMMA InitLinks == Init => LinkInv
  BY SentinelAssumption
  DEF Init, LinkInv, TypeOK, FreshLinks, VisitsKnown, ItemsOfLinks, RefusedRightly, Exists

\* Idle is no request and no page; no row is one of the sentinels.
LEMMA Sentinels ==
  /\ Idle \notin Call /\ Idle \notin Visit
  /\ NoRow \notin Row /\ Deleted \notin Row /\ NoRow # Deleted
  BY SentinelAssumption

\* Moving a request to another of its steps gives a request.
LEMMA CallSteps ==
  ASSUME NEW c \in Call
  PROVE  /\ c.link \in Links
         /\ c.op = "create" =>
              /\ c.item \in Items /\ c.hours \in Hours /\ c.vault \in Vaults
              /\ c.step \in {"manage", "item", "insert"}
              /\ \A s \in {"manage", "item", "insert"} : [c EXCEPT !.step = s] \in Call
         /\ c.op # "create" =>
              /\ c.op = "delete" /\ c.step \in {"get", "manage", "delete"}
              /\ \A s \in {"get", "manage", "delete"} : [c EXCEPT !.step = s] \in Call
         /\ \A s : [c EXCEPT !.step = s].link = c.link /\ [c EXCEPT !.step = s].op = c.op
  BY DEF Call

\* Moving a page to another of its steps gives a page.
LEMMA VisitSteps ==
  ASSUME NEW v \in Visit
  PROVE  /\ v.link \in Links
         /\ v.step # "done" => \A s \in {"closed", "open", "redeem", "exists"} :
                                  [v EXCEPT !.step = s] \in Visit
         /\ \A a \in Answers : [step |-> "done", link |-> v.link, answer |-> a] \in Visit
         /\ \A s : [v EXCEPT !.step = s].link = v.link /\ [v EXCEPT !.step = s].step = s
  BY DEF Visit

\* A step of a request that ends it or keeps its link and its kind, and writes
\* nothing.
LEMMA CallOnly ==
  ASSUME LinkInv, NEW u \in Users, call[u] # Idle,
         UNCHANGED <<now, items, link, visit, taker>>,
         admins' \in [TeamVaults -> SUBSET Users],
         call' \in [Users -> Call \union {Idle}],
         \A w \in Users \ {u} : call'[w] = call[w],
         \/ call'[u] = Idle
         \/ call'[u].link = call[u].link /\ call'[u].op = call[u].op
  PROVE  LinkInv'
  <1>1. TypeOK'
    BY DEF LinkInv, TypeOK, Row, Visit
  <1>2. FreshLinks'
    BY DEF LinkInv, FreshLinks
  <1>3. VisitsKnown' /\ ItemsOfLinks' /\ RefusedRightly'
    BY DEF LinkInv, VisitsKnown, ItemsOfLinks, RefusedRightly, Exists, Available
  <1> QED BY <1>1, <1>2, <1>3 DEF LinkInv

\* A request takes an id that no row and no other request has.
LEMMA SendCreateStep == ASSUME LinkInv, NEW u \in Users, SendCreate(u) PROVE LinkInv'
  <1>1. PICK l \in Links, v \in Vaults, i \in Items, h \in Hours :
          /\ link[l] = NoRow
          /\ ~ \E w \in Users : call[w] # Idle /\ call[w].link = l
          /\ call' = [call EXCEPT ![u] = [op |-> "create", step |-> "manage", link |-> l,
                                          vault |-> v, item |-> i, hours |-> h]]
    BY DEF SendCreate
  <1> DEFINE c == [op |-> "create", step |-> "manage", link |-> l,
                   vault |-> v, item |-> i, hours |-> h]
  <1>2. /\ UNCHANGED <<now, items, admins, link, visit, taker>>
        /\ c \in Call /\ c.link = l /\ c.op = "create"
    BY DEF SendCreate, Call
  <1>3. call'[u] = c /\ \A w \in Users \ {u} : call'[w] = call[w]
    BY <1>1 DEF LinkInv, TypeOK
  <1>4. TypeOK'
    BY <1>1, <1>2 DEF LinkInv, TypeOK
  <1> HIDE DEF c
  <1>5. FreshLinks'
    BY <1>1, <1>2, <1>3 DEF LinkInv, FreshLinks
  <1>6. VisitsKnown' /\ ItemsOfLinks' /\ RefusedRightly'
    BY <1>2 DEF LinkInv, VisitsKnown, ItemsOfLinks, RefusedRightly, Exists, Available
  <1> QED BY <1>4, <1>5, <1>6 DEF LinkInv

\* A request to delete names a link that was created.
LEMMA SendDeleteStep == ASSUME LinkInv, NEW u \in Users, SendDelete(u) PROVE LinkInv'
  <1>1. PICK l \in Links :
          /\ link[l] # NoRow
          /\ call' = [call EXCEPT ![u] = [op |-> "delete", step |-> "get", link |-> l]]
    BY DEF SendDelete
  <1> DEFINE c == [op |-> "delete", step |-> "get", link |-> l]
  <1>2. /\ UNCHANGED <<now, items, admins, link, visit, taker>>
        /\ c \in Call /\ c.link = l /\ c.op = "delete"
    BY DEF SendDelete, Call
  <1>3. call'[u] = c /\ \A w \in Users \ {u} : call'[w] = call[w]
    BY <1>1 DEF LinkInv, TypeOK
  <1>4. TypeOK'
    BY <1>1, <1>2 DEF LinkInv, TypeOK
  <1> HIDE DEF c
  <1>5. FreshLinks'
    BY <1>1, <1>2, <1>3 DEF LinkInv, FreshLinks
  <1>6. VisitsKnown' /\ ItemsOfLinks' /\ RefusedRightly'
    BY <1>2 DEF LinkInv, VisitsKnown, ItemsOfLinks, RefusedRightly, Exists, Available
  <1> QED BY <1>4, <1>5, <1>6 DEF LinkInv

\* The checks of a request look and write nothing.
LEMMA CheckStep ==
  ASSUME LinkInv, NEW u \in Users, VerifyManage(u) \/ VerifyItemInVault(u) \/ GetByID(u)
  PROVE  LinkInv'
  <1>1. /\ call[u] # Idle /\ call[u] \in Call
        /\ UNCHANGED <<now, items, admins, link, visit, taker>>
    BY DEF VerifyManage, VerifyItemInVault, GetByID, LinkInv, TypeOK
  <1>2. \/ Answered(u)
        \/ call[u].op = "create" /\ (Step(u, "item") \/ Step(u, "insert"))
        \/ call[u].op # "create" /\ (Step(u, "manage") \/ Step(u, "delete"))
    BY <1>1, CallSteps DEF VerifyManage, VerifyItemInVault, GetByID
  <1>3. CASE Answered(u)
    BY <1>1, <1>3, CallOnly DEF Answered, LinkInv, TypeOK
  <1>4. ASSUME NEW s, Step(u, s), [call[u] EXCEPT !.step = s] \in Call PROVE LinkInv'
    <2> DEFINE c == [call[u] EXCEPT !.step = s]
    <2>1. call' = [call EXCEPT ![u] = c]
      BY <1>4 DEF Step
    <2>2. c \in Call /\ c.link = call[u].link /\ c.op = call[u].op
      BY <1>1, <1>4, CallSteps
    <2> HIDE DEF c
    <2>3. /\ call'[u] = c /\ \A w \in Users \ {u} : call'[w] = call[w]
          /\ call' \in [Users -> Call \union {Idle}]
      BY <2>1, <2>2 DEF LinkInv, TypeOK
    <2>4. admins' \in [TeamVaults -> SUBSET Users]
      BY <1>1 DEF LinkInv, TypeOK
    <2> QED BY <1>1, <2>2, <2>3, <2>4, CallOnly
  <1> QED BY <1>1, <1>2, <1>3, <1>4, CallSteps

\* Only rows that no visitor holds come to life.
LEMMA InsertStep == ASSUME LinkInv, NEW u \in Users, Insert(u) PROVE LinkInv'
  <1>0. PICK c : c = call[u]
    OBVIOUS
  <1>1. /\ c # Idle /\ c.step = "insert" /\ c \in Call
        /\ UNCHANGED <<now, items, admins, visit, taker>> /\ call' = [call EXCEPT ![u] = Idle]
    BY <1>0 DEF Insert, Answered, LinkInv, TypeOK
  <1>2. /\ c.op = "create" /\ c.link \in Links /\ c.item \in Items /\ c.hours \in Hours
        /\ link[c.link] = NoRow
        /\ \A w \in Users \ {u} : call[w] # Idle => call[w].link # c.link
    BY <1>0, <1>1, CallSteps DEF LinkInv, FreshLinks
  <1>3. call'[u] = Idle /\ \A w \in Users \ {u} : call'[w] = call[w]
    BY <1>1 DEF LinkInv, TypeOK
  <1> DEFINE r == [item |-> c.item, by |-> u, expires |-> now + c.hours, redeemed |-> FALSE]
  <1>4. r \in Row
    <2>1. now \in Nat /\ c.hours \in Nat
      BY <1>2, TimeAssumption DEF LinkInv, TypeOK
    <2>2. \A n, h \in Nat : n + h \in Nat
      OBVIOUS
    <2>3. now + c.hours \in Nat
      BY <2>1, <2>2
    <2> QED BY <1>2, <2>3 DEF Row
  <1>5. CASE c.item \notin items
    <2>1. UNCHANGED link
      BY <1>0, <1>5 DEF Insert
    <2> QED BY <1>0, <1>1, <1>3, <2>1, CallOnly DEF LinkInv, TypeOK
  <1>6. CASE c.item \in items
    <2>1. link' = [link EXCEPT ![c.link] = r]
      BY <1>0, <1>6 DEF Insert
    <2>2. /\ link'[c.link] = r /\ \A l \in Links \ {c.link} : link'[l] = link[l]
          /\ r.item \in items
      BY <1>2, <1>6, <2>1 DEF LinkInv, TypeOK
    <2>3. TypeOK'
      BY <1>1, <1>4, <2>1 DEF LinkInv, TypeOK
    <2> HIDE DEF r
    <2>4. FreshLinks'
      <3>1. \A w \in Users : call'[w] # Idle =>
               w # u /\ call'[w] = call[w] /\ call[w].link \in Links \ {c.link}
        BY <1>2, <1>3, CallSteps, ZenonT(60) DEF LinkInv, TypeOK
      <3>2. \A w \in Users : call'[w] # Idle => link'[call'[w].link] = link[call[w].link]
        BY <2>2, <3>1
      <3> QED BY <1>3, <3>1, <3>2 DEF LinkInv, FreshLinks
    <2>5. \A x \in Visitors : visit[x] # Idle => visit[x].link \in Links \ {c.link}
      <3>1. \A x \in Visitors : visit[x] # Idle => visit[x].link \in Links
        BY VisitSteps, ZenonT(60) DEF LinkInv, TypeOK
      <3>2. \A x \in Visitors : visit[x] # Idle => visit[x].link # c.link
        BY <1>2 DEF LinkInv, VisitsKnown
      <3> QED BY <3>1, <3>2
    <2>6. VisitsKnown' /\ RefusedRightly'
      BY <1>1, <2>2, <2>5 DEF LinkInv, VisitsKnown, RefusedRightly, Available, Exists
    <2>7. ItemsOfLinks'
      BY <1>1, <2>2 DEF LinkInv, ItemsOfLinks, Exists
    <2> QED BY <2>3, <2>4, <2>6, <2>7 DEF LinkInv
  <1> QED BY <1>5, <1>6

\* A step that changes rows of links, and brings none to life.
LEMMA LinksShrink ==
  ASSUME LinkInv, UNCHANGED <<now, visit>>,
         link' \in [Links -> Row \union {NoRow, Deleted}],
         \A l \in Links : /\ link'[l] = NoRow <=> link[l] = NoRow
                          /\ Exists(l)' => Exists(l) /\ link'[l].item = link[l].item
                          /\ Available(l)' => Available(l)
  PROVE  /\ VisitsKnown' /\ RefusedRightly'
         /\ UNCHANGED call => FreshLinks'
         /\ UNCHANGED items => ItemsOfLinks'
  <1>1. \A x \in Visitors : visit[x] # Idle => visit[x].link \in Links
    BY VisitSteps, ZenonT(60) DEF LinkInv, TypeOK
  <1>2. \A u \in Users : call[u] # Idle => call[u].link \in Links
    BY CallSteps DEF LinkInv, TypeOK
  <1>3. VisitsKnown' /\ RefusedRightly'
    BY <1>1 DEF LinkInv, VisitsKnown, RefusedRightly
  <1>4. ASSUME UNCHANGED call PROVE FreshLinks'
    BY <1>2, <1>4 DEF LinkInv, FreshLinks
  <1>5. ASSUME UNCHANGED items PROVE ItemsOfLinks'
    BY <1>5 DEF LinkInv, ItemsOfLinks
  <1> QED BY <1>3, <1>4, <1>5

\* A revoked link is gone; requests and visitors that hold it hold a dead one.
LEMMA DeleteStep == ASSUME LinkInv, NEW u \in Users, Delete(u) PROVE LinkInv'
  <1>0. PICK l : l = call[u].link
    OBVIOUS
  <1>1. /\ l \in Links /\ link[l] # NoRow /\ call[u].op # "create"
        /\ UNCHANGED <<now, items, admins, visit, taker>> /\ call' = [call EXCEPT ![u] = Idle]
        /\ link' = [link EXCEPT ![l] = IF Exists(l) THEN Deleted ELSE @]
    BY <1>0, CallSteps DEF Delete, Answered, LinkInv, TypeOK, FreshLinks
  <1>2. /\ link'[l] = IF Exists(l) THEN Deleted ELSE link[l]
        /\ \A k \in Links \ {l} : link'[k] = link[k]
        /\ link' \in [Links -> Row \union {NoRow, Deleted}]
        /\ call'[u] = Idle /\ \A w \in Users \ {u} : call'[w] = call[w]
    BY <1>1 DEF LinkInv, TypeOK
  <1>3. TypeOK'
    BY <1>1, <1>2 DEF LinkInv, TypeOK
  <1>4. \A k \in Links : /\ link'[k] = NoRow <=> link[k] = NoRow
                         /\ Exists(k)' => Exists(k) /\ link'[k].item = link[k].item
                         /\ Available(k)' => Available(k)
    BY <1>1, <1>2, Sentinels DEF Exists, Available
  <1>5. VisitsKnown' /\ RefusedRightly' /\ ItemsOfLinks'
    BY <1>1, <1>2, <1>4, LinksShrink
  <1>6. FreshLinks'
    <2>1. \A w \in Users : call[w] # Idle => call[w].link \in Links
      BY CallSteps, ZenonT(60) DEF LinkInv, TypeOK
    <2> QED BY <1>2, <1>4, <2>1 DEF LinkInv, FreshLinks
  <1> QED BY <1>3, <1>5, <1>6 DEF LinkInv

\* A step of a page that writes nothing, to a link that has had a row.
LEMMA VisitOnly ==
  ASSUME LinkInv, NEW x \in Visitors, NEW v \in Visit \union {Idle},
         UNCHANGED <<now, items, admins, link, call, taker>>,
         visit' = [visit EXCEPT ![x] = v],
         v # Idle => /\ link[v.link] # NoRow
                     /\ v.step = "exists" \/ (v.step = "done" /\ v.answer # "lost")
                          => ~Available(v.link)
  PROVE  LinkInv'
  <1>1. visit'[x] = v /\ \A y \in Visitors \ {x} : visit'[y] = visit[y]
    BY DEF LinkInv, TypeOK
  <1>2. TypeOK'
    BY DEF LinkInv, TypeOK
  <1>3. FreshLinks' /\ ItemsOfLinks'
    BY DEF LinkInv, FreshLinks, ItemsOfLinks, Exists
  <1>4. VisitsKnown' /\ RefusedRightly'
    BY <1>1 DEF LinkInv, VisitsKnown, RefusedRightly, Available, Exists
  <1> QED BY <1>2, <1>3, <1>4 DEF LinkInv

\* Opening, looking, pressing the button and leaving.
LEMMA BrowseStep ==
  ASSUME LinkInv, NEW x \in Visitors,
         Open(x) \/ Status(x) \/ SendRedeem(x) \/ CheckExists(x) \/ Fail(x) \/ Leave(x)
  PROVE  LinkInv'
  <1>0. /\ UNCHANGED <<now, items, admins, link, call, taker>>
        /\ visit[x] # Idle => visit[x] \in Visit /\ link[visit[x].link] # NoRow
    BY DEF Open, Status, SendRedeem, CheckExists, Fail, Leave, LinkInv, TypeOK, VisitsKnown
  <1>1. CASE Leave(x)
    BY <1>0, <1>1, VisitOnly DEF Leave
  <1>2. CASE Open(x)
    <2>1. PICK l \in Links : link[l] # NoRow
                             /\ visit' = [visit EXCEPT ![x] = [step |-> "status", link |-> l]]
      BY <1>2 DEF Open
    <2>2. [step |-> "status", link |-> l] \in Visit
      BY DEF Visit
    <2> QED BY <1>0, <2>1, <2>2, VisitOnly
  <1>3. CASE Status(x) \/ SendRedeem(x)
    <2>1. PICK s \in {"open", "closed", "redeem"} : Go(x, s)
      BY <1>3 DEF Status, SendRedeem
    <2>2. visit[x] # Idle /\ visit[x].step # "done"
      BY <1>3 DEF Status, SendRedeem, At
    <2> DEFINE v == [visit[x] EXCEPT !.step = s]
    <2>3. v \in Visit /\ v.link = visit[x].link /\ v.step = s
      BY <1>0, <2>2, VisitSteps
    <2>4. visit' = [visit EXCEPT ![x] = v]
      BY <2>1 DEF Go
    <2> HIDE DEF v
    <2> QED BY <1>0, <2>2, <2>3, <2>4, VisitOnly
  <1>4. CASE CheckExists(x)
    <2>1. PICK a \in Answers : Tell(x, a)
      BY <1>4 DEF CheckExists, Answers
    <2>2. visit[x] # Idle /\ ~Available(visit[x].link)
      BY <1>4 DEF CheckExists, At, LinkInv, RefusedRightly
    <2> DEFINE v == [step |-> "done", link |-> visit[x].link, answer |-> a]
    <2>3. v \in Visit /\ v.link = visit[x].link
      BY <1>0, <2>2, VisitSteps
    <2>4. visit' = [visit EXCEPT ![x] = v]
      BY <2>1 DEF Tell
    <2> HIDE DEF v
    <2> QED BY <1>0, <2>2, <2>3, <2>4, VisitOnly
  <1>5. CASE Fail(x)
    <2>1. visit[x] # Idle /\ Tell(x, "lost")
      BY <1>5 DEF Fail, At
    <2> DEFINE v == [step |-> "done", link |-> visit[x].link, answer |-> "lost"]
    <2>2. v \in Visit /\ v.link = visit[x].link /\ v.answer = "lost" /\ v.step = "done"
      BY <1>0, <2>1, VisitSteps DEF Answers
    <2>3. visit' = [visit EXCEPT ![x] = v]
      BY <2>1 DEF Tell
    <2> HIDE DEF v
    <2> QED BY <1>0, <2>1, <2>2, <2>3, VisitOnly
  <1> QED BY <1>1, <1>2, <1>3, <1>4, <1>5

\* One UPDATE takes the link from everybody else; or the page goes on to ask.
LEMMA RedeemStep == ASSUME LinkInv, NEW x \in Visitors, Redeem(x) PROVE LinkInv'
  <1>0. PICK l : l = visit[x].link
    OBVIOUS
  <1>1. /\ visit[x] # Idle /\ visit[x] \in Visit /\ visit[x].step = "redeem"
        /\ l \in Links /\ link[l] # NoRow
        /\ UNCHANGED <<now, items, admins, call>>
    <2>1. visit[x] # Idle /\ visit[x].step = "redeem" /\ UNCHANGED <<now, items, admins, call>>
      BY DEF Redeem, At
    <2>2. visit[x] \in Visit /\ link[l] # NoRow
      BY <1>0, <2>1 DEF LinkInv, TypeOK, VisitsKnown
    <2> QED BY <1>0, <2>1, <2>2, VisitSteps
  <1>2. CASE ~Available(l)
    <2> DEFINE v == [visit[x] EXCEPT !.step = "exists"]
    <2>1. v \in Visit /\ v.link = l
      BY <1>0, <1>1, VisitSteps
    <2>2. visit' = [visit EXCEPT ![x] = v] /\ UNCHANGED <<link, taker>>
      BY <1>0, <1>2 DEF Redeem, Go
    <2> HIDE DEF v
    <2> QED BY <1>1, <1>2, <2>1, <2>2, VisitOnly
  <1>3. CASE Available(l)
    <2>1. /\ link' = [link EXCEPT ![l].redeemed = TRUE]
          /\ taker' = [taker EXCEPT ![l] = x]
          /\ Tell(x, "payload") \/ Tell(x, "lost")
      BY <1>0, <1>3 DEF Redeem
    <2>2. PICK a \in Answers : Tell(x, a)
      BY <2>1 DEF Answers
    <2> DEFINE v == [step |-> "done", link |-> l, answer |-> a]
               r == [link[l] EXCEPT !.redeemed = TRUE]
    <2>3. v \in Visit /\ v.link = l
      BY <1>0, <1>1, VisitSteps
    <2>4. r \in Row /\ r.item = link[l].item /\ r.redeemed
      BY <1>3 DEF Available, Exists, Row
    <2>5. /\ visit' = [visit EXCEPT ![x] = v]
          /\ link' = [link EXCEPT ![l] = r]
      BY <1>0, <2>1, <2>2 DEF Tell
    <2> HIDE DEF v, r
    <2>6. /\ visit'[x] = v /\ \A y \in Visitors \ {x} : visit'[y] = visit[y]
          /\ link'[l] = r /\ \A k \in Links \ {l} : link'[k] = link[k]
      BY <1>1, <2>5 DEF LinkInv, TypeOK
    <2>7. TypeOK'
      BY <1>1, <2>1, <2>3, <2>4, <2>5, ZenonT(60) DEF LinkInv, TypeOK
    <2>8. \A k \in Links : /\ link'[k] = NoRow <=> link[k] = NoRow
                           /\ Available(k)' => Available(k)
                           /\ Exists(k)' => Exists(k) /\ link'[k].item = link[k].item
      BY <1>1, <1>3, <2>4, <2>6, Sentinels DEF Exists, Available
    <2>9. ~Available(l)'
      BY <2>4, <2>6 DEF Available
    <2>10. FreshLinks'
      <3>1. \A w \in Users : call[w] # Idle => call[w].link \in Links
        BY CallSteps, ZenonT(60) DEF LinkInv, TypeOK
      <3> QED BY <1>1, <2>8, <3>1 DEF LinkInv, FreshLinks
    <2>11. ItemsOfLinks'
      BY <1>1, <2>8 DEF LinkInv, ItemsOfLinks
    <2>12. \A y \in Visitors : visit[y] # Idle => visit[y].link \in Links
      BY VisitSteps DEF LinkInv, TypeOK
    <2>13. VisitsKnown' /\ RefusedRightly'
      BY <1>1, <2>3, <2>6, <2>8, <2>9, <2>12 DEF LinkInv, VisitsKnown, RefusedRightly
    <2> QED BY <2>7, <2>10, <2>11, <2>13 DEF LinkInv
  <1> QED BY <1>2, <1>3

\* Time takes links away.
LEMMA TickStep == ASSUME LinkInv, Tick PROVE LinkInv'
  <1>1. /\ now' = now + 1 /\ now \in Nat /\ now' \in Nat
        /\ UNCHANGED <<items, admins, link, call, visit, taker>>
    BY DEF Tick, LinkInv, TypeOK
  <1>2. \A l \in Links : Available(l)' => Available(l)
    <2>1. \A n, e \in Nat : e > n + 1 => e > n
      OBVIOUS
    <2> QED BY <1>1, <2>1 DEF Available, Exists, Row
  <1>3. TypeOK' /\ FreshLinks' /\ VisitsKnown' /\ ItemsOfLinks'
    BY <1>1 DEF LinkInv, TypeOK, Row, Visit, FreshLinks, VisitsKnown, ItemsOfLinks, Exists
  <1>4. \A x \in Visitors : visit[x] # Idle => visit[x].link \in Links
    BY VisitSteps DEF LinkInv, TypeOK
  <1>5. RefusedRightly'
    BY <1>1, <1>2, <1>4 DEF LinkInv, RefusedRightly
  <1> QED BY <1>3, <1>5 DEF LinkInv

\* Who manages a team matters to no link that exists.
LEMMA ChangeAdminsStep == ASSUME LinkInv, NEW v \in TeamVaults, ChangeAdmins(v) PROVE LinkInv'
  <1>1. UNCHANGED <<now, items, link, call, visit, taker>>
    BY DEF ChangeAdmins
  <1>2. admins' \in [TeamVaults -> SUBSET Users]
    BY DEF ChangeAdmins, LinkInv, TypeOK
  <1> QED BY <1>1, <1>2 DEF LinkInv, TypeOK, Row, Visit, FreshLinks, VisitsKnown, ItemsOfLinks,
                            RefusedRightly, Exists, Available

\* The links of a deleted item go with it.
LEMMA DeleteItemStep == ASSUME LinkInv, NEW i \in Items, DeleteItem(i) PROVE LinkInv'
  <1>1. /\ items' = items \ {i} /\ UNCHANGED <<now, admins, call, visit, taker>>
        /\ \A l \in Links :
             link'[l] = IF Exists(l) /\ link[l].item = i THEN Deleted ELSE link[l]
        /\ link' \in [Links -> Row \union {NoRow, Deleted}]
    BY DEF DeleteItem, LinkInv, TypeOK
  <1>2. TypeOK'
    BY <1>1 DEF LinkInv, TypeOK, Visit
  <1>3. \A l \in Links : /\ link'[l] = NoRow <=> link[l] = NoRow
                         /\ Exists(l)' => /\ Exists(l) /\ link'[l].item = link[l].item
                                          /\ link[l].item # i
                         /\ Available(l)' => Available(l)
    BY <1>1, Sentinels DEF Exists, Available
  <1>4. VisitsKnown' /\ RefusedRightly' /\ FreshLinks'
    BY <1>1, <1>3, LinksShrink
  <1>5. ItemsOfLinks'
    BY <1>1, <1>3 DEF LinkInv, ItemsOfLinks
  <1> QED BY <1>2, <1>4, <1>5 DEF LinkInv

\* Every step, and a step of nobody, keeps the invariant.
LEMMA NextLinks == LinkInv /\ [Next]_vars => LinkInv'
  <1> SUFFICES ASSUME LinkInv, [Next]_vars PROVE LinkInv'
    OBVIOUS
  <1>1. CASE UNCHANGED vars
    BY <1>1 DEF vars, LinkInv, TypeOK, Row, Visit, FreshLinks, VisitsKnown, ItemsOfLinks,
                RefusedRightly, Exists, Available
  <1>2. ASSUME NEW u \in Users, SendCreate(u) \/ SendDelete(u) \/ Serve(u) PROVE LinkInv'
    BY <1>2, SendCreateStep, SendDeleteStep, CheckStep, InsertStep, DeleteStep DEF Serve
  <1>3. ASSUME NEW x \in Visitors, Open(x) \/ SendRedeem(x) \/ Load(x) \/ Leave(x) PROVE LinkInv'
    BY <1>3, BrowseStep, RedeemStep DEF Load
  <1> QED BY <1>1, <1>2, <1>3, TickStep, ChangeAdminsStep, DeleteItemStep DEF Next

\* The inductive invariant holds in every state of every behaviour.
THEOREM LinkInvariance == Spec => []LinkInv
  BY InitLinks, NextLinks, PTL DEF Spec

\* Tables, requests and pages hold what they may hold.
THEOREM LinksTypeCorrect == Spec => []TypeOK
  <1>1. LinkInv => TypeOK
    BY DEF LinkInv
  <1> QED BY <1>1, LinkInvariance, PTL

\* Whoever the server tells that a link is used or unknown can open it no more:
\* in the two statements of a redemption it refuses nobody in error.
THEOREM NobodyRefusedInError == Spec => []RefusedRightly
  <1>1. LinkInv => RefusedRightly
    BY DEF LinkInv
  <1> QED BY <1>1, LinkInvariance, PTL

-----------------------------------------------------------------------------
(* Refinement: one-time secrets. *)

Offer(l) == IF link[l] = NoRow THEN "new"
            ELSE IF link[l] = Deleted \/ link[l].item \notin items THEN "withdrawn"
            ELSE IF link[l].redeemed THEN "taken"
            ELSE IF link[l].expires > now THEN "open" ELSE "closed"

\* What becomes of an offer in terms of the row.
LEMMA OfferOfLink ==
  ASSUME LinkInv, NEW l \in Links
  PROVE  /\ Offer(l) = "new" <=> link[l] = NoRow
         /\ Offer(l) = "open" <=> Available(l)
         /\ Offer(l) = "withdrawn" <=> link[l] = Deleted
         /\ Exists(l) => Offer(l) \in {"open", "closed", "taken"}
  BY Sentinels DEF Offer, Available, Exists, LinkInv, TypeOK, ItemsOfLinks, Row

\* An empty table offers nothing.
LEMMA InitLinksImplement == Init => Secret!Init
  BY DEF Init, Secret!Init

\* A step that writes neither links nor items lets every offer stand.
LEMMA Stutter ==
  ASSUME UNCHANGED <<now, items, link, taker>>
  PROVE  UNCHANGED <<[l \in Links |-> Offer(l)], taker>>
  BY DEF Offer

\* Some rows are deleted, and what they offered is withdrawn.
LEMMA RemovalImplements ==
  ASSUME LinkInv, LinkInv', UNCHANGED <<now, taker>>, NEW S \in SUBSET Links,
         \A l \in S : Exists(l) /\ link'[l] = Deleted,
         \A l \in Links \ S : link'[l] = link[l] /\ (Exists(l) => link[l].item \in items')
  PROVE  Secret!Next
  <1>1. \A l \in S : Offer(l) \in {"open", "closed", "taken"} /\ Offer(l)' = "withdrawn"
    BY OfferOfLink, Sentinels DEF Offer
  <1>2. \A l \in Links \ S : Offer(l)' = Offer(l)
    BY DEF Offer, LinkInv, ItemsOfLinks, Exists, TypeOK
  <1>3. Secret!Withdraw(S)
    BY <1>1, <1>2 DEF Secret!Withdraw, Offer
  <1> QED BY <1>3 DEF Secret!Next

\* A new row is an offer; revoking and deleting withdraw; the one UPDATE of a
\* redemption takes; the clock closes.
LEMMA NextLinksImplement == LinkInv /\ LinkInv' /\ [Next]_vars => [Secret!Next]_(Secret!vars)
  <1> SUFFICES ASSUME LinkInv, LinkInv', [Next]_vars PROVE [Secret!Next]_(Secret!vars)
    OBVIOUS
  <1>1. ASSUME UNCHANGED <<now, items, link, taker>> PROVE [Secret!Next]_(Secret!vars)
    BY <1>1, Stutter DEF Secret!vars, Offer
  <1>2. ASSUME NEW u \in Users, Insert(u) PROVE [Secret!Next]_(Secret!vars)
    <2>0. PICK c : c = call[u]
      OBVIOUS
    <2>1. /\ c \in Call /\ c.op = "create" /\ c.link \in Links /\ c.hours \in Hours
          /\ link[c.link] = NoRow /\ UNCHANGED <<now, items, taker>>
      BY <1>2, <2>0, CallSteps DEF Insert, LinkInv, TypeOK, FreshLinks
    <2>2. CASE c.item \in items
      <3> DEFINE r == [item |-> c.item, by |-> u, expires |-> now + c.hours, redeemed |-> FALSE]
      <3>1. link' = [link EXCEPT ![c.link] = r]
        BY <1>2, <2>0, <2>2 DEF Insert
      <3>2. link'[c.link] = r /\ \A l \in Links \ {c.link} : link'[l] = link[l]
        BY <2>1, <3>1 DEF LinkInv, TypeOK
      <3>3. r.expires > now /\ r.expires \in Nat
        <4>1. now \in Nat /\ c.hours \in Nat \ {0}
          BY <2>1, TimeAssumption DEF LinkInv, TypeOK
        <4>2. \A n \in Nat, h \in Nat \ {0} : n + h > n /\ n + h \in Nat
          OBVIOUS
        <4> QED BY <4>1, <4>2
      <3>4. r.item \in items /\ ~r.redeemed /\ r \in Row
        BY <2>1, <2>2, <3>3, CallSteps DEF Row
      <3> HIDE DEF r
      <3>5. Offer(c.link) = "new" /\ Offer(c.link)' = "open"
        BY <2>1, <3>2, <3>3, <3>4, Sentinels DEF Offer
      <3>6. \A l \in Links \ {c.link} : Offer(l)' = Offer(l)
        BY <2>1, <3>2 DEF Offer
      <3>7. Secret!Offer(c.link)
        BY <2>1, <3>5, <3>6 DEF Secret!Offer, Offer
      <3> QED BY <2>1, <3>7 DEF Secret!Next
    <2>3. CASE c.item \notin items
      BY <1>1, <1>2, <2>0, <2>1, <2>3 DEF Insert
    <2> QED BY <2>2, <2>3
  <1>3. ASSUME NEW u \in Users, Delete(u) PROVE [Secret!Next]_(Secret!vars)
    <2>0. PICK l : l = call[u].link
      OBVIOUS
    <2>1. /\ l \in Links /\ UNCHANGED <<now, items, taker>>
          /\ link' = [link EXCEPT ![l] = IF Exists(l) THEN Deleted ELSE @]
      BY <1>3, <2>0, CallSteps DEF Delete, LinkInv, TypeOK
    <2>2. CASE Exists(l)
      <3> DEFINE S == {l}
      <3>1. /\ S \in SUBSET Links /\ \A k \in S : Exists(k) /\ link'[k] = Deleted
            /\ \A k \in Links \ S :
                 link'[k] = link[k] /\ (Exists(k) => link[k].item \in items')
        BY <2>1, <2>2 DEF LinkInv, TypeOK, ItemsOfLinks
      <3> HIDE DEF S
      <3> QED BY <2>1, <3>1, RemovalImplements
    <2>3. CASE ~Exists(l)
      <3>1. UNCHANGED link
        BY <2>1, <2>3 DEF LinkInv, TypeOK
      <3> QED BY <1>1, <2>1, <3>1
    <2> QED BY <2>2, <2>3
  <1>4. ASSUME NEW x \in Visitors, Redeem(x) PROVE [Secret!Next]_(Secret!vars)
    <2>0. PICK l : l = visit[x].link
      OBVIOUS
    <2>1. /\ l \in Links /\ UNCHANGED <<now, items>>
      BY <1>4, <2>0, VisitSteps, ZenonT(60) DEF Redeem, At, LinkInv, TypeOK
    <2>2. CASE Available(l)
      <3>1. /\ link' = [link EXCEPT ![l].redeemed = TRUE]
            /\ taker' = [taker EXCEPT ![l] = x]
        BY <1>4, <2>0, <2>2 DEF Redeem
      <3>2. /\ link'[l] \in Row /\ link'[l].redeemed /\ link'[l].item = link[l].item
            /\ \A k \in Links \ {l} : link'[k] = link[k]
        BY <2>1, <2>2, <3>1 DEF LinkInv, TypeOK, Available, Exists, Row
      <3>3. Offer(l) = "open" /\ Offer(l)' = "taken"
        BY <2>1, <2>2, <3>2, OfferOfLink, Sentinels DEF Offer, Available, LinkInv, ItemsOfLinks
      <3>4. \A k \in Links \ {l} : Offer(k)' = Offer(k)
        BY <2>1, <3>2 DEF Offer
      <3>5. Secret!Take(l, x)
        BY <2>1, <3>1, <3>3, <3>4 DEF Secret!Take, Offer
      <3> QED BY <2>1, <3>5 DEF Secret!Next
    <2>3. CASE ~Available(l)
      BY <1>1, <1>4, <2>0, <2>1, <2>3 DEF Redeem
    <2> QED BY <2>2, <2>3
  <1>5. ASSUME Tick PROVE [Secret!Next]_(Secret!vars)
    <2>0. PICK S : S = {l \in Links : Available(l) /\ ~Available(l)'}
      OBVIOUS
    <2>1. UNCHANGED <<items, link, taker>> /\ S \in SUBSET Links
      BY <1>5, <2>0 DEF Tick
    <2>2. \A l \in Links : Available(l)' => Available(l)
      <3>1. now' = now + 1 /\ now \in Nat
        BY <1>5 DEF Tick, LinkInv, TypeOK
      <3>2. \A n, e \in Nat : e > n + 1 => e > n
        OBVIOUS
      <3> QED BY <2>1, <3>1, <3>2 DEF Available, Exists, Row
    <2>3. \A l \in Links : IF l \in S THEN Offer(l) = "open" /\ Offer(l)' = "closed"
                                      ELSE Offer(l)' = Offer(l)
      BY <2>0, <2>1, <2>2, Sentinels DEF Offer, Available, Exists, LinkInv, TypeOK, ItemsOfLinks
    <2>4. Secret!Close(S)
      BY <2>1, <2>3 DEF Secret!Close, Offer
    <2> QED BY <2>1, <2>4 DEF Secret!Next
  <1>6. ASSUME NEW i \in Items, DeleteItem(i) PROVE [Secret!Next]_(Secret!vars)
    <2> DEFINE S == {l \in Links : Exists(l) /\ link[l].item = i}
    <2>1. /\ items' = items \ {i} /\ UNCHANGED <<now, taker>> /\ S \in SUBSET Links
          /\ \A l \in S : Exists(l) /\ link'[l] = Deleted
          /\ \A l \in Links \ S : /\ link'[l] = link[l]
                                  /\ Exists(l) => link[l].item \in items'
      BY <1>6 DEF DeleteItem, LinkInv, ItemsOfLinks
    <2> HIDE DEF S
    <2> QED BY <2>1, RemovalImplements
  <1>7. ASSUME NEW u \in Users,
               \/ SendCreate(u) \/ SendDelete(u) \/ VerifyManage(u) \/ VerifyItemInVault(u)
               \/ GetByID(u)
        PROVE  [Secret!Next]_(Secret!vars)
    BY <1>1, <1>7 DEF SendCreate, SendDelete, VerifyManage, VerifyItemInVault, GetByID
  <1>8. ASSUME NEW x \in Visitors,
               Open(x) \/ Status(x) \/ SendRedeem(x) \/ CheckExists(x) \/ Fail(x) \/ Leave(x)
        PROVE  [Secret!Next]_(Secret!vars)
    <2>1. UNCHANGED <<now, items, link, taker>>
      BY <1>8 DEF Open, Status, SendRedeem, CheckExists, Fail, Leave
    <2> QED BY <1>1, <2>1
  <1>9. ASSUME NEW v \in TeamVaults, ChangeAdmins(v) PROVE [Secret!Next]_(Secret!vars)
    BY <1>1, <1>9 DEF ChangeAdmins
  <1>10. CASE UNCHANGED vars
    BY <1>1, <1>10 DEF vars
  <1> QED BY <1>2, <1>3, <1>4, <1>5, <1>6, <1>7, <1>8, <1>9, <1>10 DEF Next, Serve, Load

\* The requests, pages, the clock and the cascade, in any order, give every
\* payload away at most once, in time, and never after it was withdrawn.
THEOREM LinksAreOneTimeSecrets == Spec => ImplementsOneTimeSecret
  BY InitLinksImplement, LinkInvariance, NextLinksImplement, PTL
  DEF Spec, ImplementsOneTimeSecret, Secret!Spec, Secret!vars


-----------------------------------------------------------------------------
(* Device tokens *)

TokenTypes ==
  /\ dnow \in 0..MaxTokenTime
  /\ drow \in [Tokens -> TokenRow \cup {None}]
  /\ dcall \in [Requests -> TokenCall \cup {None}]

\* What a request has, and what it is for: the user of its token once that has
\* been looked up, a row to revoke, a token no other request creates.
TokenCallOK(h) ==
  LET c == dcall[h] IN
  /\ c.by = None => c.step = "op" /\ c.user # None
  /\ c.by # None => /\ drow[c.by] # None
                    /\ c.step \in {"touch", "op"} => c.user = drow[c.by].user
  /\ c.op = "revoke" => drow[c.of] # None
  /\ c.op = "create" =>
       /\ drow[c.of] = None
       /\ \A g \in Requests \ {h} :
            dcall[g] # None /\ dcall[g].op = "create" => dcall[g].of # c.of

TokenInv == TokenTypes /\ \A h \in Requests : dcall[h] # None => TokenCallOK(h)

\* A step of request h: rows stay with their users, and one that is new is the
\* one h creates.
LEMMA TokenStep ==
  ASSUME TokenInv, TokenTypes', NEW h \in Requests,
         \A g \in Requests \ {h} : dcall'[g] = dcall[g],
         \A d \in Tokens : drow[d] # None => drow'[d] # None /\ drow'[d].user = drow[d].user,
         \A d \in Tokens : drow[d] = None /\ drow'[d] # None =>
                             dcall[h] # None /\ dcall[h].op = "create" /\ dcall[h].of = d,
         dcall'[h] # None => TokenCallOK(h)'
  PROVE  TokenInv'
  <1> SUFFICES ASSUME NEW g \in Requests, g # h, dcall[g] # None PROVE TokenCallOK(g)'
    BY DEF TokenInv
  <1>0. PICK c : c = dcall[g]
    OBVIOUS
  <1>1. c \in TokenCall /\ c.by \in Tokens \cup {None} /\ c.of \in Tokens
    BY <1>0 DEF TokenInv, TokenTypes, TokenCall
  <1>2. /\ c.by = None => c.step = "op" /\ c.user # None
        /\ c.by # None => /\ drow[c.by] # None
                          /\ c.step \in {"touch", "op"} => c.user = drow[c.by].user
        /\ c.op = "revoke" => drow[c.of] # None
        /\ c.op = "create" =>
             /\ drow[c.of] = None
             /\ \A k \in Requests \ {g} :
                  dcall[k] # None /\ dcall[k].op = "create" => dcall[k].of # c.of
    BY <1>0 DEF TokenInv, TokenCallOK
  <1>3. c.op = "create" => drow'[c.of] = None
    BY <1>1, <1>2
  <1>4. c.op = "create" => \A k \in Requests \ {g} :
                             dcall'[k] # None /\ dcall'[k].op = "create" => dcall'[k].of # c.of
    BY <1>0, <1>2 DEF TokenCallOK
  <1> QED BY <1>0, <1>1, <1>2, <1>3, <1>4 DEF TokenCallOK

\* Before any request there is no token.
LEMMA InitTokens == ASSUME TokenConstants PROVE D!Init => TokenInv
  BY DEF TokenConstants, D!Init, TokenInv, TokenTypes

\* A request that arrives.
LEMMA SendTokens == ASSUME TokenConstants, TokenInv, NEW h \in Requests, D!Send(h) PROVE TokenInv'
  <1>1. PICK o \in {"create", "revoke", "other"}, d \in Tokens, t \in Tokens \cup {None},
             u \in Holders \cup {None}, s \in {"op", "get"} :
          /\ o = "revoke" => drow[d] # None
          /\ o = "create" => /\ drow[d] = None
                             /\ \A g \in Requests : dcall[g] # None => dcall[g].of # d
          /\ t = None => s = "op" /\ u # None
          /\ t # None => drow[t] # None /\ s = "get"
          /\ dcall' = [dcall EXCEPT ![h] = [by |-> t, user |-> u, op |-> o, of |-> d, step |-> s]]
    BY DEF D!Send, TokenConstants
  <1>2. PICK c : c = [by |-> t, user |-> u, op |-> o, of |-> d, step |-> s]
    OBVIOUS
  <1>3. /\ c \in TokenCall /\ c.by = t /\ c.user = u /\ c.op = o /\ c.of = d /\ c.step = s
        /\ dcall[h] = None /\ UNCHANGED <<dnow, drow>>
    BY <1>2 DEF TokenCall, D!Send
  <1>4. /\ dcall' \in [Requests -> TokenCall \cup {None}] /\ dcall'[h] = c
        /\ \A g \in Requests \ {h} : dcall'[g] = dcall[g]
    BY <1>1, <1>2, <1>3 DEF TokenInv, TokenTypes
  <1>5. TokenTypes'
    BY <1>3, <1>4 DEF TokenInv, TokenTypes, TokenRow, TokenTime
  <1>6. TokenCallOK(h)'
    BY <1>1, <1>3, <1>4 DEF TokenCallOK
  <1> QED BY <1>3, <1>4, <1>5, <1>6, TokenStep

\* A step that changes no credential, and of no request what it shows and has
\* been told, or that ends request h.
LEMMA TokenRest ==
  ASSUME NEW h \in Requests,
         \A d \in Tokens : D!Owner(d)' = D!Owner(d) /\ D!Since(d)' = D!Since(d),
         \A g \in Requests \ {h} : dcall'[g] = dcall[g],
         \/ D!Shown(h)' = D!Shown(h) /\ D!Verdict(h)' = D!Verdict(h)
         \/ dcall'[h] = None
  PROVE  D!Abstract!Next
  <1>1. \A g \in Requests \ {h} :
          D!Shown(g)' = D!Shown(g) /\ D!Verdict(g)' = D!Verdict(g)
    BY DEF D!Shown, D!Verdict
  <1>2. CASE D!Shown(h)' = D!Shown(h) /\ D!Verdict(h)' = D!Verdict(h)
    BY <1>1, <1>2 DEF D!Abstract!Next
  <1>3. CASE dcall'[h] = None
    <2>1. D!Shown(h)' = None /\ D!Verdict(h)' = None
      BY <1>3 DEF D!Shown, D!Verdict
    <2>2. CASE D!Shown(h) = None
      <3>1. D!Verdict(h) = None
        BY <2>2 DEF D!Shown, D!Verdict
      <3> QED BY <1>2, <2>1, <2>2, <3>1
    <2>3. CASE D!Shown(h) # None
      <3>1. D!Abstract!End(h)
        BY <1>1, <2>1, <2>3 DEF D!Abstract!End
      <3> QED BY <3>1 DEF D!Abstract!Next
    <2> QED BY <2>2, <2>3
  <1> QED BY <1>2, <1>3

\* A request that arrives shows its token.
LEMMA SendShows ==
  ASSUME TokenConstants, TokenInv, NEW h \in Requests, D!Send(h) PROVE D!Abstract!Next
  <1>1. /\ dcall[h] = None /\ UNCHANGED <<dnow, drow>>
        /\ \A g \in Requests \ {h} : dcall'[g] = dcall[g]
        /\ \A d \in Tokens : D!Owner(d)' = D!Owner(d) /\ D!Since(d)' = D!Since(d)
    BY DEF D!Send, TokenInv, TokenTypes, D!Owner, D!Since
  <1>2. \/ dcall'[h].by = None /\ dcall'[h] # None
        \/ \E t \in Tokens : drow[t] # None /\ dcall'[h].by = t /\ dcall'[h].step = "get"
                             /\ dcall'[h] # None
    <2>1. PICK o \in {"create", "revoke", "other"}, d \in Tokens :
            \/ \E u \in Holders : dcall' = [dcall EXCEPT ![h] =
                 [by |-> None, user |-> u, op |-> o, of |-> d, step |-> "op"]]
            \/ \E t \in Tokens :
                 /\ drow[t] # None
                 /\ dcall' = [dcall EXCEPT ![h] =
                      [by |-> t, user |-> None, op |-> o, of |-> d, step |-> "get"]]
      BY DEF D!Send
    <2>2. ASSUME NEW c \in TokenCall, dcall' = [dcall EXCEPT ![h] = c]
          PROVE  dcall'[h] = c /\ c # None
      BY <2>2 DEF TokenInv, TokenTypes, TokenConstants
    <2>3. ASSUME NEW u \in Holders, dcall' = [dcall EXCEPT ![h] =
                   [by |-> None, user |-> u, op |-> o, of |-> d, step |-> "op"]]
          PROVE  dcall'[h].by = None /\ dcall'[h] # None
      <3>1. PICK c : c = [by |-> None, user |-> u, op |-> o, of |-> d, step |-> "op"]
        OBVIOUS
      <3>2. c \in TokenCall /\ c.by = None
        BY <3>1 DEF TokenCall
      <3> QED BY <2>2, <2>3, <3>1, <3>2
    <2>4. ASSUME NEW t \in Tokens, dcall' = [dcall EXCEPT ![h] =
                   [by |-> t, user |-> None, op |-> o, of |-> d, step |-> "get"]]
          PROVE  dcall'[h].by = t /\ dcall'[h].step = "get" /\ dcall'[h] # None
      <3>1. PICK c : c = [by |-> t, user |-> None, op |-> o, of |-> d, step |-> "get"]
        OBVIOUS
      <3>2. c \in TokenCall /\ c.by = t /\ c.step = "get"
        BY <3>1 DEF TokenCall
      <3> QED BY <2>2, <2>4, <3>1, <3>2
    <2> QED BY <2>1, <2>3, <2>4
  <1>3. CASE dcall'[h].by = None /\ dcall'[h] # None
    <2>1. D!Shown(h)' = D!Shown(h) /\ D!Verdict(h)' = D!Verdict(h)
      BY <1>1, <1>3 DEF D!Shown, D!Verdict
    <2> QED BY <1>1, <2>1, TokenRest
  <1>4. ASSUME NEW t \in Tokens, drow[t] # None, dcall'[h].by = t, dcall'[h].step = "get",
               dcall'[h] # None
        PROVE  D!Abstract!Next
    <2>1. /\ D!Shown(h) = None /\ D!Shown(h)' = t
          /\ \A g \in Requests \ {h} : D!Shown(g)' = D!Shown(g)
          /\ \A g \in Requests : D!Verdict(g)' = D!Verdict(g)
      BY <1>1, <1>4 DEF D!Shown, D!Verdict
    <2>2. D!Owner(t) # None
      BY <1>4 DEF D!Owner, TokenConstants, TokenInv, TokenTypes, TokenRow
    <2>3. D!Abstract!Show(h, t)
      BY <1>1, <2>1, <2>2
      DEF D!Abstract!Show
    <2> QED BY <2>3 DEF D!Abstract!Next
  <1> QED BY <1>2, <1>3, <1>4

\* The SELECT of the token decides, and what follows keeps the answer.
LEMMA GetDecides ==
  ASSUME TokenConstants, TokenInv, NEW h \in Requests, D!GetByID(h)
  PROVE  TokenInv' /\ D!Abstract!Next
  <1>0. PICK c : c = dcall[h]
    OBVIOUS
  <1>1. /\ c \in TokenCall /\ c.step = "get" /\ c.by \in Tokens /\ drow[c.by] # None
        /\ UNCHANGED <<dnow, drow>>
    BY <1>0 DEF D!GetByID, D!At, TokenInv, TokenTypes, TokenCallOK, TokenCall
  <1>2. PICK r \in TokenRow : r = drow[c.by]
    BY <1>1, SMTT(30) DEF TokenInv, TokenTypes
  <1>3. PICK s \in {"refused", "op", "touch"}, u \in Holders \cup {None} :
          /\ dcall' = [dcall EXCEPT ![h] = [c EXCEPT !.step = s, !.user = u]]
          /\ r.revoked # None => s = "refused" /\ u = None
          /\ r.revoked = None => s # "refused" /\ u = r.user
    <2>1. r.user \in Holders
      BY <1>2 DEF TokenRow
    <2>2. CASE r.revoked # None
      <3>1. dcall' = [dcall EXCEPT ![h] = [c EXCEPT !.step = "refused", !.user = None]]
        BY <1>0, <1>2, <2>2 DEF D!GetByID
      <3> QED BY <2>2, <3>1
    <2>3. CASE r.revoked = None /\ r.used = dnow
      <3>1. dcall' = [dcall EXCEPT ![h] = [c EXCEPT !.step = "op", !.user = r.user]]
        BY <1>0, <1>2, <2>3 DEF D!GetByID
      <3> QED BY <2>1, <2>3, <3>1
    <2>4. CASE r.revoked = None /\ r.used # dnow
      <3>1. dcall' = [dcall EXCEPT ![h] = [c EXCEPT !.step = "touch", !.user = r.user]]
        BY <1>0, <1>2, <2>4 DEF D!GetByID
      <3> QED BY <2>1, <2>4, <3>1
    <2> QED BY <2>2, <2>3, <2>4
  <1>4. PICK e : e = [c EXCEPT !.step = s, !.user = u]
    OBVIOUS
  <1>5. /\ e \in TokenCall /\ e.step = s /\ e.user = u /\ e.by = c.by /\ e.op = c.op
        /\ e.of = c.of
    BY <1>1, <1>4 DEF TokenCall
  <1>6. /\ dcall' \in [Requests -> TokenCall \cup {None}] /\ dcall'[h] = e
        /\ \A g \in Requests \ {h} : dcall'[g] = dcall[g]
    BY <1>3, <1>4, <1>5 DEF TokenInv, TokenTypes
  <1>7. TokenInv'
    <2>1. TokenTypes'
      BY <1>1, <1>6 DEF TokenInv, TokenTypes, TokenRow, TokenTime
    <2>2. TokenCallOK(h)
      BY <1>0, <1>1 DEF TokenInv, TokenConstants
    <2>3. c.by # None
      BY <1>1 DEF TokenConstants
    <2>4. TokenCallOK(h)'
      BY <1>0, <1>1, <1>2, <1>3, <1>5, <1>6, <2>2, <2>3 DEF TokenCallOK
    <2> QED BY <1>1, <1>6, <2>1, <2>4, TokenStep
  <1>8. D!Abstract!Next
    <2>1. dcall[h] # None /\ dcall'[h] # None
      BY <1>0, <1>1, <1>5, <1>6 DEF TokenConstants
    <2>2. /\ D!Shown(h) = c.by /\ c.by # None /\ D!Verdict(h) = None
          /\ D!Verdict(h)' = IF s = "refused" THEN "refused" ELSE u
          /\ \A g \in Requests : D!Shown(g)' = D!Shown(g)
          /\ \A g \in Requests \ {h} : D!Verdict(g)' = D!Verdict(g)
      BY <1>0, <1>1, <1>5, <1>6, <2>1 DEF D!Shown, D!Verdict, TokenConstants
    <2>3. /\ D!Owner(c.by) = r.user /\ r.user # None /\ D!Since(c.by) = r.revoked
          /\ \A d \in Tokens : D!Owner(d)' = D!Owner(d) /\ D!Since(d)' = D!Since(d)
      BY <1>1, <1>2 DEF D!Owner, D!Since, TokenRow, TokenConstants
    <2>4. D!Abstract!Decide(h)
      <3>1. D!Abstract!Valid(c.by) <=> r.revoked = None
        BY <1>1, <2>3 DEF D!Abstract!Valid
      <3>2. IF r.revoked = None THEN D!Verdict(h)' = D!Owner(c.by)
                                ELSE D!Verdict(h)' = "refused"
        BY <1>3, <2>2, <2>3
      <3> QED BY <1>1, <2>2, <2>3, <3>1, <3>2
              DEF D!Abstract!Decide
    <2> QED BY <2>4 DEF D!Abstract!Next
  <1> QED BY <1>7, <1>8

\* The time of the last use is nothing a credential has.
LEMMA TouchRests ==
  ASSUME TokenConstants, TokenInv, NEW h \in Requests, D!TouchLastUsed(h)
  PROVE  TokenInv' /\ D!Abstract!Next
  <1>0. PICK c : c = dcall[h]
    OBVIOUS
  <1>1. /\ c \in TokenCall /\ c.step = "touch" /\ c.by \in Tokens /\ drow[c.by] # None
        /\ UNCHANGED dnow /\ c.by # None /\ c # None
    BY <1>0 DEF D!TouchLastUsed, D!At, TokenInv, TokenTypes, TokenCallOK, TokenCall, TokenConstants
  <1>2. PICK e : e = [c EXCEPT !.step = "op"]
    OBVIOUS
  <1>3. /\ e \in TokenCall /\ e.step = "op" /\ e.user = c.user /\ e.by = c.by /\ e.op = c.op
        /\ e.of = c.of
    BY <1>1, <1>2 DEF TokenCall
  <1>4. dcall' = [dcall EXCEPT ![h] = e]
    BY <1>0, <1>2 DEF D!TouchLastUsed, D!Go
  <1>5. /\ dcall' \in [Requests -> TokenCall \cup {None}] /\ dcall'[h] = e /\ e # None
        /\ \A g \in Requests \ {h} : dcall'[g] = dcall[g]
    BY <1>3, <1>4 DEF TokenInv, TokenTypes, TokenConstants
  <1>6. /\ drow' \in [Tokens -> TokenRow \cup {None}]
        /\ \A d \in Tokens : /\ drow'[d] = None <=> drow[d] = None
                             /\ drow[d] # None => /\ drow'[d].user = drow[d].user
                                                 /\ drow'[d].revoked = drow[d].revoked
    <2>1. PICK r \in TokenRow : r = drow[c.by]
      BY <1>1 DEF TokenInv, TokenTypes
    <2>2. PICK s : s = [r EXCEPT !.used = dnow]
      OBVIOUS
    <2>3. /\ s \in TokenRow /\ s.user = r.user /\ s.revoked = r.revoked /\ s # None
          /\ dnow \in TokenTime
      BY <2>2 DEF TokenRow, TokenInv, TokenTypes, TokenTime, TokenConstants
    <2>4. UNCHANGED drow \/ drow' = [drow EXCEPT ![c.by] = s]
      BY <1>0, <2>1, <2>2 DEF D!TouchLastUsed
    <2> QED BY <1>1, <2>1, <2>3, <2>4 DEF TokenInv, TokenTypes, TokenConstants
  <1>7. TokenInv'
    <2>1. TokenTypes'
      BY <1>1, <1>5, <1>6 DEF TokenInv, TokenTypes
    <2>2. TokenCallOK(h)
      BY <1>0, <1>1 DEF TokenInv
    <2>3. c.of \in Tokens
      BY <1>1 DEF TokenCall
    <2>4. TokenCallOK(h)'
      BY <1>0, <1>1, <1>3, <1>5, <1>6, <2>2, <2>3 DEF TokenCallOK
    <2> QED BY <1>5, <1>6, <2>1, <2>4, TokenStep
  <1>8. D!Abstract!Next
    <2>1. \A d \in Tokens : D!Owner(d)' = D!Owner(d) /\ D!Since(d)' = D!Since(d)
      BY <1>6 DEF D!Owner, D!Since
    <2>2. D!Shown(h)' = D!Shown(h) /\ D!Verdict(h)' = D!Verdict(h)
      BY <1>0, <1>1, <1>3, <1>5 DEF D!Shown, D!Verdict
    <2> QED BY <1>5, <2>1, <2>2, TokenRest
  <1> QED BY <1>7, <1>8

\* The last step of a request: it ends, and one row may be new or revoked.
LEMMA TokenEnds ==
  ASSUME TokenConstants, TokenInv, NEW h \in Requests, D!Create(h) \/ D!Revoke(h) \/ D!Answer(h)
  PROVE  TokenInv' /\ D!Abstract!Next
  <1>0. PICK c : c = dcall[h]
    OBVIOUS
  <1>1. c \in TokenCall /\ c.of \in Tokens /\ UNCHANGED dnow /\ c # None /\ TokenCallOK(h)
    BY <1>0 DEF D!Create, D!Revoke, D!Answer, D!At, TokenInv, TokenTypes, TokenCall
  <1>2. /\ dcall' \in [Requests -> TokenCall \cup {None}] /\ dcall'[h] = None
        /\ \A g \in Requests \ {h} : dcall'[g] = dcall[g]
    BY DEF D!Create, D!Revoke, D!Answer, D!Answered, TokenInv, TokenTypes
  <1>3. \/ UNCHANGED drow
        \/ /\ c.op = "create" /\ drow[c.of] = None
           /\ \E u \in Holders :
                drow' = [drow EXCEPT ![c.of] = [user |-> u, used |-> None, revoked |-> None]]
        \/ /\ drow[c.of] # None /\ drow[c.of].revoked = None
           /\ drow' = [drow EXCEPT ![c.of] = [drow[c.of] EXCEPT !.revoked = dnow]]
    <2>1. CASE D!Create(h)
      <3>1. c.op = "create" /\ c.step = "op" /\ drow[c.of] = None
        BY <1>0, <1>1, <2>1 DEF D!Create, D!At, TokenCallOK
      <3>2. c.user \in Holders
        <4>1. c.by = None \/ (c.by \in Tokens /\ drow[c.by] # None /\ c.user = drow[c.by].user)
          BY <1>0, <1>1, <3>1 DEF TokenCallOK, TokenCall
        <4> QED BY <1>0, <1>1, <4>1 DEF TokenCallOK, TokenCall, TokenRow, TokenInv, TokenTypes
      <3> QED BY <1>0, <2>1, <3>1, <3>2 DEF D!Create
    <2>2. CASE D!Revoke(h)
      <3>1. drow[c.of] # None
        BY <1>0, <1>1, <2>2 DEF D!Revoke, TokenCallOK
      <3>2. PICK r \in TokenRow : r = drow[c.of]
        BY <1>1, <3>1 DEF TokenInv, TokenTypes
      <3>3. CASE r.user = c.user
        <4>1. drow' = [drow EXCEPT ![c.of].revoked = IF @ = None THEN dnow ELSE @]
          BY <1>0, <2>2, <3>2, <3>3 DEF D!Revoke
        <4>2. drow' = [drow EXCEPT ![c.of] =
                        [r EXCEPT !.revoked = IF r.revoked = None THEN dnow ELSE r.revoked]]
          BY <3>2, <4>1
        <4>3. [r EXCEPT !.revoked = r.revoked] = r
          BY DEF TokenRow
        <4>4. r.revoked # None => drow' = [drow EXCEPT ![c.of] = r]
          BY <4>2, <4>3
        <4>5. r.revoked # None => UNCHANGED drow
          BY <1>1, <3>2, <4>4 DEF TokenInv, TokenTypes
        <4> QED BY <3>1, <3>2, <4>2, <4>5
      <3>4. CASE r.user # c.user
        BY <1>0, <2>2, <3>2, <3>4 DEF D!Revoke
      <3> QED BY <3>3, <3>4
    <2>3. CASE D!Answer(h)
      BY <2>3 DEF D!Answer
    <2> QED BY <2>1, <2>2, <2>3
  <1>4. CASE UNCHANGED drow
    <2>1. TokenTypes'
      BY <1>1, <1>2, <1>4 DEF TokenInv, TokenTypes
    <2>2. \A d \in Tokens : D!Owner(d)' = D!Owner(d) /\ D!Since(d)' = D!Since(d)
      BY <1>4 DEF D!Owner, D!Since
    <2> QED BY <1>2, <1>4, <2>1, <2>2, TokenStep, TokenRest
  <1> DEFINE Ended == \/ /\ UNCHANGED <<[r \in Requests |-> D!Shown(r)],
                                        [r \in Requests |-> D!Verdict(r)]>>
                      \/ D!Abstract!End(h)
  <1>5. Ended
    <2>1. /\ D!Shown(h)' = None /\ D!Verdict(h)' = None
          /\ \A g \in Requests \ {h} : D!Shown(g)' = D!Shown(g) /\ D!Verdict(g)' = D!Verdict(g)
      BY <1>2 DEF D!Shown, D!Verdict
    <2>2. CASE D!Shown(h) = None
      <3>1. D!Verdict(h) = None
        BY <2>2 DEF D!Verdict
      <3> QED BY <2>1, <2>2, <3>1
    <2>3. CASE D!Shown(h) # None
      BY <2>1, <2>3 DEF D!Abstract!End
    <2> QED BY <2>2, <2>3
  <1>6. ASSUME NEW u \in Holders, c.op = "create", drow[c.of] = None,
               drow' = [drow EXCEPT ![c.of] = [user |-> u, used |-> None, revoked |-> None]]
        PROVE  TokenInv' /\ D!Abstract!Next
    <2>0. PICK r : r = [user |-> u, used |-> None, revoked |-> None]
      OBVIOUS
    <2>1. r \in TokenRow /\ r.user = u /\ r.revoked = None /\ r # None /\ u # None
      BY <2>0 DEF TokenRow, TokenTime, TokenConstants
    <2>2. /\ drow' \in [Tokens -> TokenRow \cup {None}] /\ drow'[c.of] = r
          /\ \A d \in Tokens \ {c.of} : drow'[d] = drow[d]
      BY <1>1, <1>6, <2>0, <2>1 DEF TokenInv, TokenTypes
    <2>3. TokenTypes'
      BY <1>1, <1>2, <2>2 DEF TokenInv, TokenTypes
    <2>4. TokenInv'
      BY <1>0, <1>1, <1>2, <1>6, <2>2, <2>3, TokenStep
    <2>5. /\ D!Owner(c.of) = None /\ D!Owner(c.of)' = u
          /\ \A d \in Tokens \ {c.of} : D!Owner(d)' = D!Owner(d)
          /\ \A d \in Tokens : D!Since(d)' = D!Since(d)
      BY <1>6, <2>1, <2>2 DEF D!Owner, D!Since
    <2>6. D!Abstract!Issue(c.of, u)
      BY <1>1, <2>5 DEF D!Abstract!Issue
    <2> QED BY <1>1, <1>5, <2>4, <2>6 DEF D!Abstract!Next
  <1>7. ASSUME drow[c.of] # None, drow[c.of].revoked = None,
               drow' = [drow EXCEPT ![c.of] = [drow[c.of] EXCEPT !.revoked = dnow]]
        PROVE  TokenInv' /\ D!Abstract!Next
    <2>0. PICK r \in TokenRow : r = drow[c.of]
      BY <1>1, <1>7 DEF TokenInv, TokenTypes
    <2>1. PICK s : s = [r EXCEPT !.revoked = dnow]
      OBVIOUS
    <2>2. /\ s \in TokenRow /\ s.user = r.user /\ s.revoked = dnow /\ s # None
          /\ dnow \in TokenTime /\ dnow \in 0..MaxTokenTime
      BY <2>1 DEF TokenRow, TokenTime, TokenConstants, TokenInv, TokenTypes
    <2>3. /\ drow' \in [Tokens -> TokenRow \cup {None}] /\ drow'[c.of] = s
          /\ \A d \in Tokens \ {c.of} : drow'[d] = drow[d]
      BY <1>1, <1>7, <2>0, <2>1, <2>2 DEF TokenInv, TokenTypes
    <2>4. TokenTypes'
      BY <1>1, <1>2, <2>3 DEF TokenInv, TokenTypes
    <2>5. TokenInv'
      BY <1>2, <1>7, <2>0, <2>2, <2>3, <2>4, TokenStep
    <2>6. /\ D!Owner(c.of) # None /\ D!Since(c.of) = None /\ D!Since(c.of)' = dnow
          /\ \A d \in Tokens : D!Owner(d)' = D!Owner(d)
          /\ \A d \in Tokens \ {c.of} : D!Since(d)' = D!Since(d)
      BY <1>7, <2>0, <2>2, <2>3 DEF D!Owner, D!Since, TokenRow, TokenConstants
    <2>7. D!Abstract!Withdraw(c.of, dnow)
      BY <1>1, <2>6 DEF D!Abstract!Withdraw, D!Abstract!Valid
    <2> QED BY <1>1, <1>5, <2>2, <2>5, <2>7 DEF D!Abstract!Next
  <1> QED BY <1>3, <1>4, <1>6, <1>7

\* Every step keeps the invariant and is one of a credential.
LEMMA NextTokens ==
  ASSUME TokenConstants
  PROVE  TokenInv /\ [D!Next]_(D!vars) => TokenInv' /\ [D!Abstract!Next]_(D!Abstract!vars)
  <1> SUFFICES ASSUME TokenInv, [D!Next]_(D!vars)
               PROVE  TokenInv' /\ [D!Abstract!Next]_(D!Abstract!vars)
    OBVIOUS
  <1>1. ASSUME UNCHANGED <<drow, dcall>>, dnow' \in 0..MaxTokenTime
        PROVE  TokenInv' /\ UNCHANGED D!Abstract!vars
    <2>1. TokenInv'
      BY <1>1 DEF TokenInv, TokenTypes, TokenCallOK
    <2>2. /\ \A d \in Tokens : D!Owner(d)' = D!Owner(d) /\ D!Since(d)' = D!Since(d)
          /\ \A h \in Requests : D!Shown(h)' = D!Shown(h) /\ D!Verdict(h)' = D!Verdict(h)
      BY <1>1 DEF D!Owner, D!Since, D!Shown, D!Verdict
    <2> QED BY <2>1, <2>2 DEF D!Abstract!vars
  <1>2. CASE D!Tick
    <2>1. dnow' \in 0..MaxTokenTime
      BY <1>2 DEF D!Tick, TokenInv, TokenTypes, TokenConstants
    <2> QED BY <1>1, <1>2, <2>1 DEF D!Tick
  <1>3. CASE UNCHANGED D!vars
    BY <1>1, <1>3 DEF D!vars, TokenInv, TokenTypes
  <1> QED BY <1>2, <1>3, SendTokens, SendShows, GetDecides, TouchRests, TokenEnds DEF D!Next

\* Nor is there a credential.
LEMMA InitTokensAbstract == ASSUME TokenConstants PROVE D!Init => TokenInv /\ D!Abstract!Init
  <1>1. D!Init => /\ \A d \in Tokens : D!Owner(d) = None /\ D!Since(d) = None
                  /\ \A h \in Requests : D!Shown(h) = None /\ D!Verdict(h) = None
    BY DEF D!Init, D!Owner, D!Since, D!Shown, D!Verdict
  <1> QED BY <1>1, InitTokens DEF D!Abstract!Init

\* Device tokens are credentials, whatever the number of tokens and of requests
\* that run at the same time (DeviceTokenAuth and the three handlers).
THEOREM DeviceTokensAreCredentials == D!Spec => TokensAreCredentials
  <1>1. D!Init => TokenInv /\ D!Abstract!Init
    BY CredentialsAssumption, InitTokensAbstract
  <1>2. TokenInv /\ [D!Next]_(D!vars) => TokenInv' /\ [D!Abstract!Next]_(D!Abstract!vars)
    BY CredentialsAssumption, NextTokens
  <1> QED BY <1>1, <1>2, PTL
      DEF D!Spec, TokensAreCredentials, D!TokensAreCredentials, D!Abstract!Spec

-----------------------------------------------------------------------------
(* Passkeys one logs in with *)

PasskeyTypes ==
  /\ pnow \in Nat
  /\ counter \in [Passkeys -> Nat]
  /\ prow \in [Passkeys -> PasskeyRow \cup {None}]
  /\ pcall \in [Requests -> PasskeyCall \cup {None}]

\* What a request is for: a passkey that is or was registered, whose user a
\* login has found; one to delete; or one no other request registers.
PasskeyCallOK(h) ==
  LET c == pcall[h] IN
  /\ c.step # "register" => prow[c.passkey] # None
  /\ c.step \in {"touch", "issue"} => c.user = prow[c.passkey].user
  /\ c.step = "register" =>
       /\ prow[c.passkey] = None /\ c.user \in Holders
       /\ \A g \in Requests \ {h} :
            pcall[g] # None /\ pcall[g].step = "register" => pcall[g].passkey # c.passkey

PasskeyInv == PasskeyTypes /\ \A h \in Requests : pcall[h] # None => PasskeyCallOK(h)

\* A step of request h: rows stay with their users, and one that is new is the
\* one h registers.
LEMMA PasskeyStep ==
  ASSUME PasskeyInv, PasskeyTypes', NEW h \in Requests,
         \A g \in Requests \ {h} : pcall'[g] = pcall[g],
         \A d \in Passkeys : prow[d] # None => prow'[d] # None /\ prow'[d].user = prow[d].user,
         \A d \in Passkeys : prow[d] = None /\ prow'[d] # None =>
                             pcall[h] # None /\ pcall[h].step = "register" /\ pcall[h].passkey = d,
         pcall'[h] # None => PasskeyCallOK(h)'
  PROVE  PasskeyInv'
  <1> SUFFICES ASSUME NEW g \in Requests, g # h, pcall[g] # None PROVE PasskeyCallOK(g)'
    BY DEF PasskeyInv
  <1>0. PICK c : c = pcall[g]
    OBVIOUS
  <1>1. c \in PasskeyCall /\ c.passkey \in Passkeys
    BY <1>0 DEF PasskeyInv, PasskeyTypes, PasskeyCall
  <1>2. /\ c.step # "register" => prow[c.passkey] # None
        /\ c.step \in {"touch", "issue"} => c.user = prow[c.passkey].user
        /\ c.step = "register" =>
             /\ prow[c.passkey] = None /\ c.user \in Holders
             /\ \A k \in Requests \ {g} :
                  pcall[k] # None /\ pcall[k].step = "register" => pcall[k].passkey # c.passkey
    BY <1>0 DEF PasskeyInv, PasskeyCallOK
  <1>3. c.step = "register" => prow'[c.passkey] = None
    BY <1>1, <1>2
  <1>4. c.step = "register" => \A k \in Requests \ {g} :
          pcall'[k] # None /\ pcall'[k].step = "register" => pcall'[k].passkey # c.passkey
    BY <1>0, <1>2 DEF PasskeyCallOK
  <1> QED BY <1>0, <1>1, <1>2, <1>3, <1>4 DEF PasskeyCallOK

\* A step that changes no credential, and of no request what it shows and has
\* been told, or that ends request h.
LEMMA PasskeyRest ==
  ASSUME PasskeyConstants, PasskeyInv, NEW h \in Requests,
         \A d \in Passkeys : P!Owner(d)' = P!Owner(d) /\ P!Since(d)' = P!Since(d),
         \A g \in Requests \ {h} : pcall'[g] = pcall[g],
         \/ P!Shown(h)' = P!Shown(h) /\ P!Verdict(h)' = P!Verdict(h)
         \/ pcall'[h] = None
  PROVE  P!Abstract!Next
  <1>1. \A g \in Requests \ {h} : P!Shown(g)' = P!Shown(g) /\ P!Verdict(g)' = P!Verdict(g)
    BY DEF P!Shown, P!Verdict, P!LogsIn
  <1>2. CASE P!Shown(h)' = P!Shown(h) /\ P!Verdict(h)' = P!Verdict(h)
    BY <1>1, <1>2 DEF P!Abstract!Next
  <1>3. CASE pcall'[h] = None
    <2>1. P!Shown(h)' = None /\ P!Verdict(h)' = None
      BY <1>3 DEF P!Shown, P!Verdict, P!LogsIn
    <2>2. CASE P!Shown(h) = None
      <3>1. P!LogsIn(h) => pcall[h].passkey \in Passkeys
        BY DEF P!LogsIn, PasskeyInv, PasskeyTypes, PasskeyCall
      <3>2. P!Verdict(h) = None
        BY <2>2, <3>1 DEF P!Shown, P!Verdict, PasskeyConstants
      <3> QED BY <1>2, <2>1, <2>2, <3>2
    <2>3. CASE P!Shown(h) # None
      <3>1. P!Abstract!End(h)
        BY <1>1, <2>1, <2>3 DEF P!Abstract!End
      <3> QED BY <3>1 DEF P!Abstract!Next
    <2> QED BY <2>2, <2>3
  <1> QED BY <1>2, <1>3

\* Before any request there is no passkey, and no credential.
LEMMA InitPasskeys == ASSUME PasskeyConstants PROVE P!Init => PasskeyInv /\ P!Abstract!Init
  <1> SUFFICES ASSUME P!Init PROVE PasskeyInv /\ P!Abstract!Init
    OBVIOUS
  <1>1. PasskeyInv
    BY DEF PasskeyConstants, P!Init, PasskeyInv, PasskeyTypes
  <1>2. /\ \A d \in Passkeys : P!Owner(d) = None /\ P!Since(d) = None
        /\ \A h \in Requests : P!Shown(h) = None /\ P!Verdict(h) = None
    BY DEF P!Init, P!Owner, P!Since, P!Shown, P!Verdict, P!LogsIn
  <1> QED BY <1>1, <1>2 DEF P!Abstract!Init

\* A login arrives, and shows its passkey.
LEMMA SignShows ==
  ASSUME PasskeyConstants, PasskeyInv, NEW h \in Requests, P!Sign(h)
  PROVE  PasskeyInv' /\ P!Abstract!Next
  <1>1. PICK p \in Passkeys, at \in 0..pnow, n \in Nat :
          /\ prow[p] # None
          /\ pcall' = [pcall EXCEPT ![h] = [step |-> "get", passkey |-> p, issued |-> at,
                                          user |-> None, count |-> n]]
          /\ counter' \in [Passkeys -> Nat]
    <2>1. PICK p \in Passkeys, at \in 0..pnow :
            /\ prow[p] # None /\ counter' \in {counter, [counter EXCEPT ![p] = @ + 1]}
            /\ pcall' = [pcall EXCEPT ![h] =
                          [step |-> "get", passkey |-> p, issued |-> at, user |-> None,
                           count |-> IF counter' = counter THEN 0 ELSE counter'[p]]]
      BY DEF P!Sign
    <2>2. counter[p] + 1 \in Nat
      BY DEF PasskeyInv, PasskeyTypes
    <2>3. counter' \in [Passkeys -> Nat]
      BY <2>1, <2>2 DEF PasskeyInv, PasskeyTypes
    <2>4. (IF counter' = counter THEN 0 ELSE counter'[p]) \in Nat
      BY <2>3
    <2> QED BY <2>1, <2>3, <2>4
  <1>2. PICK c : c = [step |-> "get", passkey |-> p, issued |-> at, user |-> None, count |-> n]
    OBVIOUS
  <1>3. /\ c \in PasskeyCall /\ c.step = "get" /\ c.passkey = p /\ c # None
        /\ pcall[h] = None /\ UNCHANGED <<pnow, prow>>
    <2>1. at \in Nat
      BY DEF PasskeyInv, PasskeyTypes
    <2> QED BY <1>2, <2>1 DEF PasskeyCall, PasskeyConstants, LoginSteps, P!Sign
  <1>4. /\ pcall' \in [Requests -> PasskeyCall \cup {None}] /\ pcall'[h] = c
        /\ \A g \in Requests \ {h} : pcall'[g] = pcall[g]
    BY <1>1, <1>2, <1>3 DEF PasskeyInv, PasskeyTypes
  <1>5. PasskeyInv'
    <2>1. PasskeyTypes'
      BY <1>1, <1>3, <1>4 DEF PasskeyInv, PasskeyTypes
    <2>2. PasskeyCallOK(h)'
      BY <1>1, <1>3, <1>4 DEF PasskeyCallOK
    <2> QED BY <1>3, <1>4, <2>1, <2>2, PasskeyStep
  <1>6. P!Abstract!Next
    <2>1. /\ P!Shown(h) = None /\ P!Shown(h)' = p
          /\ P!Verdict(h) = None /\ P!Verdict(h)' = None
      BY <1>3, <1>4 DEF P!Shown, P!Verdict, P!LogsIn
    <2>2. \A g \in Requests \ {h} : P!Shown(g)' = P!Shown(g) /\ P!Verdict(g)' = P!Verdict(g)
      BY <1>4 DEF P!Shown, P!Verdict, P!LogsIn
    <2>3. /\ P!Owner(p) # None
          /\ \A d \in Passkeys : P!Owner(d)' = P!Owner(d) /\ P!Since(d)' = P!Since(d)
      BY <1>1, <1>3 DEF P!Owner, P!Since, P!Exists, PasskeyInv, PasskeyTypes, PasskeyRow,
                        PasskeyConstants
    <2>4. P!Abstract!Show(h, p)
      BY <2>1, <2>2, <2>3 DEF P!Abstract!Show
    <2> QED BY <2>4 DEF P!Abstract!Next
  <1> QED BY <1>5, <1>6

\* A request of a user who manages passkeys shows none.
LEMMA ManageRests ==
  ASSUME PasskeyConstants, PasskeyInv, NEW h \in Requests, P!SendManage(h)
  PROVE  PasskeyInv' /\ P!Abstract!Next
  <1>1. PICK s \in {"register", "delete"}, p \in Passkeys, u \in Holders :
          /\ s = "delete" => prow[p] # None
          /\ s = "register" => /\ prow[p] = None
                               /\ \A g \in Requests : pcall[g] # None => pcall[g].passkey # p
          /\ pcall' = [pcall EXCEPT ![h] = [step |-> s, passkey |-> p, issued |-> pnow,
                                          user |-> u, count |-> 0]]
    BY DEF P!SendManage
  <1>2. PICK c : c = [step |-> s, passkey |-> p, issued |-> pnow, user |-> u, count |-> 0]
    OBVIOUS
  <1>3. /\ c \in PasskeyCall /\ c.step = s /\ c.passkey = p /\ c.user = u /\ c # None
        /\ pcall[h] = None /\ UNCHANGED <<pnow, counter, prow>>
    BY <1>2 DEF PasskeyCall, PasskeyConstants, P!SendManage, PasskeyInv, PasskeyTypes
  <1>4. /\ pcall' \in [Requests -> PasskeyCall \cup {None}] /\ pcall'[h] = c
        /\ \A g \in Requests \ {h} : pcall'[g] = pcall[g]
    BY <1>1, <1>2, <1>3 DEF PasskeyInv, PasskeyTypes
  <1>5. PasskeyInv'
    <2>1. PasskeyTypes'
      BY <1>3, <1>4 DEF PasskeyInv, PasskeyTypes
    <2>2. PasskeyCallOK(h)'
      BY <1>1, <1>3, <1>4 DEF PasskeyCallOK
    <2> QED BY <1>3, <1>4, <2>1, <2>2, PasskeyStep
  <1>6. /\ P!Shown(h)' = P!Shown(h) /\ P!Verdict(h)' = P!Verdict(h)
        /\ \A d \in Passkeys : P!Owner(d)' = P!Owner(d) /\ P!Since(d)' = P!Since(d)
    BY <1>3, <1>4 DEF P!Shown, P!Verdict, P!LogsIn, LoginSteps, P!Owner, P!Since, P!Exists
  <1> QED BY <1>4, <1>5, <1>6, PasskeyRest

\* The SELECT of the passkey decides: what follows it keeps the answer.
LEMMA LookupDecides ==
  ASSUME PasskeyConstants, PasskeyInv, NEW h \in Requests, P!Get(h)
  PROVE  PasskeyInv' /\ P!Abstract!Next
  <1>0. PICK c : c = pcall[h]
    OBVIOUS
  <1>1. /\ c \in PasskeyCall /\ c.step = "get" /\ c.passkey \in Passkeys /\ c # None
        /\ prow[c.passkey] # None /\ UNCHANGED <<pnow, counter, prow>>
    BY <1>0 DEF P!Get, P!At, PasskeyInv, PasskeyTypes, PasskeyCallOK, PasskeyCall
  <1>2. PICK r \in PasskeyRow : r = prow[c.passkey]
    BY <1>1 DEF PasskeyInv, PasskeyTypes
  <1>3. PICK e \in PasskeyCall :
          /\ pcall' = [pcall EXCEPT ![h] = e] /\ e.passkey = c.passkey
          /\ \/ e.step = "refused"
             \/ e.step = "touch" /\ e.user = r.user /\ ~r.gone
    <2>0. r.signCount \in Nat /\ r.user \in Holders /\ c.count \in Nat
      BY <1>1 DEF PasskeyRow, PasskeyCall
    <2>1. CASE c.issued + challengeTTL <= pnow \/ ~P!Exists(c.passkey)
      <3>1. PICK e : e = [c EXCEPT !.step = "refused"]
        OBVIOUS
      <3>2. e \in PasskeyCall /\ e.step = "refused" /\ e.passkey = c.passkey
        BY <1>1, <3>1 DEF PasskeyCall, LoginSteps
      <3>3. pcall' = [pcall EXCEPT ![h] = e]
        BY <1>0, <2>1, <3>1 DEF P!Get
      <3> QED BY <3>2, <3>3
    <2>2. CASE ~(c.issued + challengeTTL <= pnow) /\ P!Exists(c.passkey)
      <3>0. PICK n : n = IF c.count > r.signCount THEN c.count ELSE r.signCount
        OBVIOUS
      <3>1. PICK e : e = [c EXCEPT !.step = "touch", !.user = r.user, !.count = n]
        OBVIOUS
      <3>2. /\ e \in PasskeyCall /\ e.step = "touch" /\ e.passkey = c.passkey
            /\ e.user = r.user
        BY <1>1, <2>0, <3>0, <3>1 DEF PasskeyCall, LoginSteps
      <3>3. pcall' = [pcall EXCEPT ![h] = e]
        BY <1>0, <1>2, <2>2, <3>0, <3>1 DEF P!Get
      <3>4. ~r.gone
        BY <1>2, <2>2 DEF P!Exists
      <3> QED BY <3>2, <3>3, <3>4
    <2> QED BY <2>1, <2>2
  <1>4. /\ pcall' \in [Requests -> PasskeyCall \cup {None}] /\ pcall'[h] = e /\ e # None
        /\ \A g \in Requests \ {h} : pcall'[g] = pcall[g]
    BY <1>3 DEF PasskeyInv, PasskeyTypes, PasskeyConstants
  <1>5. PasskeyInv'
    <2>1. PasskeyTypes'
      BY <1>1, <1>4 DEF PasskeyInv, PasskeyTypes
    <2>2. PasskeyCallOK(h)'
      BY <1>1, <1>2, <1>3, <1>4 DEF PasskeyCallOK
    <2> QED BY <1>1, <1>4, <2>1, <2>2, PasskeyStep
  <1>6. P!Abstract!Next
    <2>1. /\ P!Shown(h) = c.passkey /\ P!Verdict(h) = None /\ P!Shown(h)' = c.passkey
          /\ P!Verdict(h)' = IF e.step = "refused" THEN "refused" ELSE r.user
          /\ c.passkey # None
      BY <1>0, <1>1, <1>3, <1>4 DEF P!Shown, P!Verdict, P!LogsIn, PasskeyConstants
    <2>2. \A g \in Requests \ {h} : P!Shown(g)' = P!Shown(g) /\ P!Verdict(g)' = P!Verdict(g)
      BY <1>4 DEF P!Shown, P!Verdict, P!LogsIn
    <2>3. \A d \in Passkeys : P!Owner(d)' = P!Owner(d) /\ P!Since(d)' = P!Since(d)
      BY <1>1 DEF P!Owner, P!Since, P!Exists
    <2>4. P!Owner(c.passkey) = r.user /\ r.user # None /\ (~r.gone => P!Since(c.passkey) = None)
      BY <1>1, <1>2 DEF P!Owner, P!Since, P!Exists, PasskeyRow, PasskeyConstants
    <2>5. P!Abstract!Decide(h)
      BY <1>1, <1>3, <2>1, <2>2, <2>3, <2>4 DEF P!Abstract!Decide, P!Abstract!Valid
    <2> QED BY <2>5 DEF P!Abstract!Next
  <1> QED BY <1>5, <1>6

\* The counter is nothing a credential has, and stored in a row that is there.
LEMMA CounterRests ==
  ASSUME PasskeyConstants, PasskeyInv, NEW h \in Requests, P!TouchUsed(h)
  PROVE  PasskeyInv' /\ P!Abstract!Next
  <1>0. PICK c : c = pcall[h]
    OBVIOUS
  <1>1. /\ c \in PasskeyCall /\ c.step = "touch" /\ c.passkey \in Passkeys /\ c # None
        /\ prow[c.passkey] # None /\ c.user = prow[c.passkey].user
        /\ UNCHANGED <<pnow, counter>> /\ c.count \in Nat
    BY <1>0 DEF P!TouchUsed, P!At, PasskeyInv, PasskeyTypes, PasskeyCallOK, PasskeyCall
  <1>2. PICK e : e = [c EXCEPT !.step = "issue"]
    OBVIOUS
  <1>3. /\ e \in PasskeyCall /\ e.step = "issue" /\ e.user = c.user /\ e.passkey = c.passkey
        /\ e # None
    BY <1>1, <1>2 DEF PasskeyCall, LoginSteps, PasskeyConstants
  <1>4. /\ pcall' \in [Requests -> PasskeyCall \cup {None}] /\ pcall'[h] = e
        /\ \A g \in Requests \ {h} : pcall'[g] = pcall[g]
    BY <1>0, <1>2, <1>3 DEF P!TouchUsed, PasskeyInv, PasskeyTypes
  <1>5. /\ prow' \in [Passkeys -> PasskeyRow \cup {None}]
        /\ \A d \in Passkeys : /\ prow'[d] = None <=> prow[d] = None
                               /\ prow[d] # None => /\ prow'[d].user = prow[d].user
                                                   /\ prow'[d].gone = prow[d].gone
    <2>1. PICK r \in PasskeyRow : r = prow[c.passkey]
      BY <1>1 DEF PasskeyInv, PasskeyTypes
    <2>2. PICK s : s = [r EXCEPT !.signCount = c.count]
      OBVIOUS
    <2>3. s \in PasskeyRow /\ s.user = r.user /\ s.gone = r.gone /\ s # None
      BY <1>1, <2>2 DEF PasskeyRow, PasskeyConstants
    <2>4. UNCHANGED prow \/ prow' = [prow EXCEPT ![c.passkey] = s]
      BY <1>0, <2>1, <2>2 DEF P!TouchUsed
    <2> QED BY <1>1, <2>1, <2>3, <2>4 DEF PasskeyInv, PasskeyTypes, PasskeyConstants
  <1>6. PasskeyInv'
    <2>1. PasskeyTypes'
      BY <1>1, <1>4, <1>5 DEF PasskeyInv, PasskeyTypes
    <2>2. PasskeyCallOK(h)'
      BY <1>1, <1>3, <1>4, <1>5 DEF PasskeyCallOK
    <2> QED BY <1>4, <1>5, <2>1, <2>2, PasskeyStep
  <1>7. P!Abstract!Next
    <2>1. \A d \in Passkeys : P!Owner(d)' = P!Owner(d) /\ P!Since(d)' = P!Since(d)
      BY <1>5 DEF P!Owner, P!Since, P!Exists
    <2>2. P!Shown(h)' = P!Shown(h) /\ P!Verdict(h)' = P!Verdict(h)
      BY <1>0, <1>1, <1>3, <1>4 DEF P!Shown, P!Verdict, P!LogsIn
    <2> QED BY <1>4, <2>1, <2>2, PasskeyRest
  <1> QED BY <1>6, <1>7

\* The last step of a request: it ends, and one row may be new or gone.
LEMMA PasskeyEnds ==
  ASSUME PasskeyConstants, PasskeyInv, NEW h \in Requests,
         P!Register(h) \/ P!Delete(h) \/ P!Answer(h)
  PROVE  PasskeyInv' /\ P!Abstract!Next
  <1>0. PICK c : c = pcall[h]
    OBVIOUS
  <1>1. /\ c \in PasskeyCall /\ c.passkey \in Passkeys /\ UNCHANGED <<pnow, counter>>
        /\ c # None /\ PasskeyCallOK(h)
    BY <1>0 DEF P!Register, P!Delete, P!Answer, P!At, PasskeyInv, PasskeyTypes, PasskeyCall
  <1>2. /\ pcall' \in [Requests -> PasskeyCall \cup {None}] /\ pcall'[h] = None
        /\ \A g \in Requests \ {h} : pcall'[g] = pcall[g]
    BY DEF P!Register, P!Delete, P!Answer, P!Answered, PasskeyInv, PasskeyTypes
  <1>3. CASE UNCHANGED prow
    <2>1. PasskeyTypes'
      BY <1>1, <1>2, <1>3 DEF PasskeyInv, PasskeyTypes
    <2>2. \A d \in Passkeys : P!Owner(d)' = P!Owner(d) /\ P!Since(d)' = P!Since(d)
      BY <1>3 DEF P!Owner, P!Since, P!Exists
    <2> QED BY <1>2, <1>3, <2>1, <2>2, PasskeyStep, PasskeyRest
  <1>4. CASE P!Register(h) \/ P!Delete(h)
    <2>1. \A g \in Requests : P!Shown(g)' = P!Shown(g) /\ P!Verdict(g)' = P!Verdict(g)
      <3>1. c.step \in {"register", "delete"}
        BY <1>0, <1>4 DEF P!Register, P!Delete, P!At
      <3> QED BY <1>0, <1>2, <3>1 DEF P!Shown, P!Verdict, P!LogsIn
    <2>2. CASE P!Register(h)
      <3>1. c.step = "register" /\ prow[c.passkey] = None /\ c.user \in Holders
        BY <1>0, <1>1, <2>2 DEF P!Register, P!At, PasskeyCallOK
      <3>2. PICK r : r = [user |-> c.user, signCount |-> 0, gone |-> FALSE]
        OBVIOUS
      <3>3. /\ r \in PasskeyRow /\ r.user = c.user /\ ~r.gone /\ r # None
            /\ prow' = [prow EXCEPT ![c.passkey] = r]
        <4>1. r \in PasskeyRow /\ r.user = c.user /\ ~r.gone
          BY <3>1, <3>2 DEF PasskeyRow
        <4>2. prow' = [prow EXCEPT ![c.passkey] = r]
          BY <1>0, <2>2, <3>2 DEF P!Register
        <4> QED BY <4>1, <4>2 DEF PasskeyConstants
      <3>4. /\ prow' \in [Passkeys -> PasskeyRow \cup {None}] /\ prow'[c.passkey] = r
            /\ \A d \in Passkeys \ {c.passkey} : prow'[d] = prow[d]
        BY <1>1, <3>3 DEF PasskeyInv, PasskeyTypes
      <3>5. PasskeyTypes'
        BY <1>1, <1>2, <3>4 DEF PasskeyInv, PasskeyTypes
      <3>6. PasskeyInv'
        BY <1>0, <1>1, <1>2, <3>1, <3>4, <3>5, PasskeyStep
      <3>7. /\ P!Owner(c.passkey) = None /\ P!Owner(c.passkey)' = c.user
            /\ \A d \in Passkeys \ {c.passkey} : P!Owner(d)' = P!Owner(d)
            /\ \A d \in Passkeys : P!Since(d)' = P!Since(d)
        BY <3>1, <3>3, <3>4 DEF P!Owner, P!Since, P!Exists
      <3>8. P!Abstract!Issue(c.passkey, c.user)
        BY <1>1, <3>7 DEF P!Abstract!Issue
      <3> QED BY <1>1, <2>1, <3>1, <3>6, <3>8 DEF P!Abstract!Next
    <2>3. CASE P!Delete(h) /\ P!Exists(c.passkey) /\ prow[c.passkey].user = c.user
      <3>1. PICK r \in PasskeyRow : r = prow[c.passkey] /\ r # None /\ ~r.gone
        BY <1>1, <2>3 DEF PasskeyInv, PasskeyTypes, P!Exists
      <3>2. PICK s : s = [r EXCEPT !.gone = TRUE]
        OBVIOUS
      <3>3. /\ s \in PasskeyRow /\ s.user = r.user /\ s.gone /\ s # None
            /\ prow' = [prow EXCEPT ![c.passkey] = s]
        <4>1. prow' = [prow EXCEPT ![c.passkey].gone = TRUE]
          BY <1>0, <2>3 DEF P!Delete
        <4> QED BY <3>1, <3>2, <4>1 DEF PasskeyRow, PasskeyConstants
      <3>4. /\ prow' \in [Passkeys -> PasskeyRow \cup {None}] /\ prow'[c.passkey] = s
            /\ \A d \in Passkeys \ {c.passkey} : prow'[d] = prow[d]
        BY <1>1, <3>3 DEF PasskeyInv, PasskeyTypes
      <3>5. PasskeyTypes'
        BY <1>1, <1>2, <3>4 DEF PasskeyInv, PasskeyTypes
      <3>6. PasskeyInv'
        BY <1>0, <1>1, <1>2, <3>1, <3>3, <3>4, <3>5, PasskeyStep
      <3>7. /\ P!Owner(c.passkey) # None /\ P!Since(c.passkey) = None
            /\ P!Since(c.passkey)' = 0
            /\ \A d \in Passkeys : P!Owner(d)' = P!Owner(d)
            /\ \A d \in Passkeys \ {c.passkey} : P!Since(d)' = P!Since(d)
        BY <3>1, <3>3, <3>4 DEF P!Owner, P!Since, P!Exists, PasskeyRow, PasskeyConstants
      <3>8. P!Abstract!Withdraw(c.passkey, 0)
        BY <1>1, <3>7 DEF P!Abstract!Withdraw, P!Abstract!Valid
      <3> QED BY <1>1, <2>1, <3>6, <3>8 DEF P!Abstract!Next
    <2>4. CASE P!Delete(h) /\ ~(P!Exists(c.passkey) /\ prow[c.passkey].user = c.user)
      BY <1>0, <1>3, <2>4 DEF P!Delete
    <2> QED BY <1>4, <2>2, <2>3, <2>4
  <1> QED BY <1>3, <1>4 DEF P!Answer

\* Every step keeps the invariant and is one of a credential.
LEMMA NextPasskeys ==
  ASSUME PasskeyConstants
  PROVE  PasskeyInv /\ [P!Next]_(P!vars) => PasskeyInv' /\ [P!Abstract!Next]_(P!Abstract!vars)
  <1> SUFFICES ASSUME PasskeyInv, [P!Next]_(P!vars)
               PROVE  PasskeyInv' /\ [P!Abstract!Next]_(P!Abstract!vars)
    OBVIOUS
  <1>1. ASSUME UNCHANGED <<counter, prow, pcall>>, pnow' \in Nat
        PROVE  PasskeyInv' /\ UNCHANGED P!Abstract!vars
    <2>1. PasskeyInv'
      BY <1>1 DEF PasskeyInv, PasskeyTypes, PasskeyCallOK
    <2>2. /\ \A d \in Passkeys : P!Owner(d)' = P!Owner(d) /\ P!Since(d)' = P!Since(d)
          /\ \A h \in Requests : P!Shown(h)' = P!Shown(h) /\ P!Verdict(h)' = P!Verdict(h)
      BY <1>1 DEF P!Owner, P!Since, P!Shown, P!Verdict, P!LogsIn, P!Exists
    <2> QED BY <2>1, <2>2 DEF P!Abstract!vars
  <1>2. CASE P!Tick
    <2>1. pnow' \in Nat
      BY <1>2 DEF P!Tick, PasskeyInv, PasskeyTypes
    <2> QED BY <1>1, <1>2, <2>1 DEF P!Tick
  <1>3. CASE UNCHANGED P!vars
    BY <1>1, <1>3 DEF P!vars, PasskeyInv, PasskeyTypes
  <1> QED BY <1>2, <1>3, SignShows, ManageRests, LookupDecides, CounterRests, PasskeyEnds
          DEF P!Next

\* Passkeys are credentials, whatever the number of logins and of requests that
\* register and delete at the same time (passkey_handler.go, passkey_repo.go).
THEOREM LoginPasskeysAreCredentials == P!Spec => PasskeysAreCredentials
  <1>1. P!Init => PasskeyInv /\ P!Abstract!Init
    BY CredentialsAssumption, InitPasskeys
  <1>2. PasskeyInv /\ [P!Next]_(P!vars) => PasskeyInv' /\ [P!Abstract!Next]_(P!Abstract!vars)
    BY CredentialsAssumption, NextPasskeys
  <1> QED BY <1>1, <1>2, PTL
      DEF P!Spec, PasskeysAreCredentials, P!PasskeysAreCredentials, P!Abstract!Spec

-----------------------------------------------------------------------------
(* The keys of an identity provider *)

KeyTypes ==
  /\ know \in Nat /\ keysAt \in Int /\ keysAt <= know
  /\ published \in SUBSET Keys /\ keys \in SUBSET Keys
  /\ seen \in [Keys -> Nat \cup {None}]
  /\ req \in [Requests -> KeyRequest \cup KeyVerdict \cup {None}]

\* The published keys are seen now, the cached ones were not long before they
\* came.
SeenInTime ==
  /\ \A k \in published : seen[k] = know
  /\ \A k \in keys : seen[k] \in Nat /\ seen[k] + Timeout >= keysAt

\* What request h waits for began no longer than Timeout ago; the keys it has
\* got were seen since, and what it reads again is no older.
InTime(h) ==
  LET r == req[h] IN
  r # None /\ r.step \in Waiting =>
    /\ r.since <= know /\ know <= r.since + Timeout
    /\ r.step = "install" => \A k \in r.got : seen[k] \in Nat /\ seen[k] >= r.since
    /\ r.step = "reread" => keysAt >= r.since

KeyInv == KeyTypes /\ SeenInTime /\ \A h \in Requests : InTime(h)

\* A new process has an empty cache.
LEMMA InitKeys == ASSUME KeyConstants PROVE K!Init => KeyInv
  <1> SUFFICES ASSUME K!Init PROVE KeyInv
    OBVIOUS
  <1>1. know = 0 /\ keysAt \in Int /\ keysAt <= know
    BY DEF K!Init, KeyConstants
  <1>2. seen \in [Keys -> Nat \cup {None}] /\ \A k \in published : seen[k] = know
    BY DEF K!Init
  <1> QED BY <1>1, <1>2 DEF K!Init, KeyInv, KeyTypes, SeenInTime, InTime

\* A request and what it says.
LEMMA RequestFields ==
  ASSUME KeyConstants, KeyInv, NEW h \in Requests, req[h] # None,
         req[h].step \in Waiting \cup {"lookup"}
  PROVE  req[h] \in KeyRequest
  BY DEF KeyInv, KeyTypes, KeyVerdict, Waiting

\* A step of request h that leaves the clock, the provider and the cache alone.
LEMMA KeyStep ==
  ASSUME KeyConstants, KeyInv, NEW h \in Requests, UNCHANGED <<know, published, seen, keys, keysAt>>,
         NEW r \in KeyRequest \cup KeyVerdict \cup {None}, req' = [req EXCEPT ![h] = r],
         r # None /\ r.step \in Waiting =>
           /\ r.since <= know /\ know <= r.since + Timeout
           /\ r.step = "install" => \A k \in r.got : seen[k] \in Nat /\ seen[k] >= r.since
           /\ r.step = "reread" => keysAt >= r.since
  PROVE  KeyInv'
  <1>1. /\ req' \in [Requests -> KeyRequest \cup KeyVerdict \cup {None}] /\ req'[h] = r
        /\ \A g \in Requests \ {h} : req'[g] = req[g]
    BY DEF KeyInv, KeyTypes
  <1>2. KeyTypes' /\ SeenInTime'
    BY <1>1 DEF KeyInv, KeyTypes, SeenInTime
  <1>3. \A g \in Requests : InTime(g)'
    BY <1>1 DEF KeyInv, InTime
  <1> QED BY <1>2, <1>3 DEF KeyInv

\* A request waits for something else than before.
Goes(h, e) == e \in KeyRequest /\ req' = [req EXCEPT ![h] = e]

\* What a lookup finds or asks for.
LEMMA LookupGoes ==
  ASSUME KeyConstants, KeyInv, NEW h \in Requests, K!Lookup(h)
  PROVE  \/ req[h].kid \in keys /\ ~(know - keysAt > keysTTL) /\ K!Ends(h, "accepted")
         \/ \E e : Goes(h, e) /\ e.step \in {"fetch", "discover"} /\ e.since = know
  <1>1. PICK r \in KeyRequest : r = req[h]
    BY RequestFields DEF K!Lookup, K!At
  <1>2. CASE r.kid \in keys /\ ~(know - keysAt > keysTTL)
    BY <1>1, <1>2 DEF K!Lookup
  <1>3. CASE ~(r.kid \in keys /\ ~(know - keysAt > keysTTL))
    <2>1. PICK s : s = IF disc \/ Overridden THEN "fetch" ELSE "discover"
      OBVIOUS
    <2>2. PICK b : b = (r.kid \in keys)
      OBVIOUS
    <2>3. b \in BOOLEAN
      BY <2>2
    <2>4. PICK e : e = [r EXCEPT !.ok = b, !.since = know, !.step = s]
      OBVIOUS
    <2>5. e \in KeyRequest /\ e.step \in {"fetch", "discover"} /\ e.since = know
      BY <2>1, <2>3, <2>4 DEF KeyRequest, Waiting, KeyInv, KeyTypes
    <2>6. req' = [req EXCEPT ![h] = e]
      BY <1>1, <1>3, <2>1, <2>2, <2>4 DEF K!Lookup
    <2> QED BY <2>5, <2>6 DEF Goes
  <1> QED BY <1>2, <1>3

\* The requests to the provider, and what is done with its answer.
LEMMA FetchGoes ==
  ASSUME KeyConstants, KeyInv, NEW h \in Requests, K!Discover(h) \/ K!Fetch(h) \/ K!Install(h)
  PROVE  /\ req[h] \in KeyRequest /\ req[h] # None
         /\ \E e : /\ Goes(h, e)
                   /\ \/ /\ K!Discover(h) /\ e.step = "fetch" /\ e.since = know
                      \/ /\ K!Fetch(h) /\ req[h].step = "fetch" /\ e.step = "install"
                         /\ e.since = req[h].since /\ e.got = published
                      \/ /\ K!Install(h) /\ req[h].step = "install" /\ e.step = "reread"
                         /\ e.since = req[h].since
  <1>1. PICK r \in KeyRequest : r = req[h] /\ r # None
    BY RequestFields DEF K!Discover, K!Fetch, K!Install, K!At, Waiting
  <1>2. CASE K!Discover(h)
    <2>1. PICK e : e = [r EXCEPT !.step = "fetch", !.since = know]
      OBVIOUS
    <2>2. e \in KeyRequest /\ e.step = "fetch" /\ e.since = know
      BY <2>1 DEF KeyRequest, Waiting, KeyInv, KeyTypes
    <2>3. req' = [req EXCEPT ![h] = e]
      BY <1>1, <1>2, <2>1 DEF K!Discover
    <2> QED BY <1>1, <1>2, <2>2, <2>3 DEF Goes
  <1>3. CASE K!Fetch(h)
    <2>1. PICK e : e = [r EXCEPT !.step = "install", !.got = published]
      OBVIOUS
    <2>2. e \in KeyRequest /\ e.step = "install" /\ e.since = r.since /\ e.got = published
      BY <2>1 DEF KeyRequest, Waiting, KeyInv, KeyTypes
    <2>3. req' = [req EXCEPT ![h] = e]
      BY <1>1, <1>3, <2>1 DEF K!Fetch
    <2> QED BY <1>1, <1>3, <2>2, <2>3 DEF Goes, K!Fetch, K!At
  <1>4. CASE K!Install(h)
    <2>1. PICK e : e = [r EXCEPT !.step = "reread", !.got = {}]
      OBVIOUS
    <2>2. e \in KeyRequest /\ e.step = "reread" /\ e.since = r.since
      BY <2>1 DEF KeyRequest, Waiting
    <2>3. req' = [req EXCEPT ![h] = e]
      BY <1>1, <1>4, <2>1 DEF K!Install
    <2> QED BY <1>1, <1>4, <2>2, <2>3 DEF Goes, K!Install, K!At
  <1> QED BY <1>2, <1>3, <1>4

\* The steps of a request but Install, which writes the cache.
LEMMA RequestSteps ==
  ASSUME KeyConstants, KeyInv, NEW h \in Requests,
         \/ K!Arrive(h) \/ K!Lookup(h) \/ K!Discover(h) \/ K!Fetch(h)
         \/ K!Reread(h) \/ K!Fail(h) \/ K!End(h)
  PROVE  KeyInv'
  <1>0. PICK r : r = req[h]
    OBVIOUS
  <1>1. know \in Nat /\ published \in SUBSET Keys /\ UNCHANGED <<know, published, seen, keys, keysAt>>
    BY DEF K!Arrive, K!Lookup, K!Discover, K!Fetch, K!Reread, K!Fail, K!End, KeyInv, KeyTypes
  <1>2. \A n \in Nat : n <= n + Timeout
    BY DEF KeyConstants
  <1>3. ASSUME NEW v \in {"accepted", "stale", "refused"}, K!Ends(h, v) PROVE KeyInv'
    <2>1. [step |-> v] \in KeyVerdict /\ [step |-> v].step \notin Waiting
      BY DEF KeyVerdict, Waiting
    <2> QED BY <1>1, <1>3, <2>1, KeyStep DEF K!Ends
  <1>4. CASE K!Arrive(h)
    <2>1. PICK k \in Keys : req' = [req EXCEPT ![h] =
            [step |-> "lookup", kid |-> k, ok |-> FALSE, since |-> 0, got |-> {}]]
      BY <1>4 DEF K!Arrive
    <2>2. PICK e : e = [step |-> "lookup", kid |-> k, ok |-> FALSE, since |-> 0, got |-> {}]
      OBVIOUS
    <2>3. e \in KeyRequest /\ e.step \notin Waiting
      BY <2>2 DEF KeyRequest, Waiting
    <2> QED BY <1>1, <2>1, <2>2, <2>3, KeyStep
  <1>5. CASE K!Lookup(h) \/ K!Discover(h)
    <2>1. K!Ends(h, "accepted")
          \/ \E e : Goes(h, e) /\ e.step \in {"fetch", "discover"} /\ e.since = know
      <3>1. K!Discover(h) => req[h].step = "discover"
        BY DEF K!Discover, K!At
      <3> QED BY <1>5, <3>1, LookupGoes, FetchGoes
    <2>2. ASSUME NEW e, Goes(h, e), e.step \in {"fetch", "discover"}, e.since = know
          PROVE  KeyInv'
      <3>1. e.since <= know /\ know <= e.since + Timeout
        BY <1>1, <1>2, <2>2
      <3> QED BY <1>1, <2>2, <3>1, KeyStep DEF Goes
    <2> QED BY <1>3, <2>1, <2>2
  <1>7. CASE K!Fetch(h)
    <2>1. PICK e : /\ Goes(h, e) /\ e.step = "install" /\ e.since = req[h].since
                   /\ e.got = published
      BY <1>7, FetchGoes DEF K!Discover, K!Fetch, K!Install, K!At
    <2>2. req[h].since <= know /\ know <= req[h].since + Timeout /\ req[h].since \in Nat
      BY <1>7, FetchGoes DEF KeyInv, InTime, Waiting, K!Fetch, K!At, KeyRequest
    <2>3. \A k \in published : seen[k] \in Nat /\ seen[k] >= req[h].since
      BY <1>1, <2>2 DEF KeyInv, SeenInTime
    <2> QED BY <1>1, <2>1, <2>2, <2>3, KeyStep DEF Goes
  <1>8. CASE K!Reread(h)
    BY <1>3, <1>8 DEF K!Reread
  <1>9. CASE K!Fail(h)
    BY <1>3, <1>9 DEF K!Fail
  <1>10. CASE K!End(h)
    BY <1>1, <1>10, KeyStep DEF K!End
  <1> QED BY <1>4, <1>5, <1>7, <1>8, <1>9, <1>10

\* The cache is replaced by what a request has got, in whatever order requests
\* do so.
LEMMA InstallStep ==
  ASSUME KeyConstants, KeyInv, NEW h \in Requests, K!Install(h) PROVE KeyInv'
  <1>0. PICK r \in KeyRequest : r = req[h] /\ r # None /\ r.step = "install"
    BY RequestFields DEF K!Install, K!At, Waiting
  <1>1. /\ r.since <= know /\ know <= r.since + Timeout
        /\ \A k \in r.got : seen[k] \in Nat /\ seen[k] >= r.since
    BY <1>0 DEF KeyInv, InTime, Waiting
  <1>2. PICK e : e = [r EXCEPT !.step = "reread", !.got = {}]
    OBVIOUS
  <1>3. e \in KeyRequest /\ e.step = "reread" /\ e.since = r.since /\ r.since \in Nat
        /\ r.got \in SUBSET Keys
    BY <1>2 DEF KeyRequest, Waiting
  <1>4. /\ req' = [req EXCEPT ![h] = e] /\ keys' = r.got /\ keysAt' = know
        /\ UNCHANGED <<know, published, seen>>
    BY <1>0, <1>2 DEF K!Install
  <1>5. /\ req' \in [Requests -> KeyRequest \cup KeyVerdict \cup {None}] /\ req'[h] = e
        /\ \A g \in Requests \ {h} : req'[g] = req[g]
    BY <1>3, <1>4 DEF KeyInv, KeyTypes
  <1>6. KeyTypes'
    BY <1>3, <1>4, <1>5 DEF KeyInv, KeyTypes
  <1>7. SeenInTime'
    <2>1. \A k \in r.got : seen[k] \in Nat /\ seen[k] + Timeout >= know
      <3>1. know \in Nat /\ Timeout \in Nat
        BY DEF KeyInv, KeyTypes, KeyConstants
      <3>2. \A a, b, c, d \in Nat : c <= a + d /\ b >= a => b + d >= c
        OBVIOUS
      <3> QED BY <1>1, <1>3, <3>1, <3>2
    <2> QED BY <1>4, <2>1 DEF KeyInv, SeenInTime
  <1>8. \A g \in Requests : InTime(g)'
    <2>1. InTime(h)'
      BY <1>1, <1>3, <1>4, <1>5 DEF InTime
    <2>2. ASSUME NEW g \in Requests \ {h} PROVE InTime(g)'
      BY <1>4, <1>5 DEF KeyInv, InTime
    <2> QED BY <2>1, <2>2
  <1> QED BY <1>6, <1>7, <1>8 DEF KeyInv

\* The provider rotates its keys, time passes, or the process starts anew.
LEMMA OtherSteps == ASSUME KeyConstants, KeyInv, K!Rotate \/ K!Tick \/ K!Restart PROVE KeyInv'
  <1>0. know \in Nat /\ keysAt \in Int /\ keysAt <= know /\ Timeout \in Nat /\ keysTTL \in Nat
    BY DEF KeyInv, KeyTypes, KeyConstants
  <1>1. CASE K!Rotate
    <2>1. PICK k \in Keys :
            \/ seen[k] = None /\ published' = published \cup {k} /\ seen' = [seen EXCEPT ![k] = know]
            \/ published' = published \ {k} /\ UNCHANGED seen
      BY <1>1 DEF K!Rotate
    <2>2. UNCHANGED <<know, disc, keys, keysAt, req>>
      BY <1>1 DEF K!Rotate
    <2>3. /\ seen' \in [Keys -> Nat \cup {None}] /\ published' \in SUBSET Keys
          /\ \A l \in Keys : seen[l] \in Nat => seen'[l] = seen[l]
          /\ \A l \in published' : seen'[l] = know
      BY <1>0, <2>1 DEF KeyInv, KeyTypes, SeenInTime, KeyConstants
    <2>4. KeyTypes' /\ SeenInTime'
      BY <2>2, <2>3 DEF KeyInv, KeyTypes, SeenInTime
    <2>5. ASSUME NEW g \in Requests PROVE InTime(g)'
      <3> SUFFICES ASSUME req[g] # None, req[g].step \in Waiting
                   PROVE  req[g].step = "install" =>
                            \A l \in req[g].got : seen'[l] \in Nat /\ seen'[l] >= req[g].since
        BY <2>2 DEF KeyInv, InTime
      <3>1. req[g].got \in SUBSET Keys
        BY RequestFields DEF KeyRequest
      <3> QED BY <2>3, <3>1 DEF KeyInv, InTime
    <2> QED BY <2>4, <2>5 DEF KeyInv
  <1>2. CASE K!Tick
    <2>1. /\ know' = know + 1 /\ UNCHANGED <<published, disc, keys, keysAt, req>>
          /\ seen' = [k \in Keys |-> IF k \in published THEN know' ELSE seen[k]]
          /\ \A g \in Requests : K!Waits(g) => know - req[g].since < Timeout
      BY <1>2 DEF K!Tick
    <2>2. know' \in Nat /\ keysAt <= know'
      BY <1>0, <2>1
    <2>3. /\ seen' \in [Keys -> Nat \cup {None}]
          /\ \A l \in published : seen'[l] = know'
          /\ \A l \in Keys : seen[l] \in Nat => seen'[l] \in Nat /\ seen'[l] >= seen[l]
      BY <1>0, <2>1, <2>2 DEF KeyInv, KeyTypes, SeenInTime
    <2>4. KeyTypes'
      BY <2>1, <2>2, <2>3 DEF KeyInv, KeyTypes
    <2>5. SeenInTime'
      <3>1. \A a, b, d \in Nat, i \in Int : a + d >= i /\ b >= a => b + d >= i
        OBVIOUS
      <3>2. \A k \in keys : seen'[k] \in Nat /\ seen'[k] + Timeout >= keysAt
        BY <1>0, <2>3, <3>1 DEF KeyInv, SeenInTime, KeyTypes
      <3> QED BY <2>1, <2>3, <3>2 DEF SeenInTime
    <2>6. ASSUME NEW g \in Requests PROVE InTime(g)'
      <3> SUFFICES ASSUME req[g] # None, req[g].step \in Waiting
                   PROVE  /\ req[g].since <= know' /\ know' <= req[g].since + Timeout
                          /\ req[g].step = "install" =>
                               \A l \in req[g].got : seen'[l] \in Nat /\ seen'[l] >= req[g].since
                          /\ req[g].step = "reread" => keysAt >= req[g].since
        BY <2>1 DEF InTime
      <3>1. req[g].got \in SUBSET Keys /\ req[g].since \in Nat
        BY RequestFields DEF KeyRequest
      <3>2. know - req[g].since < Timeout /\ req[g].since <= know
        BY <2>1 DEF K!Waits, Waiting, KeyInv, InTime
      <3>3. req[g].since <= know' /\ know' <= req[g].since + Timeout
        BY <1>0, <2>1, <3>1, <3>2
      <3>4. req[g].step = "install" =>
              \A l \in req[g].got : seen'[l] \in Nat /\ seen'[l] >= req[g].since
        <4>1. \A a, b, c \in Nat : a >= b /\ c >= a => c >= b
          OBVIOUS
        <4> QED BY <2>3, <3>1, <4>1 DEF KeyInv, InTime
      <3> QED BY <3>3, <3>4 DEF KeyInv, InTime
    <2> QED BY <2>4, <2>5, <2>6 DEF KeyInv
  <1>3. CASE K!Restart
    <2>1. keysAt' \in Int /\ keysAt' <= know
      BY <1>0, <1>3 DEF K!Restart
    <2> QED BY <1>3, <2>1 DEF K!Restart, KeyInv, KeyTypes, SeenInTime, InTime
  <1> QED BY <1>1, <1>2, <1>3

\* Every step of a request, the provider and the clock keeps the invariant.
LEMMA NextKeys == ASSUME KeyConstants PROVE KeyInv /\ [K!Next]_(K!vars) => KeyInv'
  <1>1. KeyInv /\ UNCHANGED K!vars => KeyInv'
    BY DEF K!vars, KeyInv, KeyTypes, SeenInTime, InTime
  <1> QED BY <1>1, RequestSteps, InstallStep, OtherSteps DEF K!Next

\* Whichever responses are installed last, a token that is accepted is signed
\* by a key the provider has published no longer ago than the cache may keep
\* one and a response may take (getKey and fetchKeys, oidc/client.go).
THEOREM KeysAreRecent == K!Spec => AcceptedRecently
  <1>0. KeyConstants
    BY CredentialsAssumption
  <1>1. KeyInv /\ [K!Next]_(K!vars) =>
          [\A h \in Requests :
             req'[h] # None /\ req'[h].step = "accepted" /\ ~K!At(h, "accepted")
             => seen[req[h].kid] + keysTTL + Timeout >= know]_(K!vars)
    <2> SUFFICES ASSUME KeyInv, K!Next, NEW h \in Requests,
                        req'[h] # None, req'[h].step = "accepted", ~K!At(h, "accepted")
                 PROVE  seen[req[h].kid] + keysTTL + Timeout >= know
      OBVIOUS
    <2>1. req'[h] # req[h]
      BY DEF K!At
    <2>2. CASE K!Lookup(h)
      <3>1. req[h].kid \in keys /\ ~(know - keysAt > keysTTL)
        <4>1. ASSUME NEW e, Goes(h, e), e.step \in {"fetch", "discover"} PROVE FALSE
          BY <4>1 DEF Goes, KeyInv, KeyTypes
        <4> QED BY <1>0, <2>2, <4>1, LookupGoes
      <3>2. seen[req[h].kid] \in Nat /\ seen[req[h].kid] + Timeout >= keysAt
        BY <3>1 DEF KeyInv, SeenInTime
      <3> QED BY <1>0, <3>1, <3>2 DEF KeyInv, KeyTypes, KeyConstants
    <2>3. CASE K!Reread(h)
      <3>1. req[h].kid \in keys
        <4>1. req[h].kid \notin keys => req'[h] = [step |-> "refused"]
          BY <2>3 DEF K!Reread, K!Ends, KeyInv, KeyTypes
        <4> QED BY <4>1
      <3>2. /\ req[h].since \in Nat /\ know <= req[h].since + Timeout /\ keysAt >= req[h].since
        <4>1. req[h] # None /\ req[h].step = "reread"
          BY <2>3 DEF K!Reread, K!At
        <4>2. req[h] \in KeyRequest
          BY <1>0, <4>1, RequestFields DEF Waiting
        <4>3. InTime(h)
          BY DEF KeyInv
        <4> QED BY <4>1, <4>2, <4>3 DEF InTime, Waiting, KeyRequest
      <3>3. seen[req[h].kid] \in Nat /\ seen[req[h].kid] + Timeout >= keysAt
        BY <3>1 DEF KeyInv, SeenInTime
      <3> QED BY <1>0, <3>2, <3>3 DEF KeyInv, KeyTypes, KeyConstants
    <2>4. ASSUME NEW g \in Requests \ {h},
                 \/ K!Arrive(g) \/ K!Lookup(g) \/ K!Discover(g) \/ K!Fetch(g) \/ K!Install(g)
                 \/ K!Reread(g) \/ K!Fail(g) \/ K!End(g)
          PROVE  FALSE
      BY <2>1, <2>4 DEF K!Arrive, K!Lookup, K!Discover, K!Fetch, K!Install, K!Reread, K!Fail,
                        K!End, K!Ends, KeyInv, KeyTypes
    <2>5. ~(K!Rotate \/ K!Tick \/ K!Restart)
      BY <2>1 DEF K!Rotate, K!Tick, K!Restart
    <2>6. ~(K!Arrive(h) \/ K!Discover(h) \/ K!Fetch(h) \/ K!Install(h) \/ K!Fail(h) \/ K!End(h))
      <3>1. CASE K!Discover(h) \/ K!Fetch(h) \/ K!Install(h)
        <4>1. PICK e : Goes(h, e) /\ e.step \in {"fetch", "install", "reread"}
          BY <1>0, <3>1, FetchGoes
        <4> QED BY <4>1 DEF Goes, KeyInv, KeyTypes
      <3>2. CASE K!Arrive(h) \/ K!Fail(h) \/ K!End(h)
        BY <3>2 DEF K!Arrive, K!Fail, K!End, K!Ends, KeyInv, KeyTypes
      <3> QED BY <3>1, <3>2
    <2> QED BY <2>2, <2>3, <2>4, <2>5, <2>6 DEF K!Next
  <1>2. K!Init => KeyInv
    BY <1>0, InitKeys
  <1>3. KeyInv /\ [K!Next]_(K!vars) => KeyInv'
    BY <1>0, NextKeys
  <1> QED BY <1>1, <1>2, <1>3, PTL DEF K!Spec, AcceptedRecently, K!AcceptedRecently
=============================================================================

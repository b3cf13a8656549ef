----------------------------- MODULE ShareLinks -----------------------------
(***************************************************************************)
(* One-time share links: internal/service/share_link_service.go over       *)
(* internal/repository/share_link_repo.go, and the page that opens a link  *)
(* (renderShareOpen and redeemShare in web/app.js).                        *)
(*                                                                         *)
(* Members create, list and revoke links while visitors open them; every   *)
(* request is a chain of autocommitted statements, and the chains of       *)
(* different requests interleave with the clock, with changes of the       *)
(* admins of a team and with deletions of the item.  The payload is opaque *)
(* to the server.  A request or its answer may be lost, a statement may    *)
(* fail; the page shows one notice for that and for a link that is gone.   *)
(***************************************************************************)
EXTENDS Naturals, FiniteSets

CONSTANTS
    Users,      \* signed-in users
    Visitors,   \* browsers that open a link; nobody signs in for that
    Links,      \* link ids; the database never returns one twice
    Items,
    TeamVaults, \* vaults that have a team; the others are personal
    VaultOf,    \* VaultOf[i]: the vault of item i
    OwnerOf,    \* OwnerOf[v]: the user who owns vault v
    Hours,      \* the life times a client may ask for
    MaxTime,    \* bound: the clock stops there
    NoRow, Deleted, Nobody, Idle

Vaults == {VaultOf[i] : i \in Items}

ASSUME OwnerAssumption == OwnerOf \in [Vaults -> Users]
ASSUME TimeAssumption == Hours \subseteq Nat \ {0} /\ MaxTime \in Nat

VARIABLES
    now,      \* the clock of the database, in hours
    items,    \* the items that exist
    admins,   \* admins[v]: the admins of the teams of vault v
    link,     \* link[l]: its row in share_links
    call,     \* call[u]: the request user u has open
    visit,    \* visit[x]: where visitor x is with the link it opens
    taker     \* taker[l]: the visitor whose request got the payload of l

vars == <<now, items, admins, link, call, visit, taker>>

Row == [item : Items, by : Users, expires : Nat, redeemed : BOOLEAN]
Call == [op : {"create"}, step : {"manage", "item", "insert"}, link : Links,
         vault : Vaults, item : Items, hours : Hours]
        \union [op : {"delete"}, step : {"get", "manage", "delete"}, link : Links]
Answers == {"payload", "gone", "not_found", "lost"}  \* lost: none, or a 500
Visit == [step : {"status", "closed", "open", "redeem", "exists"}, link : Links]
         \union [step : {"done"}, link : Links, answer : Answers]

ASSUME SentinelAssumption ==
    /\ NoRow \notin Row /\ Deleted \notin Row /\ NoRow # Deleted
    /\ Nobody \notin Visitors /\ Idle \notin Call \union Visit

Exists(l) == link[l] \in Row
Available(l) == Exists(l) /\ ~link[l].redeemed /\ link[l].expires > now

\* verifyManage: the owner of a personal vault, an admin of a team vault.
MayManage(u, v) == IF v \in TeamVaults THEN u \in admins[v] ELSE u = OwnerOf[v]

Answered(u) == call' = [call EXCEPT ![u] = Idle]
Step(u, s) == call' = [call EXCEPT ![u].step = s]

-----------------------------------------------------------------------------
(* Members *)

\* POST .../share-link, with an item and a vault the path names.
SendCreate(u) ==
    /\ call[u] = Idle
    /\ \E l \in Links, v \in Vaults, i \in Items, h \in Hours :
         /\ link[l] = NoRow
         /\ ~ \E w \in Users : call[w] # Idle /\ call[w].link = l
         /\ call' = [call EXCEPT ![u] = [op |-> "create", step |-> "manage", link |-> l,
                                         vault |-> v, item |-> i, hours |-> h]]
    /\ UNCHANGED <<now, items, admins, link, visit, taker>>

\* DELETE /api/share-links/:id.
SendDelete(u) ==
    /\ call[u] = Idle
    /\ \E l \in Links :
         /\ link[l] # NoRow
         /\ call' = [call EXCEPT ![u] = [op |-> "delete", step |-> "get", link |-> l]]
    /\ UNCHANGED <<now, items, admins, link, visit, taker>>

VerifyManage(u) ==
    LET c == call[u] IN
    /\ c # Idle /\ c.step = "manage"
    /\ IF c.op = "create"
         THEN IF MayManage(u, c.vault) THEN Step(u, "item") ELSE Answered(u)
         ELSE IF Exists(c.link) /\ MayManage(u, VaultOf[link[c.link].item])
                THEN Step(u, "delete") ELSE Answered(u)
    /\ UNCHANGED <<now, items, admins, link, visit, taker>>

VerifyItemInVault(u) ==
    LET c == call[u] IN
    /\ c # Idle /\ c.step = "item"
    /\ IF c.item \in items /\ VaultOf[c.item] = c.vault
         THEN Step(u, "insert") ELSE Answered(u)
    /\ UNCHANGED <<now, items, admins, link, visit, taker>>

\* INSERT INTO share_links; its foreign key fails once the item is gone.
Insert(u) ==
    LET c == call[u] IN
    /\ c # Idle /\ c.step = "insert"
    /\ IF c.item \in items
         THEN link' = [link EXCEPT ![c.link] =
                         [item |-> c.item, by |-> u,
                          expires |-> now + c.hours, redeemed |-> FALSE]]
         ELSE UNCHANGED link
    /\ Answered(u)
    /\ UNCHANGED <<now, items, admins, visit, taker>>

\* GetByID of Delete: the creator may always revoke, others must manage.
GetByID(u) ==
    LET c == call[u] IN
    /\ c # Idle /\ c.step = "get"
    /\ IF ~Exists(c.link) THEN Answered(u)
       ELSE Step(u, IF link[c.link].by = u THEN "delete" ELSE "manage")
    /\ UNCHANGED <<now, items, admins, link, visit, taker>>

\* DELETE FROM share_links.
Delete(u) ==
    LET c == call[u] IN
    /\ c # Idle /\ c.step = "delete"
    /\ link' = [link EXCEPT ![c.link] = IF Exists(c.link) THEN Deleted ELSE @]
    /\ Answered(u)
    /\ UNCHANGED <<now, items, admins, visit, taker>>

-----------------------------------------------------------------------------
(* Visitors *)

At(x, s) == visit[x] # Idle /\ visit[x].step = s
Go(x, s) == visit' = [visit EXCEPT ![x].step = s]
Tell(x, a) == visit' = [visit EXCEPT ![x] = [step |-> "done", link |-> @.link, answer |-> a]]

\* A browser opens the link it was sent; again if it likes.
Open(x) ==
    /\ visit[x] = Idle \/ At(x, "done") \/ At(x, "closed")
    /\ \E l \in Links :
         /\ link[l] # NoRow
         /\ visit' = [visit EXCEPT ![x] = [step |-> "status", link |-> l]]
    /\ UNCHANGED <<now, items, admins, link, call, taker>>

\* GET .../status looks and consumes nothing; any failure counts as gone.
Status(x) ==
    /\ At(x, "status")
    /\ \/ Available(visit[x].link) /\ Go(x, "open")
       \/ Go(x, "closed")
    /\ UNCHANGED <<now, items, admins, link, call, taker>>

\* The visitor presses the button: POST .../redeem.
SendRedeem(x) ==
    /\ At(x, "open")
    /\ Go(x, "redeem")
    /\ UNCHANGED <<now, items, admins, link, call, taker>>

\* Mutant of Redeem: expires_at is not looked at.
RedeemExpired(x) ==
    LET l == visit[x].link IN
    /\ At(x, "redeem")
    /\ IF Exists(l) /\ ~link[l].redeemed
         THEN /\ link' = [link EXCEPT ![l].redeemed = TRUE]
              /\ taker' = [taker EXCEPT ![l] = x]
              /\ Tell(x, "payload")
         ELSE /\ Go(x, "exists")
              /\ UNCHANGED <<link, taker>>
    /\ UNCHANGED <<now, items, admins, call>>

\* Mutant of Redeem: a link in its last hour counts as expired.
RedeemEarly(x) ==
    LET l == visit[x].link IN
    /\ At(x, "redeem")
    /\ IF Available(l) /\ link[l].expires > now + 1
         THEN /\ link' = [link EXCEPT ![l].redeemed = TRUE]
              /\ taker' = [taker EXCEPT ![l] = x]
              /\ Tell(x, "payload")
         ELSE /\ Go(x, "exists")
              /\ UNCHANGED <<link, taker>>
    /\ UNCHANGED <<now, items, admins, call>>

\* UPDATE share_links SET redeemed_at = now() ... RETURNING: one statement
\* decides who gets the payload.  The answer that carries it may be lost.
Redeem(x) ==
    LET l == visit[x].link IN
    /\ At(x, "redeem")
    /\ IF Available(l)
         THEN /\ link' = [link EXCEPT ![l].redeemed = TRUE]
              /\ taker' = [taker EXCEPT ![l] = x]
              /\ \/ Tell(x, "payload")
                 \/ Tell(x, "lost")
         ELSE /\ Go(x, "exists")
              /\ UNCHANGED <<link, taker>>
    /\ UNCHANGED <<now, items, admins, call>>

\* Nothing updated: SELECT EXISTS tells a used link from one never created.
CheckExists(x) ==
    /\ At(x, "exists")
    /\ Tell(x, IF Exists(visit[x].link) THEN "gone" ELSE "not_found")
    /\ UNCHANGED <<now, items, admins, link, call, taker>>

\* The request is lost before it reaches the server, a statement of it fails, or
\* the refusal is lost on its way back.
Fail(x) ==
    /\ At(x, "redeem") \/ At(x, "exists")
    /\ Tell(x, "lost")
    /\ UNCHANGED <<now, items, admins, link, call, taker>>

\* The tab is closed.
Leave(x) ==
    /\ visit[x] # Idle
    /\ visit' = [visit EXCEPT ![x] = Idle]
    /\ UNCHANGED <<now, items, admins, link, call, taker>>

-----------------------------------------------------------------------------
(* The rest of the system *)

Tick ==
    /\ now < MaxTime
    /\ now' = now + 1
    /\ UNCHANGED <<items, admins, link, call, visit, taker>>

\* A promotion, a demotion or a removal in a team of the vault.
ChangeAdmins(v) ==
    /\ v \in TeamVaults
    /\ \E u \in Users :
         admins' = [admins EXCEPT ![v] = IF u \in @ THEN @ \ {u} ELSE @ \union {u}]
    /\ UNCHANGED <<now, items, link, call, visit, taker>>

\* The DELETE of an item cascades to its links.
DeleteItem(i) ==
    /\ i \in items
    /\ items' = items \ {i}
    /\ link' = [l \in Links |-> IF Exists(l) /\ link[l].item = i THEN Deleted ELSE link[l]]
    /\ UNCHANGED <<now, admins, call, visit, taker>>

Init ==
    /\ now = 0
    /\ items = Items
    /\ admins \in [TeamVaults -> {{u} : u \in Users}]
    /\ link = [l \in Links |-> NoRow]
    /\ call = [u \in Users |-> Idle]
    /\ visit = [x \in Visitors |-> Idle]
    /\ taker = [l \in Links |-> Nobody]

Serve(u) == VerifyManage(u) \/ VerifyItemInVault(u) \/ Insert(u) \/ GetByID(u) \/ Delete(u)
Load(x) == Status(x) \/ Redeem(x) \/ CheckExists(x) \/ Fail(x)

Next ==
    \/ \E u \in Users : SendCreate(u) \/ SendDelete(u) \/ Serve(u)
    \/ \E x \in Visitors : Open(x) \/ SendRedeem(x) \/ Load(x) \/ Leave(x)
    \/ Tick
    \/ \E v \in TeamVaults : ChangeAdmins(v)
    \/ \E i \in Items : DeleteItem(i)

Spec == Init /\ [][Next]_vars

-----------------------------------------------------------------------------
(* Properties *)

\* Every variable holds what the table, the requests and the pages may hold.
TypeOK ==
    /\ now \in Nat
    /\ items \subseteq Items
    /\ admins \in [TeamVaults -> SUBSET Users]
    /\ link \in [Links -> Row \union {NoRow, Deleted}]
    /\ call \in [Users -> Call \union {Idle}]
    /\ visit \in [Visitors -> Visit \union {Idle}]
    /\ taker \in [Links -> Visitors \union {Nobody}]

\* What the server answers about a link is true when it arrives, two statements
\* and an answer later: used or unknown only if it cannot be opened any more.
RefusedRightly ==
    \A x \in Visitors :
        visit[x] # Idle
        /\ (visit[x].step = "exists" \/ (visit[x].step = "done" /\ visit[x].answer # "lost"))
            => ~Available(visit[x].link)

\* Does not hold: the page says "expired or already used" (share.open.gone) of links
\* that are.  It says so after any failure.
NoticeIsTrue ==
    \A x \in Visitors :
        visit[x] # Idle
        /\ (visit[x].step = "closed" \/ (visit[x].step = "done" /\ visit[x].answer # "payload"))
            => ~Available(visit[x].link)

\* The links implement one-time secrets: taken at most once, never after the
\* link has expired, has been revoked or has gone with its item.
Secret == INSTANCE OneTimeSecret WITH
            Secrets <- Links,
            offer <- [l \in Links |->
                        IF link[l] = NoRow THEN "new"
                        ELSE IF link[l] = Deleted \/ link[l].item \notin items THEN "withdrawn"
                        ELSE IF link[l].redeemed THEN "taken"
                        ELSE IF link[l].expires > now THEN "open" ELSE "closed"]
ImplementsOneTimeSecret == Secret!Spec
=============================================================================

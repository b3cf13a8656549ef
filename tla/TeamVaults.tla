----------------------------- MODULE TeamVaults -----------------------------
(***************************************************************************)
(* Teams and the keys of their vaults: internal/service/team_service.go    *)
(* and vault_service.go over team_repo.go, vault_repo.go and               *)
(* vault_key_repo.go, driven by the web client (web/app.js).               *)
(*                                                                         *)
(* The server never sees a vault key.  It stores one wrapped copy for each *)
(* member, made by the browser of somebody who holds the key, so the       *)
(* browsers of the admins distribute the keys: when a team page opens      *)
(* (processPendingVaultKeys), when a member is added, when a vault is      *)
(* created.  Each of them is a chain of requests, and a request is a chain *)
(* of autocommitted statements; a tab runs one chain at a time, the chains *)
(* of several tabs interleave, and any of them may break off.              *)
(***************************************************************************)
EXTENDS Naturals, FiniteSets

CONSTANTS
    Users,
    Teams,
    Vaults,     \* ids of team vaults; the database never returns one twice
    Tabs,       \* browser tabs of signed-in users
    OwnerOf,    \* OwnerOf[t]: the user who creates team t
    UserOf,     \* UserOf[p]: the user of tab p
    None,       \* no vault, no job
    NoRow,      \* the vault is not there yet
    Gone        \* the vault has been deleted

ASSUME OwnerOfAssumption == OwnerOf \in [Teams -> Users]
ASSUME UserOfAssumption == UserOf \in [Tabs -> Users]

VARIABLES
    teams,   \* the rows of teams
    role,    \* role[t][u]: the row of u in team_members, if it has or had one
    keyed,   \* users with a public key: encryption is set up
    vault,   \* vault[v]: its row in vaults
    keys,    \* keys[v]: the users with a row for v in vault_keys
    shared,  \* vaults whose team has a row in vault_teams
    pc,      \* pc[p]: the call or the statement tab p waits for
    job,     \* job[p]: what the tab is about
    todo,    \* todo[p]: the copies <<v, u>> it still has to hand out
    batch    \* batch[p]: the users whose copies the current request inserts

server == <<teams, role, keyed, vault, keys, shared>>
vars == <<teams, role, keyed, vault, keys, shared, pc, job, todo, batch>>

Roles == {"none", "member", "admin", "left"}
Row == [owner : Users, team : Teams]
Job == [op : {"open", "add", "create", "role", "remove", "delete", "team"},
        team : Teams, vault : Vaults \union {None}, who : Users,
        role : {"member", "admin"}]

ASSUME SentinelAssumption ==
    /\ None \notin Vaults \union Job
    /\ NoRow \notin Row /\ Gone \notin Row /\ NoRow # Gone

PC == {"idle", "pending", "verify", "member", "pubkey", "vaults", "key",
       "share", "insert", "record", "members", "check", "vault", "write"}

IsMember(t, u) == role[t][u] \in {"member", "admin"}
IsAdmin(t, u) == role[t][u] = "admin"
Exists(v) == vault[v] \in Row
VaultsOf(t) == {v \in Vaults : Exists(v) /\ vault[v].team = t}

\* The copies that tab p has not tried to hand out, those of v left out.
Others(p, v) == {c \in todo[p] : c[1] # v}

\* verifyAccess of ShareVault: the vault's owner, or a holder of its key.
MayShare(v, u) == Exists(v) /\ (vault[v].owner = u \/ u \in keys[v])

\* Tab p goes on at label l with the work w left, or is done if none is.
Goto(p, l) == pc' = [pc EXCEPT ![p] = l]

NextVault(p, w) ==
    /\ todo' = [todo EXCEPT ![p] = w]
    /\ batch' = [batch EXCEPT ![p] = {}]
    /\ IF w = {}
         THEN /\ Goto(p, "idle")
              /\ job' = [job EXCEPT ![p] = None]
         ELSE /\ Goto(p, "key")
              /\ job' = [job EXCEPT ![p].vault = None]

Done(p) == NextVault(p, {})

\* Tab p starts job j at label l.
Start(p, j, l) ==
    /\ pc[p] = "idle"
    /\ Goto(p, l)
    /\ job' = [job EXCEPT ![p] = j]
    /\ UNCHANGED <<server, todo, batch>>

NewJob(op, t, v, u, r) == [op |-> op, team |-> t, vault |-> v, who |-> u, role |-> r]

-----------------------------------------------------------------------------
(* What the users of the tabs do *)

\* SetupEncryption gives a user a key pair, once.
SetupEncryption(u) ==
    /\ u \notin keyed
    /\ keyed' = keyed \union {u}
    /\ UNCHANGED <<teams, role, vault, keys, shared, pc, job, todo, batch>>

\* The web client is of use to nobody without a key pair.
Begin(p) ==
    LET u == UserOf[p] IN
    /\ u \in keyed
    /\ \E t \in Teams :
         \/ /\ t \notin teams /\ OwnerOf[t] = u
            /\ ~ \E q \in Tabs : job[q] # None /\ job[q].op = "team" /\ job[q].team = t
            /\ Start(p, NewJob("team", t, None, u, "admin"), "write")
         \/ /\ IsMember(t, u)
            /\ \/ Start(p, NewJob("open", t, None, u, "member"), "pending")
               \/ \E m \in Users : Start(p, NewJob("add", t, None, m, "member"), "verify")
               \/ \E m \in Users, r \in {"member", "admin"} :
                    Start(p, NewJob("role", t, None, m, r), "verify")
               \/ \E m \in Users : Start(p, NewJob("remove", t, None, m, "member"), "verify")
               \/ \E v \in Vaults :
                    /\ vault[v] = NoRow
                    /\ ~ \E q \in Tabs : job[q] # None /\ job[q].vault = v
                    /\ Start(p, NewJob("create", t, v, u, "member"), "members")
               \/ \E v \in Vaults :
                    /\ Exists(v)
                    /\ Start(p, NewJob("delete", t, v, u, "member"), "check")

\* A request fails on its way, or the tab is closed in the middle of its work.
Break(p) ==
    /\ pc[p] # "idle"
    /\ \/ Done(p)
       \/ /\ pc[p] = "key"
          /\ \E v \in {c[1] : c \in todo[p]} : NextVault(p, Others(p, v))
       \/ /\ pc[p] \in {"share", "insert", "record"}
          /\ NextVault(p, todo[p])
    /\ UNCHANGED server

-----------------------------------------------------------------------------
(* Team membership *)

\* verifyAdmin of AddMember, RemoveMember and UpdateMemberRole.
VerifyAdmin(p) ==
    /\ pc[p] = "verify"
    /\ IF IsAdmin(job[p].team, UserOf[p])
         THEN /\ Goto(p, IF job[p].op = "add" THEN "member" ELSE "write")
              /\ UNCHANGED <<job, todo, batch>>
         ELSE Done(p)
    /\ UNCHANGED server

\* The INSERT of Create, whose second statement adds the owner as an admin.
CreateTeam(p) ==
    LET t == job[p].team IN
    /\ pc[p] = "write" /\ job[p].op = "team"
    /\ IF t \notin teams
         THEN /\ teams' = teams \union {t}
              /\ UNCHANGED <<role, pc, job, todo, batch>>
         ELSE /\ role' = [role EXCEPT ![t][UserOf[p]] = "admin"]
              /\ Done(p)
              /\ UNCHANGED teams
    /\ UNCHANGED <<keyed, vault, keys, shared>>

\* Mutant of ChangeMember: the owner is like any other member.
ChangeAnyMember(p) ==
    LET j == job[p] IN
    /\ pc[p] = "write" /\ j.op \in {"role", "remove"}
    /\ IF IsMember(j.team, j.who)
         THEN role' = [role EXCEPT ![j.team][j.who] =
                         IF j.op = "role" THEN j.role ELSE "left"]
         ELSE UNCHANGED role
    /\ Done(p)
    /\ UNCHANGED <<teams, keyed, vault, keys, shared>>

\* UpdateMemberRole and RemoveMember after verifyAdmin: never on the owner.
ChangeMember(p) ==
    LET j == job[p] IN
    /\ pc[p] = "write" /\ j.op \in {"role", "remove"}
    /\ IF j.who # OwnerOf[j.team] /\ IsMember(j.team, j.who)
         THEN role' = [role EXCEPT ![j.team][j.who] =
                         IF j.op = "role" THEN j.role ELSE "left"]
         ELSE UNCHANGED role
    /\ Done(p)
    /\ UNCHANGED <<teams, keyed, vault, keys, shared>>

\* The INSERT of AddMember; the pair (team, user) is unique.
AddMember(p) ==
    LET j == job[p] IN
    /\ pc[p] = "member"
    /\ IF IsMember(j.team, j.who)
         THEN Done(p) /\ UNCHANGED role
         ELSE /\ role' = [role EXCEPT ![j.team][j.who] = "member"]
              /\ Goto(p, "pubkey")
              /\ UNCHANGED <<job, todo, batch>>
    /\ UNCHANGED <<teams, keyed, vault, keys, shared>>

-----------------------------------------------------------------------------
(* The keys of the vaults *)

\* addTeamMember asks for the public key of the new member, if it has one.
GetPublicKey(p) ==
    /\ pc[p] = "pubkey"
    /\ IF job[p].who \in keyed
         THEN Goto(p, "vaults") /\ UNCHANGED <<job, todo, batch>>
         ELSE Done(p)
    /\ UNCHANGED server

\* ... and then for the vaults of the team: each gets one copy more.  It reads
\* currentTeam again, and the tab may show another team of the user by now.
ListTeamVaults(p) ==
    /\ pc[p] = "vaults"
    /\ \E t \in Teams :
         IF IsMember(t, UserOf[p])
           THEN NextVault(p, VaultsOf(t) \X {job[p].who})
           ELSE Done(p)
    /\ UNCHANGED server

\* Mutant of GetPendingVaultKeys: team_members is not joined.
PendingOfAnyUser(p) ==
    LET t == job[p].team IN
    /\ pc[p] = "pending"
    /\ IF IsAdmin(t, UserOf[p])
         THEN NextVault(p, {c \in VaultsOf(t) \X keyed : c[2] \notin keys[c[1]]})
         ELSE Done(p)
    /\ UNCHANGED server

\* GetPendingVaultKeys, for admins: the members with a public key who have no
\* copy of the key of a vault of the team.
GetPendingVaultKeys(p) ==
    LET t == job[p].team IN
    /\ pc[p] = "pending"
    /\ IF IsAdmin(t, UserOf[p])
         THEN NextVault(p, {c \in VaultsOf(t) \X keyed :
                              IsMember(t, c[2]) /\ c[2] \notin keys[c[1]]})
         ELSE Done(p)
    /\ UNCHANGED server

\* Mutant of GetVaultKey: the owner of the vault needs no copy of its key.
GetVaultKeyOrOwner(p) ==
    /\ pc[p] = "key"
    /\ \E v \in {c[1] : c \in todo[p]} :
         IF MayShare(v, UserOf[p])
           THEN /\ job' = [job EXCEPT ![p].vault = v]
                /\ batch' = [batch EXCEPT ![p] = {c[2] : c \in todo[p] \ Others(p, v)}]
                /\ todo' = [todo EXCEPT ![p] = Others(p, v)]
                /\ Goto(p, "share")
           ELSE NextVault(p, Others(p, v))
    /\ UNCHANGED server

\* The tab fetches its own copy of the key of the next vault, and wraps it for
\* every user the vault is still to be shared with.  No copy: next vault.
GetVaultKey(p) ==
    /\ pc[p] = "key"
    /\ \E v \in {c[1] : c \in todo[p]} :
         IF UserOf[p] \in keys[v]
           THEN /\ job' = [job EXCEPT ![p].vault = v]
                /\ batch' = [batch EXCEPT ![p] = {c[2] : c \in todo[p] \ Others(p, v)}]
                /\ todo' = [todo EXCEPT ![p] = Others(p, v)]
                /\ Goto(p, "share")
           ELSE NextVault(p, Others(p, v))
    /\ UNCHANGED server

\* The access check of ShareVault.
ShareVault(p) ==
    /\ pc[p] = "share"
    /\ IF MayShare(job[p].vault, UserOf[p])
         THEN Goto(p, "insert") /\ UNCHANGED <<job, todo, batch>>
         ELSE NextVault(p, todo[p])
    /\ UNCHANGED server

\* Mutant of InsertVaultKey: the first copy ends the request.
InsertFirstVaultKey(p) ==
    LET v == job[p].vault IN
    /\ pc[p] = "insert"
    /\ \/ /\ batch[p] = {}
          /\ IF job[p].op = "create" THEN Done(p)
             ELSE Goto(p, "record") /\ UNCHANGED <<job, todo, batch>>
          /\ UNCHANGED keys
       \/ \E u \in batch[p] :
            IF Exists(v) /\ u \notin keys[v] /\ keys[v] = {}
              THEN /\ keys' = [keys EXCEPT ![v] = @ \union {u}]
                   /\ batch' = [batch EXCEPT ![p] = @ \ {u}]
                   /\ UNCHANGED <<pc, job, todo>>
              ELSE NextVault(p, todo[p]) /\ UNCHANGED keys
    /\ UNCHANGED <<teams, role, keyed, vault, shared>>

\* One INSERT INTO vault_keys after the other.  The pair (vault, user) is
\* unique, and the vault must exist: the first failure ends the request, and
\* the rows already inserted stay.
InsertVaultKey(p) ==
    LET v == job[p].vault IN
    /\ pc[p] = "insert"
    /\ \/ /\ batch[p] = {}
          /\ IF job[p].op = "create" THEN Done(p)
             ELSE Goto(p, "record") /\ UNCHANGED <<job, todo, batch>>
          /\ UNCHANGED keys
       \/ \E u \in batch[p] :
            IF Exists(v) /\ u \notin keys[v]
              THEN /\ keys' = [keys EXCEPT ![v] = @ \union {u}]
                   /\ batch' = [batch EXCEPT ![p] = @ \ {u}]
                   /\ UNCHANGED <<pc, job, todo>>
              ELSE NextVault(p, todo[p]) /\ UNCHANGED keys
    /\ UNCHANGED <<teams, role, keyed, vault, shared>>

\* AddTeamShare, ON CONFLICT DO NOTHING: the last statement of ShareVault, and
\* of CreateTeamVault the one before the keys.
AddTeamShare(p) ==
    /\ pc[p] = "record"
    /\ shared' = IF Exists(job[p].vault) THEN shared \union {job[p].vault} ELSE shared
    /\ IF Exists(job[p].vault) /\ job[p].op = "create"
         THEN Goto(p, "insert") /\ UNCHANGED <<job, todo, batch>>
         ELSE NextVault(p, todo[p])
    /\ UNCHANGED <<teams, role, keyed, vault, keys>>

\* createTeamVault draws a new key and wraps it for every member whose public
\* key it gets; a public key it does not get is left out.  The vault is then
\* sent to the team the tab shows by now.
GetMembers(p) ==
    LET t == job[p].team IN
    /\ pc[p] = "members"
    /\ IF IsMember(t, UserOf[p])
         THEN /\ \E us \in SUBSET {u \in keyed : IsMember(t, u)} :
                   batch' = [batch EXCEPT ![p] = us]
              /\ \E now \in Teams : job' = [job EXCEPT ![p].team = now]
              /\ Goto(p, "check")
              /\ UNCHANGED todo
         ELSE Done(p)
    /\ UNCHANGED server

\* The checks of CreateTeamVault (membership) and of Delete (the owner of the
\* vault, or an admin of its team).
CheckVaultRight(p) ==
    LET j == job[p]  u == UserOf[p] IN
    /\ pc[p] = "check"
    /\ IF \/ j.op = "create" /\ IsMember(j.team, u)
          \/ /\ j.op = "delete" /\ Exists(j.vault)
             /\ vault[j.vault].owner = u \/ IsAdmin(vault[j.vault].team, u)
         THEN Goto(p, "vault") /\ UNCHANGED <<job, todo, batch>>
         ELSE Done(p)
    /\ UNCHANGED server

\* INSERT INTO vaults.
CreateTeamVault(p) ==
    LET j == job[p] IN
    /\ pc[p] = "vault" /\ j.op = "create"
    /\ vault' = [vault EXCEPT ![j.vault] = [owner |-> UserOf[p], team |-> j.team]]
    /\ Goto(p, "record")
    /\ UNCHANGED <<teams, role, keyed, keys, shared, job, todo, batch>>

\* DELETE FROM vaults, which cascades to the keys and the shares.
DeleteVault(p) ==
    LET v == job[p].vault IN
    /\ pc[p] = "vault" /\ job[p].op = "delete"
    /\ vault' = [vault EXCEPT ![v] = Gone]
    /\ keys' = [keys EXCEPT ![v] = {}]
    /\ shared' = shared \ {v}
    /\ Done(p)
    /\ UNCHANGED <<teams, role, keyed>>

-----------------------------------------------------------------------------
Init ==
    /\ teams = {}
    /\ role = [t \in Teams |-> [u \in Users |-> "none"]]
    /\ keyed = {}
    /\ vault = [v \in Vaults |-> NoRow]
    /\ keys = [v \in Vaults |-> {}]
    /\ shared = {}
    /\ pc = [p \in Tabs |-> "idle"]
    /\ job = [p \in Tabs |-> None]
    /\ todo = [p \in Tabs |-> {}]
    /\ batch = [p \in Tabs |-> {}]

Work(p) ==
    \/ VerifyAdmin(p) \/ CreateTeam(p) \/ ChangeMember(p) \/ AddMember(p)
    \/ GetPublicKey(p) \/ ListTeamVaults(p) \/ GetPendingVaultKeys(p)
    \/ GetVaultKey(p) \/ ShareVault(p) \/ InsertVaultKey(p) \/ AddTeamShare(p)
    \/ GetMembers(p) \/ CheckVaultRight(p) \/ CreateTeamVault(p) \/ DeleteVault(p)

Next ==
    \/ \E u \in Users : SetupEncryption(u)
    \/ \E p \in Tabs : Begin(p) \/ Work(p) \/ Break(p)

Spec == Init /\ [][Next]_vars

\* The owner comes back to the page of the team again and again, and the
\* requests the page makes on its own do not fail for ever.
OpenTeam(p, t) == Begin(p) /\ job'[p] # None /\ job'[p].op = "open" /\ job'[p].team = t
Opened(p) == job[p] # None /\ job[p].op = "open"

Fairness ==
    \A p \in Tabs, t \in Teams :
        UserOf[p] = OwnerOf[t] =>
            /\ WF_vars(Work(p))
            /\ SF_vars(OpenTeam(p, t))
            /\ SF_vars(Opened(p) /\ GetPendingVaultKeys(p))
            /\ SF_vars(Opened(p) /\ GetVaultKey(p))
            /\ SF_vars(Opened(p) /\ ShareVault(p))
            /\ SF_vars(Opened(p) /\ InsertVaultKey(p))

FairSpec == Spec /\ Fairness

-----------------------------------------------------------------------------
(* Properties *)

\* Every variable holds what the tables and the tabs may hold.
TypeOK ==
    /\ teams \subseteq Teams
    /\ role \in [Teams -> [Users -> Roles]]
    /\ keyed \subseteq Users
    /\ vault \in [Vaults -> Row \union {NoRow, Gone}]
    /\ keys \in [Vaults -> SUBSET Users]
    /\ shared \subseteq Vaults
    /\ pc \in [Tabs -> PC]
    /\ job \in [Tabs -> Job \union {None}]
    /\ todo \in [Tabs -> SUBSET (Vaults \X Users)]
    /\ batch \in [Tabs -> SUBSET Users]

\* A team that has a member has its owner as an admin: however the admins
\* demote and remove each other at the same time, somebody can manage it.
TeamCanBeManaged ==
    \A t \in Teams :
        (\E u \in Users : IsMember(t, u)) => IsAdmin(t, OwnerOf[t])

\* A vault key goes only to users who are or were in the team of the vault and
\* have a public key, although the list of those who miss it is old when the
\* copies are inserted.  With one team it holds.  With two it does not: see
\* ListTeamVaults and GetMembers.
HoldersBelong ==
    \A v \in Vaults : \A u \in keys[v] :
        /\ Exists(v)
        /\ u \in keyed
        /\ role[vault[v].team][u] # "none"

\* A vault shares one key: a copy is inserted by the request that creates the
\* vault, or by a user who holds a copy of its own at that moment.
OnlyHoldersShare ==
    [][\A v \in Vaults : \A u \in keys'[v] \ keys[v] :
         \E p \in Tabs : /\ pc[p] = "insert" /\ job[p].vault = v /\ u \in batch[p]
                         /\ job[p].op = "create" \/ UserOf[p] \in keys[v]]_vars

\* Somebody in the team of vault v can still hand out its key, and u misses it.
Missing(v, u) ==
    /\ Exists(v) /\ u \in keyed /\ IsMember(vault[v].team, u)
    /\ u \notin keys[v]

\* A member with a public key gets the key of every vault of the team, as long
\* as the owner of the team has it and keeps opening the page of the team.
KeysReachMembers ==
    \A v \in Vaults, u \in Users :
        (Missing(v, u) /\ OwnerOf[vault[v].team] \in keys[v]) ~> ~Missing(v, u)

\* What the web client says of a member without a public key (app.js:2417):
\* "vault keys will be shared later".
KeysSharedLater ==
    \A v \in Vaults, u \in Users : Missing(v, u) ~> ~Missing(v, u)
=============================================================================

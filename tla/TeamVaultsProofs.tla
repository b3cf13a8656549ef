-------------------------- MODULE TeamVaultsProofs --------------------------
(***************************************************************************)
(* Proofs about TeamVaults, for any sets of users, teams, vaults and tabs. *)
(* What a tab has found out does not become false while its requests are   *)
(* under way: an owner who is an admin stays one, who was in a team has    *)
(* been in it, a public key stays, a vault that was deleted does not come  *)
(* back, and nobody loses a copy of a key but with the vault (Evolves).    *)
(* So a check of an earlier statement still counts at a later one.         *)
(***************************************************************************)
EXTENDS TeamVaults, TLAPS

\* A user with a public key who is or was in some team.
Known(u) == u \in keyed /\ \E t \in Teams : role[t][u] # "none"

\* The jobs that wait at a label.
Ops(l) ==
    CASE l = "pending" -> {"open"}
      [] l = "verify" -> {"add", "role", "remove"}
      [] l \in {"member", "pubkey", "vaults"} -> {"add"}
      [] l = "write" -> {"role", "remove", "team"}
      [] l \in {"key", "share"} -> {"open", "add"}
      [] l \in {"insert", "record"} -> {"open", "add", "create"}
      [] l = "members" -> {"create"}
      [] l \in {"check", "vault"} -> {"create", "delete"}
      [] OTHER -> {}

\* What a tab has found out, and what it therefore may do next.
TabOK(p) ==
    LET j == job[p] IN
    IF pc[p] = "idle" THEN j = None /\ todo[p] = {} /\ batch[p] = {}
    ELSE /\ j \in Job /\ j.op \in Ops(pc[p])
         /\ j.op = "team" => UserOf[p] = OwnerOf[j.team]
         /\ j.op \notin {"open", "add"} => todo[p] = {}
         /\ j.op = "create" => j.vault \in Vaults
         /\ j.op = "delete" => j.vault \in Vaults /\ vault[j.vault] # NoRow
         /\ pc[p] = "member" => IsAdmin(j.team, OwnerOf[j.team])
         /\ pc[p] \in {"pubkey", "vaults"} => role[j.team][j.who] # "none"
         /\ pc[p] = "vaults" => j.who \in keyed
         /\ pc[p] \in {"share", "insert", "record"} =>
              j.vault \in Vaults /\ vault[j.vault] # NoRow
         /\ pc[p] \in {"share", "insert"} /\ j.op # "create" /\ Exists(j.vault) =>
              UserOf[p] \in keys[j.vault]
         /\ \A c \in todo[p] : vault[c[1]] # NoRow /\ Known(c[2])
         /\ \A u \in batch[p] : Known(u)

\* A tab that creates a vault, before its INSERT.
Creating(p) ==
    /\ job[p] # None /\ job[p].op = "create"
    /\ pc[p] \in {"members", "check", "vault"}

\* The id of a vault that is being created is no other tab's.
FreshVaults ==
    \A p \in Tabs : Creating(p) =>
        /\ vault[job[p].vault] = NoRow
        /\ \A q \in Tabs \ {p} : job[q] # None => job[q].vault # job[p].vault

\* Keys go with their vault, and are held by users who are known.
Held ==
    /\ \A v \in Vaults : ~Exists(v) => keys[v] = {}
    /\ \A v \in Vaults : \A u \in keys[v] : Known(u)

IInv == TypeOK /\ (\A p \in Tabs : TabOK(p)) /\ FreshVaults /\ Held /\ TeamCanBeManaged

-----------------------------------------------------------------------------
\* What may change on the server while a tab waits, and what may not.
Evolves ==
    /\ keyed \subseteq keyed'
    /\ \A t \in Teams, u \in Users : role[t][u] # "none" => role'[t][u] # "none"
    /\ \A t \in Teams : IsAdmin(t, OwnerOf[t]) => IsAdmin(t, OwnerOf[t])'
    /\ \A v \in Vaults : vault[v] # NoRow =>
         /\ vault'[v] # NoRow
         /\ Exists(v)' => Exists(v) /\ keys[v] \subseteq keys'[v]

\* Steps of tab p do nothing to the pages of the others.
OnlyTab(p) ==
    \A q \in Tabs \ {p} : /\ pc'[q] = pc[q] /\ job'[q] = job[q]
                          /\ todo'[q] = todo[q] /\ batch'[q] = batch[q]

\* Before anybody does anything the invariant holds.
LEMMA InitIInv == Init => IInv
  BY SentinelAssumption
  DEF Init, IInv, TypeOK, TabOK, FreshVaults, Creating, Held, TeamCanBeManaged,
      IsMember, IsAdmin, Exists, Roles, PC, Known

\* The fields of a job.
LEMMA JobFields ==
  ASSUME NEW j \in Job
  PROVE  /\ j # None /\ j.team \in Teams /\ j.who \in Users
         /\ j.vault \in Vaults \union {None} /\ j.role \in {"member", "admin"}
         /\ j.op \in {"open", "add", "create", "role", "remove", "delete", "team"}
  BY SentinelAssumption DEF Job

\* A job that turns to another vault, or to none, or to another team.
LEMMA JobUpdates ==
  ASSUME NEW j \in Job
  PROVE  /\ \A v \in Vaults \union {None} :
              /\ [j EXCEPT !.vault = v] \in Job
              /\ [j EXCEPT !.vault = v].vault = v
              /\ [j EXCEPT !.vault = v].op = j.op /\ [j EXCEPT !.vault = v].team = j.team
              /\ [j EXCEPT !.vault = v].who = j.who
         /\ \A t \in Teams :
              /\ [j EXCEPT !.team = t] \in Job
              /\ [j EXCEPT !.team = t].vault = j.vault
              /\ [j EXCEPT !.team = t].op = j.op /\ [j EXCEPT !.team = t].team = t
              /\ [j EXCEPT !.team = t].who = j.who
  BY DEF Job

\* What is known of a user stays known.
LEMMA KnownStays ==
  ASSUME Evolves, NEW u \in Users, Known(u) PROVE Known(u)'
  BY DEF Evolves, Known

\* What a tab has found out stays true while others work.
LEMMA TabStays ==
  ASSUME TypeOK, Evolves, NEW q \in Tabs, TabOK(q),
         pc'[q] = pc[q], job'[q] = job[q], todo'[q] = todo[q], batch'[q] = batch[q]
  PROVE  TabOK(q)'
  <1>1. CASE pc[q] = "idle"
    BY <1>1 DEF TabOK
  <1>2. CASE pc[q] # "idle"
    <2>0. PICK j : j = job[q]
      OBVIOUS
    <2>1. j \in Job /\ j.team \in Teams /\ j.who \in Users /\ UserOf[q] \in Users
      BY <1>2, <2>0, JobFields, UserOfAssumption DEF TabOK
    <2>2. /\ \A c \in todo[q] : c[1] \in Vaults /\ c[2] \in Users
          /\ \A u \in batch[q] : u \in Users
      BY DEF TypeOK
    <2>3. /\ \A c \in todo'[q] : vault'[c[1]] # NoRow /\ Known(c[2])'
          /\ \A u \in batch'[q] : Known(u)'
      BY <1>2, <2>2, KnownStays DEF TabOK, Evolves
    <2>4. /\ pc'[q] \in {"share", "insert"} /\ j.op # "create" /\ Exists(j.vault)' =>
               UserOf[q] \in keys'[j.vault]
      <3> SUFFICES ASSUME pc'[q] \in {"share", "insert"}, j.op # "create", Exists(j.vault)'
                   PROVE  UserOf[q] \in keys'[j.vault]
        OBVIOUS
      <3>1. j.vault \in Vaults /\ vault[j.vault] # NoRow
        BY <1>2, <2>0 DEF TabOK
      <3>2. Exists(j.vault)
        BY <3>1 DEF Evolves
      <3> QED BY <1>2, <2>0, <3>1, <3>2 DEF TabOK, Evolves
    <2> QED BY <1>2, <2>0, <2>1, <2>3, <2>4 DEF TabOK, Evolves, IsAdmin
  <1> QED BY <1>1, <1>2

\* A step of tab p keeps the invariant if it keeps the parts it can disturb.
LEMMA TabStep ==
  ASSUME IInv, NEW p \in Tabs, OnlyTab(p), Evolves,
         TypeOK', TabOK(p)', FreshVaults', Held', TeamCanBeManaged'
  PROVE  IInv'
  <1>1. \A q \in Tabs \ {p} : TabOK(q)'
    BY TabStays DEF IInv, OnlyTab
  <1> QED BY <1>1 DEF IInv

\* What only the tables say stays true when they do not change.
LEMMA ServerSame ==
  ASSUME IInv, UNCHANGED server
  PROVE  Evolves /\ Held' /\ TeamCanBeManaged'
  <1>1. UNCHANGED <<teams, role, keyed, vault, keys, shared>>
    BY DEF server
  <1> QED BY <1>1 DEF IInv, Evolves, Held, TeamCanBeManaged, Known, IsAdmin, IsMember, Exists

\* An id stays nobody else's while the others turn to vaults that exist.
LEMMA FreshStays ==
  ASSUME IInv, NEW p \in Tabs, OnlyTab(p),
         \A v \in Vaults : vault'[v] = NoRow <=> vault[v] = NoRow,
         job'[p] # None =>
           \/ /\ ~Creating(p)'
              /\ \/ job'[p].vault = None
                 \/ job'[p].vault \in Vaults /\ vault[job'[p].vault] # NoRow
           \/ /\ job[p] # None /\ job'[p].vault = job[p].vault
              /\ Creating(p)' => Creating(p)
  PROVE  FreshVaults'
  <1>1. \A q \in Tabs : Creating(q) => job[q].vault \in Vaults /\ job[q].vault # None
    BY SentinelAssumption DEF IInv, TabOK, Creating
  <1>2. \A q \in Tabs \ {p} : /\ Creating(q)' <=> Creating(q)
                              /\ job'[q] = job[q]
    BY DEF OnlyTab, Creating
  <1>3. ASSUME NEW q \in Tabs \ {p}, Creating(q)
        PROVE  job'[p] # None => job'[p].vault # job[q].vault
    BY <1>1, <1>3 DEF IInv, FreshVaults
  <1>4. ASSUME Creating(p)'
        PROVE  Creating(p) /\ job'[p].vault = job[p].vault
    BY <1>4 DEF Creating
  <1> QED BY <1>1, <1>2, <1>3, <1>4 DEF IInv, FreshVaults

\* A tab goes on at a label with the work it had.
LEMMA GotoStep ==
  ASSUME TypeOK, NEW p \in Tabs, NEW l \in PC, Goto(p, l), UNCHANGED <<job, todo, batch>>
  PROVE  /\ pc' \in [Tabs -> PC] /\ OnlyTab(p)
         /\ pc'[p] = l /\ job'[p] = job[p] /\ todo'[p] = todo[p] /\ batch'[p] = batch[p]
  BY DEF TypeOK, Goto, OnlyTab

\* A tab turns to the next vault it has copies for, or is done.
LEMMA NextVaultStep ==
  ASSUME IInv, NEW p \in Tabs, pc[p] # "idle", Evolves,
         NEW w \in SUBSET (Vaults \X Users), NextVault(p, w),
         \A c \in w : vault'[c[1]] # NoRow /\ Known(c[2])',
         w # {} => job[p].op \in {"open", "add"}
  PROVE  /\ OnlyTab(p) /\ TabOK(p)'
         /\ pc' \in [Tabs -> PC] /\ job' \in [Tabs -> Job \union {None}]
         /\ todo' \in [Tabs -> SUBSET (Vaults \X Users)]
         /\ batch' \in [Tabs -> SUBSET Users]
         /\ job'[p] # None => job'[p].vault = None /\ ~Creating(p)'
  <1>1. /\ todo' = [todo EXCEPT ![p] = w] /\ batch' = [batch EXCEPT ![p] = {}]
        /\ todo' \in [Tabs -> SUBSET (Vaults \X Users)]
        /\ batch' \in [Tabs -> SUBSET Users]
        /\ todo'[p] = w /\ batch'[p] = {}
        /\ \A q \in Tabs \ {p} : todo'[q] = todo[q] /\ batch'[q] = batch[q]
    BY DEF NextVault, IInv, TypeOK
  <1>2. CASE w = {}
    <2>1. pc' = [pc EXCEPT ![p] = "idle"] /\ job' = [job EXCEPT ![p] = None]
      BY <1>2 DEF NextVault, Goto
    <2>2. /\ pc' \in [Tabs -> PC] /\ job' \in [Tabs -> Job \union {None}]
          /\ pc'[p] = "idle" /\ job'[p] = None
          /\ \A q \in Tabs \ {p} : pc'[q] = pc[q] /\ job'[q] = job[q]
      BY <2>1 DEF IInv, TypeOK, PC
    <2> QED BY <1>1, <1>2, <2>2 DEF OnlyTab, TabOK
  <1>3. CASE w # {}
    <2> DEFINE j == [job[p] EXCEPT !.vault = None]
    <2>1. pc' = [pc EXCEPT ![p] = "key"] /\ job' = [job EXCEPT ![p] = j]
      BY <1>3 DEF NextVault, Goto
    <2>2. /\ j \in Job /\ j.vault = None /\ j.op = job[p].op /\ j.team = job[p].team
          /\ j # None
      BY JobUpdates, JobFields DEF IInv, TabOK
    <2> HIDE DEF j
    <2>3. /\ pc' \in [Tabs -> PC] /\ job' \in [Tabs -> Job \union {None}]
          /\ pc'[p] = "key" /\ job'[p] = j
          /\ \A q \in Tabs \ {p} : pc'[q] = pc[q] /\ job'[q] = job[q]
      BY <2>1, <2>2 DEF IInv, TypeOK, PC
    <2>4. TabOK(p)'
      BY <1>1, <1>3, <2>2, <2>3 DEF TabOK, Ops
    <2> QED BY <1>1, <2>2, <2>3, <2>4 DEF OnlyTab, Creating
  <1> QED BY <1>2, <1>3

\* A step that reads the tables, after which the tab goes on with the next
\* vault or ends.
LEMMA ReadAndNext ==
  ASSUME IInv, NEW p \in Tabs, pc[p] # "idle", UNCHANGED server,
         NEW w \in SUBSET (Vaults \X Users), NextVault(p, w),
         \A c \in w : vault[c[1]] # NoRow /\ Known(c[2]),
         w # {} => job[p].op \in {"open", "add"}
  PROVE  IInv'
  <1>1. Evolves /\ Held' /\ TeamCanBeManaged' /\ UNCHANGED <<teams, role, keyed, vault, keys, shared>>
    BY ServerSame DEF server
  <1>2. \A c \in w : vault'[c[1]] # NoRow /\ Known(c[2])'
    BY <1>1 DEF Known
  <1>3. /\ OnlyTab(p) /\ TabOK(p)'
        /\ pc' \in [Tabs -> PC] /\ job' \in [Tabs -> Job \union {None}]
        /\ todo' \in [Tabs -> SUBSET (Vaults \X Users)]
        /\ batch' \in [Tabs -> SUBSET Users]
        /\ job'[p] # None => job'[p].vault = None /\ ~Creating(p)'
    BY <1>1, <1>2, NextVaultStep
  <1>4. TypeOK'
    BY <1>1, <1>3 DEF IInv, TypeOK, Row
  <1>5. FreshVaults'
    BY <1>1, <1>3, FreshStays
  <1> QED BY <1>1, <1>3, <1>4, <1>5, TabStep

\* A step that reads the tables, after which the tab goes on with the same job.
LEMMA ReadAndGo ==
  ASSUME IInv, NEW p \in Tabs, UNCHANGED server,
         NEW l \in PC, Goto(p, l), UNCHANGED <<job, todo, batch>>,
         TabOK(p)', Creating(p)' => Creating(p)
  PROVE  IInv'
  <1>1. Evolves /\ Held' /\ TeamCanBeManaged' /\ UNCHANGED <<teams, role, keyed, vault, keys, shared>>
    BY ServerSame DEF server
  <1>2. /\ pc' \in [Tabs -> PC] /\ OnlyTab(p)
        /\ pc'[p] = l /\ job'[p] = job[p] /\ todo'[p] = todo[p] /\ batch'[p] = batch[p]
    BY GotoStep DEF IInv
  <1>3. TypeOK'
    BY <1>1, <1>2 DEF IInv, TypeOK, Row
  <1>4. FreshVaults'
    BY <1>1, <1>2, FreshStays
  <1> QED BY <1>1, <1>2, <1>3, <1>4, TabStep

\* A tab may lose its work at any time, or skip a vault.
LEMMA BreakStep == ASSUME IInv, NEW p \in Tabs, Break(p) PROVE IInv'
  <1>1. /\ pc[p] # "idle" /\ UNCHANGED server /\ TabOK(p)
        /\ todo[p] \in SUBSET (Vaults \X Users)
    BY DEF Break, IInv, TypeOK
  <1>2. PICK w \in SUBSET todo[p] : NextVault(p, w)
    BY DEF Break, Done, Others
  <1>3. w # {} => job[p].op \in {"open", "add"}
    BY <1>1 DEF TabOK
  <1> QED BY <1>1, <1>2, <1>3, ReadAndNext DEF TabOK

\* A new public key breaks nothing that is known.
LEMMA SetupEncryptionStep == ASSUME IInv, NEW u \in Users, SetupEncryption(u) PROVE IInv'
  <1>1. /\ keyed' = keyed \union {u}
        /\ UNCHANGED <<teams, role, vault, keys, shared, pc, job, todo, batch>>
    BY DEF SetupEncryption
  <1>2. Evolves
    BY <1>1 DEF Evolves, Exists, IsAdmin
  <1>3. TypeOK'
    BY <1>1 DEF IInv, TypeOK, Row
  <1>4. \A q \in Tabs : TabOK(q)'
    BY <1>1, <1>2, TabStays DEF IInv
  <1>5. FreshVaults' /\ Held' /\ TeamCanBeManaged'
    BY <1>1 DEF IInv, FreshVaults, Creating, Held, Known, TeamCanBeManaged, Exists, IsAdmin,
                IsMember
  <1> QED BY <1>3, <1>4, <1>5 DEF IInv

\* A tab begins a job at the label of its first request.
LEMMA StartStep ==
  ASSUME IInv, NEW p \in Tabs, NEW j \in Job, NEW l \in PC \ {"idle"}, Start(p, j, l),
         j.op \in Ops(l), l \in {"write", "pending", "verify", "members", "check"},
         j.op = "team" => UserOf[p] = OwnerOf[j.team],
         j.op = "create" => /\ j.vault \in Vaults /\ vault[j.vault] = NoRow
                            /\ ~ \E q \in Tabs : job[q] # None /\ job[q].vault = j.vault,
         j.op = "delete" => j.vault \in Vaults /\ vault[j.vault] # NoRow,
         j.op \notin {"create", "delete"} => j.vault = None
  PROVE  IInv'
  <1>1. /\ UNCHANGED server /\ pc[p] = "idle"
        /\ UNCHANGED <<teams, role, keyed, vault, keys, shared, todo, batch>>
        /\ Evolves /\ Held' /\ TeamCanBeManaged'
    BY ServerSame DEF Start, server
  <1>2. /\ pc' \in [Tabs -> PC] /\ job' \in [Tabs -> Job \union {None}]
        /\ pc'[p] = l /\ job'[p] = j /\ todo'[p] = {} /\ batch'[p] = {}
        /\ OnlyTab(p)
    BY <1>1 DEF Start, Goto, IInv, TypeOK, TabOK, OnlyTab
  <1>3. TypeOK'
    BY <1>1, <1>2 DEF IInv, TypeOK, Row
  <1>4. TabOK(p)'
    BY <1>1, <1>2, JobFields DEF TabOK
  <1>5. FreshVaults'
    <2>1. \A q \in Tabs : Creating(q) => job[q].vault \in Vaults /\ job[q].vault # None
      BY SentinelAssumption DEF IInv, TabOK, Creating
    <2>2. \A q \in Tabs \ {p} : (Creating(q)' <=> Creating(q)) /\ job'[q] = job[q]
      BY <1>2 DEF OnlyTab, Creating
    <2>3. CASE j.op # "create"
      <3>1. ~Creating(p)'
        BY <1>2, <2>3 DEF Creating
      <3>2. \A q \in Tabs \ {p} : Creating(q) => j.vault # job[q].vault
        BY <2>1, <2>3 DEF IInv, FreshVaults
      <3> QED BY <1>1, <1>2, <2>2, <3>1, <3>2 DEF IInv, FreshVaults
    <2>4. CASE j.op = "create"
      BY <1>1, <1>2, <2>1, <2>2, <2>4 DEF IInv, FreshVaults, Creating
    <2> QED BY <2>3, <2>4
  <1> QED BY <1>1, <1>2, <1>3, <1>4, <1>5, TabStep

\* Whatever a user asks for, the job is one the tab may have.
LEMMA BeginStep == ASSUME IInv, NEW p \in Tabs, Begin(p) PROVE IInv'
  <1>0. UserOf[p] \in Users
    BY UserOfAssumption
  <1>1. PICK t \in Teams :
         \/ /\ OwnerOf[t] = UserOf[p]
            /\ Start(p, NewJob("team", t, None, UserOf[p], "admin"), "write")
         \/ Start(p, NewJob("open", t, None, UserOf[p], "member"), "pending")
         \/ \E m \in Users : Start(p, NewJob("add", t, None, m, "member"), "verify")
         \/ \E m \in Users, r \in {"member", "admin"} :
              Start(p, NewJob("role", t, None, m, r), "verify")
         \/ \E m \in Users : Start(p, NewJob("remove", t, None, m, "member"), "verify")
         \/ \E v \in Vaults :
              /\ vault[v] = NoRow
              /\ ~ \E q \in Tabs : job[q] # None /\ job[q].vault = v
              /\ Start(p, NewJob("create", t, v, UserOf[p], "member"), "members")
         \/ \E v \in Vaults :
              Exists(v) /\ Start(p, NewJob("delete", t, v, UserOf[p], "member"), "check")
    BY DEF Begin
  <1>2. \A op \in {"open", "add", "create", "role", "remove", "delete", "team"},
           v \in Vaults \union {None}, m \in Users, r \in {"member", "admin"} :
          /\ NewJob(op, t, v, m, r) \in Job
          /\ NewJob(op, t, v, m, r).op = op /\ NewJob(op, t, v, m, r).team = t
          /\ NewJob(op, t, v, m, r).vault = v
    BY DEF NewJob, Job
  <1>3. /\ "team" \in Ops("write") /\ "open" \in Ops("pending")
        /\ {"add", "role", "remove"} \subseteq Ops("verify")
        /\ "create" \in Ops("members") /\ "delete" \in Ops("check")
        /\ {"write", "pending", "verify", "members", "check"} \subseteq PC \ {"idle"}
    BY DEF Ops, PC
  <1>4. ASSUME OwnerOf[t] = UserOf[p],
               Start(p, NewJob("team", t, None, UserOf[p], "admin"), "write")
        PROVE  IInv'
    <2>1. PICK j : j = NewJob("team", t, None, UserOf[p], "admin")
      OBVIOUS
    <2>2. j \in Job /\ j.op = "team" /\ j.team = t /\ j.vault = None
      BY <1>0, <1>2, <2>1
    <2> QED BY <1>3, <1>4, <2>1, <2>2, StartStep
  <1>5. ASSUME Start(p, NewJob("open", t, None, UserOf[p], "member"), "pending") PROVE IInv'
    <2>1. PICK j : j = NewJob("open", t, None, UserOf[p], "member")
      OBVIOUS
    <2>2. j \in Job /\ j.op = "open" /\ j.team = t /\ j.vault = None
      BY <1>0, <1>2, <2>1
    <2> QED BY <1>3, <1>5, <2>1, <2>2, StartStep
  <1>6. ASSUME NEW op \in {"add", "role", "remove"}, NEW m \in Users,
               NEW r \in {"member", "admin"}, Start(p, NewJob(op, t, None, m, r), "verify")
        PROVE  IInv'
    <2>1. PICK j : j = NewJob(op, t, None, m, r)
      OBVIOUS
    <2>2. j \in Job /\ j.op = op /\ j.team = t /\ j.vault = None
      BY <1>2, <2>1
    <2> QED BY <1>3, <1>6, <2>1, <2>2, StartStep
  <1>7. ASSUME NEW v \in Vaults, vault[v] = NoRow,
               ~ \E q \in Tabs : job[q] # None /\ job[q].vault = v,
               Start(p, NewJob("create", t, v, UserOf[p], "member"), "members")
        PROVE  IInv'
    <2>1. PICK j : j = NewJob("create", t, v, UserOf[p], "member")
      OBVIOUS
    <2>2. j \in Job /\ j.op = "create" /\ j.team = t /\ j.vault = v
      BY <1>0, <1>2, <2>1
    <2> QED BY <1>3, <1>7, <2>1, <2>2, StartStep
  <1>8. ASSUME NEW v \in Vaults, Exists(v),
               Start(p, NewJob("delete", t, v, UserOf[p], "member"), "check")
        PROVE  IInv'
    <2>1. PICK j : j = NewJob("delete", t, v, UserOf[p], "member")
      OBVIOUS
    <2>2. j \in Job /\ j.op = "delete" /\ j.team = t /\ j.vault = v
      BY <1>0, <1>2, <2>1
    <2>3. vault[v] # NoRow
      BY <1>8, SentinelAssumption DEF Exists
    <2> QED BY <1>3, <1>8, <2>1, <2>2, <2>3, StartStep
  <1> QED BY <1>1, <1>4, <1>5, <1>6, <1>7, <1>8

\* A request that is refused ends the job and writes nothing.
LEMMA RefusedStep ==
  ASSUME IInv, NEW p \in Tabs, pc[p] # "idle", UNCHANGED server, Done(p)
  PROVE  IInv'
  BY ReadAndNext DEF Done

\* Whoever passes verifyAdmin is an admin, so the owner is one.
LEMMA VerifyAdminStep == ASSUME IInv, NEW p \in Tabs, VerifyAdmin(p) PROVE IInv'
  <1>0. PICK j : j = job[p]
    OBVIOUS
  <1>1. /\ pc[p] = "verify" /\ UNCHANGED server /\ TabOK(p)
        /\ j \in Job /\ j.op \in {"add", "role", "remove"} /\ j.team \in Teams
    BY <1>0, JobFields DEF VerifyAdmin, IInv, TabOK, Ops
  <1>2. CASE ~IsAdmin(j.team, UserOf[p])
    BY <1>0, <1>1, <1>2, RefusedStep DEF VerifyAdmin
  <1>3. CASE IsAdmin(j.team, UserOf[p])
    <2>1. IsAdmin(j.team, OwnerOf[j.team])
      <3>1. UserOf[p] \in Users
        BY UserOfAssumption
      <3> QED BY <1>1, <1>3, <3>1 DEF IInv, TeamCanBeManaged, IsMember, IsAdmin
    <2>2. PICK l \in {"member", "write"} : Goto(p, l) /\ (l = "member" <=> j.op = "add")
      BY <1>0, <1>3 DEF VerifyAdmin
    <2>3. UNCHANGED <<job, todo, batch>>
      BY <1>0, <1>3 DEF VerifyAdmin
    <2>4. l \in PC
      BY DEF PC
    <2>5. pc'[p] = l /\ job'[p] = j /\ todo'[p] = todo[p] /\ batch'[p] = batch[p]
      BY <1>0, <2>2, <2>3, <2>4, GotoStep DEF IInv
    <2>6. UNCHANGED <<role, keyed, vault, keys>>
      BY <1>1 DEF server
    <2>7. TabOK(p)'
      BY <1>0, <1>1, <2>1, <2>2, <2>5, <2>6 DEF TabOK, Ops, Known, Exists, IsAdmin
    <2>8. ~Creating(p)'
      BY <2>5 DEF Creating
    <2> QED BY <1>1, <2>2, <2>3, <2>4, <2>7, <2>8, ReadAndGo
  <1> QED BY <1>2, <1>3

\* What a new member's admin needs next: a public key of the member,
LEMMA GetPublicKeyStep == ASSUME IInv, NEW p \in Tabs, GetPublicKey(p) PROVE IInv'
  <1>0. PICK j : j = job[p]
    OBVIOUS
  <1>1. /\ pc[p] = "pubkey" /\ UNCHANGED server /\ TabOK(p)
        /\ j \in Job /\ j.op = "add"
    BY <1>0 DEF GetPublicKey, IInv, TabOK, Ops
  <1>2. CASE j.who \notin keyed
    BY <1>0, <1>1, <1>2, RefusedStep DEF GetPublicKey
  <1>3. CASE j.who \in keyed
    <2>1. Goto(p, "vaults") /\ UNCHANGED <<job, todo, batch>> /\ "vaults" \in PC
      BY <1>0, <1>3 DEF GetPublicKey, PC
    <2>2. pc'[p] = "vaults" /\ job'[p] = j /\ todo'[p] = todo[p] /\ batch'[p] = batch[p]
      BY <1>0, <2>1, GotoStep DEF IInv
    <2>3. UNCHANGED <<role, keyed, vault, keys>>
      BY <1>1 DEF server
    <2>4. TabOK(p)'
      BY <1>0, <1>1, <1>3, <2>2, <2>3 DEF TabOK, Ops, Known, Exists, IsAdmin
    <2>5. ~Creating(p)'
      BY <2>2 DEF Creating
    <2> QED BY <1>1, <2>1, <2>4, <2>5, ReadAndGo
  <1> QED BY <1>2, <1>3

\* and the vaults of the team the tab shows.
LEMMA ListTeamVaultsStep == ASSUME IInv, NEW p \in Tabs, ListTeamVaults(p) PROVE IInv'
  <1>0. PICK j : j = job[p]
    OBVIOUS
  <1>1. /\ pc[p] = "vaults" /\ UNCHANGED server
        /\ j.op = "add" /\ j.who \in Users /\ Known(j.who)
    BY <1>0, JobFields DEF ListTeamVaults, IInv, TabOK, Ops, Known
  <1>2. CASE Done(p)
    BY <1>1, <1>2, RefusedStep
  <1>3. ASSUME NEW t \in Teams, NextVault(p, VaultsOf(t) \X {j.who}) PROVE IInv'
    <2>1. PICK w : w = VaultsOf(t) \X {j.who}
      OBVIOUS
    <2>2. w \in SUBSET (Vaults \X Users)
      BY <1>1, <2>1 DEF VaultsOf
    <2>3. \A c \in w : vault[c[1]] # NoRow /\ Known(c[2])
      BY <1>1, <2>1, SentinelAssumption DEF VaultsOf, Exists
    <2> QED BY <1>0, <1>1, <1>3, <2>1, <2>2, <2>3, ReadAndNext
  <1> QED BY <1>0, <1>2, <1>3 DEF ListTeamVaults

\* The copies that are missing are those of members with a public key.
LEMMA GetPendingVaultKeysStep ==
  ASSUME IInv, NEW p \in Tabs, GetPendingVaultKeys(p) PROVE IInv'
  <1>0. PICK j : j = job[p]
    OBVIOUS
  <1>1. /\ pc[p] = "pending" /\ UNCHANGED server
        /\ j.op = "open" /\ j.team \in Teams
    BY <1>0, JobFields DEF GetPendingVaultKeys, IInv, TabOK, Ops
  <1>2. CASE Done(p)
    BY <1>1, <1>2, RefusedStep
  <1>3. CASE IsAdmin(j.team, UserOf[p])
    <2>1. PICK w : w = {c \in VaultsOf(j.team) \X keyed :
                          IsMember(j.team, c[2]) /\ c[2] \notin keys[c[1]]}
      OBVIOUS
    <2>2. w \in SUBSET (Vaults \X Users)
      BY <2>1 DEF VaultsOf, IInv, TypeOK
    <2>3. \A c \in w : vault[c[1]] # NoRow /\ Known(c[2])
      BY <1>1, <2>1, SentinelAssumption DEF VaultsOf, Exists, IsMember, Known
    <2>4. NextVault(p, w)
      BY <1>0, <1>3, <2>1 DEF GetPendingVaultKeys
    <2> QED BY <1>0, <1>1, <2>2, <2>3, <2>4, ReadAndNext
  <1> QED BY <1>0, <1>2, <1>3 DEF GetPendingVaultKeys

\* The next vault is one the tab holds the key of, so it exists.
LEMMA GetVaultKeyStep == ASSUME IInv, NEW p \in Tabs, GetVaultKey(p) PROVE IInv'
  <1>0. PICK v \in {c[1] : c \in todo[p]} :
          IF UserOf[p] \in keys[v]
            THEN /\ job' = [job EXCEPT ![p].vault = v]
                 /\ batch' = [batch EXCEPT ![p] = {c[2] : c \in todo[p] \ Others(p, v)}]
                 /\ todo' = [todo EXCEPT ![p] = Others(p, v)]
                 /\ Goto(p, "share")
            ELSE NextVault(p, Others(p, v))
    BY DEF GetVaultKey
  <1>1. /\ pc[p] = "key" /\ UNCHANGED server /\ TabOK(p)
        /\ job[p] \in Job /\ job[p].op \in {"open", "add"} /\ v \in Vaults
        /\ \A c \in todo[p] : c[2] \in Users
    BY DEF GetVaultKey, IInv, TypeOK, TabOK, Ops
  <1>2. /\ Others(p, v) \in SUBSET (Vaults \X Users)
        /\ \A c \in todo[p] : vault[c[1]] # NoRow /\ Known(c[2])
        /\ \A c \in Others(p, v) : c \in todo[p]
    BY <1>1 DEF Others, TabOK, IInv, TypeOK
  <1>3. CASE UserOf[p] \notin keys[v]
    BY <1>0, <1>1, <1>2, <1>3, ReadAndNext
  <1>4. CASE UserOf[p] \in keys[v]
    <2>1. PICK b : b = {c[2] : c \in todo[p] \ Others(p, v)}
      OBVIOUS
    <2>2. b \in SUBSET Users /\ \A u \in b : Known(u)
      BY <1>1, <1>2, <2>1
    <2>3. PICK j : j = [job[p] EXCEPT !.vault = v]
      OBVIOUS
    <2>4. j \in Job /\ j.vault = v /\ j.op = job[p].op /\ j # None
      BY <1>1, <2>3, JobUpdates, JobFields
    <2>5. /\ job' = [job EXCEPT ![p] = j] /\ batch' = [batch EXCEPT ![p] = b]
          /\ todo' = [todo EXCEPT ![p] = Others(p, v)] /\ pc' = [pc EXCEPT ![p] = "share"]
      BY <1>0, <1>4, <2>1, <2>3 DEF Goto
    <2>6. /\ job' \in [Tabs -> Job \union {None}] /\ pc' \in [Tabs -> PC]
          /\ todo' \in [Tabs -> SUBSET (Vaults \X Users)] /\ batch' \in [Tabs -> SUBSET Users]
          /\ job'[p] = j /\ pc'[p] = "share" /\ todo'[p] = Others(p, v) /\ batch'[p] = b
          /\ OnlyTab(p)
      BY <1>2, <2>2, <2>4, <2>5 DEF IInv, TypeOK, PC, OnlyTab
    <2>7. Evolves /\ Held' /\ TeamCanBeManaged' /\ UNCHANGED <<teams, role, keyed, vault, keys, shared>>
      BY <1>1, ServerSame DEF server
    <2>8. vault[v] # NoRow
      BY <1>1, <1>4, SentinelAssumption DEF IInv, Held, Exists
    <2>9. TypeOK'
      BY <2>6, <2>7 DEF IInv, TypeOK, Row
    <2>10. TabOK(p)'
      BY <1>1, <1>2, <1>4, <2>2, <2>4, <2>6, <2>7, <2>8 DEF TabOK, Ops, Known, Exists
    <2>11. FreshVaults'
      BY <1>1, <2>4, <2>6, <2>7, <2>8, FreshStays DEF Creating
    <2> QED BY <2>6, <2>7, <2>9, <2>10, <2>11, TabStep
  <1> QED BY <1>3, <1>4

\* The access check of ShareVault finds nothing new.
LEMMA ShareVaultStep == ASSUME IInv, NEW p \in Tabs, ShareVault(p) PROVE IInv'
  <1>1. /\ pc[p] = "share" /\ UNCHANGED server /\ TabOK(p)
        /\ job[p] \in Job /\ job[p].op \in {"open", "add"}
        /\ todo[p] \in SUBSET (Vaults \X Users)
    BY DEF ShareVault, IInv, TypeOK, TabOK, Ops
  <1>2. CASE NextVault(p, todo[p])
    BY <1>1, <1>2, ReadAndNext DEF TabOK
  <1>3. CASE Goto(p, "insert") /\ UNCHANGED <<job, todo, batch>>
    <2>1. /\ pc'[p] = "insert" /\ job'[p] = job[p] /\ todo'[p] = todo[p]
          /\ batch'[p] = batch[p] /\ "insert" \in PC
      BY <1>3, GotoStep DEF IInv, PC
    <2>2. UNCHANGED <<role, keyed, vault, keys>>
      BY <1>1 DEF server
    <2>3. TabOK(p)'
      BY <1>1, <2>1, <2>2 DEF TabOK, Ops, Known, Exists
    <2>4. ~Creating(p)'
      BY <2>1 DEF Creating
    <2> QED BY <1>1, <1>3, <2>1, <2>3, <2>4, ReadAndGo
  <1> QED BY <1>2, <1>3 DEF ShareVault

\* A row of team_members changes: the owner's becomes that of an admin, and
\* another's only in a team whose owner is one.
LEMMA RoleChanges ==
  ASSUME IInv, NEW t \in Teams, NEW u \in Users, NEW r \in Roles \ {"none"},
         role' = [role EXCEPT ![t][u] = r], UNCHANGED <<keyed, vault, keys>>,
         IF u = OwnerOf[t] THEN r = "admin" ELSE IsAdmin(t, OwnerOf[t])
  PROVE  /\ Evolves /\ Held' /\ TeamCanBeManaged'
         /\ role' \in [Teams -> [Users -> Roles]]
         /\ role'[t][u] = r
         /\ \A s \in Teams, w \in Users : s # t \/ w # u => role'[s][w] = role[s][w]
  <1>1. /\ role' \in [Teams -> [Users -> Roles]]
        /\ role'[t][u] = r
        /\ \A s \in Teams, w \in Users : s # t \/ w # u => role'[s][w] = role[s][w]
    BY DEF IInv, TypeOK
  <1>2. \A s \in Teams : OwnerOf[s] \in Users
    BY OwnerOfAssumption
  <1>3. Evolves
    BY <1>1, <1>2 DEF Evolves, IsAdmin, Exists
  <1>4. Held'
    <2>1. \A v \in Vaults : keys[v] \subseteq Users
      BY DEF IInv, TypeOK
    <2>2. \A v \in Vaults : \A w \in keys[v] : Known(w)'
      BY <1>3, <2>1, KnownStays DEF IInv, Held
    <2> QED BY <2>2 DEF IInv, Held, Exists
  <1>5. TeamCanBeManaged'
    BY <1>1, <1>2 DEF IInv, TeamCanBeManaged, IsMember, IsAdmin
  <1> QED BY <1>1, <1>3, <1>4, <1>5

\* A step that changes roles, or public facts of the tables, and ends the job.
LEMMA WriteAndDone ==
  ASSUME IInv, NEW p \in Tabs, pc[p] # "idle", Evolves, Held', TeamCanBeManaged', Done(p),
         teams' \subseteq Teams, role' \in [Teams -> [Users -> Roles]],
         keyed' \subseteq Users, vault' \in [Vaults -> Row \union {NoRow, Gone}],
         keys' \in [Vaults -> SUBSET Users], shared' \subseteq Vaults,
         \A v \in Vaults : vault'[v] = NoRow <=> vault[v] = NoRow
  PROVE  IInv'
  <1>1. {} \in SUBSET (Vaults \X Users) /\ NextVault(p, {})
    BY DEF Done
  <1>2. /\ OnlyTab(p) /\ TabOK(p)'
        /\ pc' \in [Tabs -> PC] /\ job' \in [Tabs -> Job \union {None}]
        /\ todo' \in [Tabs -> SUBSET (Vaults \X Users)]
        /\ batch' \in [Tabs -> SUBSET Users]
        /\ job'[p] # None => job'[p].vault = None /\ ~Creating(p)'
    BY <1>1, NextVaultStep
  <1>3. TypeOK'
    BY <1>2 DEF TypeOK, Row
  <1>4. FreshVaults'
    BY <1>2, FreshStays
  <1> QED BY <1>2, <1>3, <1>4, TabStep

\* The team comes first, and then its owner, as an admin.
LEMMA CreateTeamStep == ASSUME IInv, NEW p \in Tabs, CreateTeam(p) PROVE IInv'
  <1>0. PICK t : t = job[p].team
    OBVIOUS
  <1>1. /\ pc[p] = "write" /\ job[p].op = "team" /\ TabOK(p)
        /\ UNCHANGED <<keyed, vault, keys, shared>>
        /\ t \in Teams /\ UserOf[p] = OwnerOf[t] /\ UserOf[p] \in Users
    BY <1>0, JobFields, UserOfAssumption DEF CreateTeam, IInv, TabOK
  <1>2. CASE t \notin teams
    <2>1. teams' = teams \union {t} /\ UNCHANGED <<role, pc, job, todo, batch>>
      BY <1>0, <1>2 DEF CreateTeam
    <2>2. Evolves
      BY <1>1, <2>1 DEF Evolves, Exists, IsAdmin
    <2>3. TypeOK'
      BY <1>1, <2>1 DEF IInv, TypeOK, Row
    <2>4. TabOK(p)' /\ OnlyTab(p)
      BY <1>1, <2>1, <2>2, TabStays DEF OnlyTab, IInv
    <2>5. FreshVaults' /\ Held' /\ TeamCanBeManaged'
      BY <1>1, <2>1 DEF IInv, FreshVaults, Creating, Held, Known, TeamCanBeManaged, Exists,
                        IsAdmin, IsMember
    <2> QED BY <2>2, <2>3, <2>4, <2>5, TabStep
  <1>3. CASE t \in teams
    <2>1. role' = [role EXCEPT ![t][UserOf[p]] = "admin"] /\ Done(p) /\ UNCHANGED teams
      BY <1>0, <1>3 DEF CreateTeam
    <2>2. "admin" \in Roles \ {"none"}
      BY DEF Roles
    <2>3. /\ Evolves /\ Held' /\ TeamCanBeManaged'
          /\ role' \in [Teams -> [Users -> Roles]]
      BY <1>1, <2>1, <2>2, RoleChanges
    <2> QED BY <1>1, <2>1, <2>3, WriteAndDone DEF IInv, TypeOK
  <1> QED BY <1>2, <1>3

\* Only members other than the owner are changed, in a team that has members.
LEMMA ChangeMemberStep == ASSUME IInv, NEW p \in Tabs, ChangeMember(p) PROVE IInv'
  <1>0. PICK j : j = job[p]
    OBVIOUS
  <1>1. /\ pc[p] = "write" /\ j.op \in {"role", "remove"}
        /\ UNCHANGED <<teams, keyed, vault, keys, shared>> /\ Done(p)
        /\ j \in Job /\ j.team \in Teams /\ j.who \in Users /\ j.role \in {"member", "admin"}
    BY <1>0, JobFields DEF ChangeMember, IInv, TabOK
  <1>2. CASE UNCHANGED role
    BY <1>1, <1>2, RefusedStep DEF server
  <1>3. CASE j.who # OwnerOf[j.team] /\ IsMember(j.team, j.who)
    <2>1. PICK r \in Roles \ {"none"} : role' = [role EXCEPT ![j.team][j.who] = r]
      <3>1. role' = [role EXCEPT ![j.team][j.who] = IF j.op = "role" THEN j.role ELSE "left"]
        BY <1>0, <1>3 DEF ChangeMember
      <3>2. (IF j.op = "role" THEN j.role ELSE "left") \in Roles \ {"none"}
        BY <1>1 DEF Roles
      <3> QED BY <3>1, <3>2
    <2>2. IsAdmin(j.team, OwnerOf[j.team])
      BY <1>1, <1>3 DEF IInv, TeamCanBeManaged
    <2>3. /\ Evolves /\ Held' /\ TeamCanBeManaged'
          /\ role' \in [Teams -> [Users -> Roles]]
      BY <1>1, <1>3, <2>1, <2>2, RoleChanges
    <2> QED BY <1>1, <2>3, WriteAndDone DEF IInv, TypeOK
  <1> QED BY <1>0, <1>2, <1>3 DEF ChangeMember

\* A new member is not the owner, who is an admin already.
LEMMA AddMemberStep == ASSUME IInv, NEW p \in Tabs, AddMember(p) PROVE IInv'
  <1>0. PICK j : j = job[p]
    OBVIOUS
  <1>1. /\ pc[p] = "member" /\ UNCHANGED <<teams, keyed, vault, keys, shared>> /\ TabOK(p)
        /\ j \in Job /\ j.op = "add" /\ j.team \in Teams /\ j.who \in Users
        /\ IsAdmin(j.team, OwnerOf[j.team])
    BY <1>0, JobFields DEF AddMember, IInv, TabOK, Ops
  <1>2. CASE IsMember(j.team, j.who)
    BY <1>0, <1>1, <1>2, RefusedStep DEF AddMember, server
  <1>3. CASE ~IsMember(j.team, j.who)
    <2>1. /\ role' = [role EXCEPT ![j.team][j.who] = "member"]
          /\ Goto(p, "pubkey") /\ UNCHANGED <<job, todo, batch>>
      BY <1>0, <1>3 DEF AddMember
    <2>2. "pubkey" \in PC /\ j.who # OwnerOf[j.team]
      BY <1>1, <1>3 DEF PC, IsMember, IsAdmin
    <2>3. /\ Evolves /\ Held' /\ TeamCanBeManaged'
          /\ role' \in [Teams -> [Users -> Roles]] /\ role'[j.team][j.who] = "member"
      <3>1. PICK r \in Roles \ {"none"} : r = "member"
        BY DEF Roles
      <3>2. /\ role' = [role EXCEPT ![j.team][j.who] = r]
            /\ UNCHANGED <<keyed, vault, keys>>
            /\ IF j.who = OwnerOf[j.team] THEN r = "admin" ELSE IsAdmin(j.team, OwnerOf[j.team])
            /\ r \in Roles \ {"none"} /\ j.team \in Teams /\ j.who \in Users
        BY <1>1, <2>1, <2>2, <3>1
      <3>3. /\ Evolves /\ Held' /\ TeamCanBeManaged'
            /\ role' \in [Teams -> [Users -> Roles]] /\ role'[j.team][j.who] = r
        BY <3>2, RoleChanges, ZenonT(60)
      <3> QED BY <3>1, <3>3
    <2>4. /\ pc' \in [Tabs -> PC] /\ OnlyTab(p)
          /\ pc'[p] = "pubkey" /\ job'[p] = j /\ todo'[p] = todo[p] /\ batch'[p] = batch[p]
      BY <1>0, <2>1, <2>2, GotoStep DEF IInv
    <2>5. TypeOK'
      BY <1>1, <2>1, <2>3, <2>4 DEF IInv, TypeOK, Row
    <2>6. TabOK(p)'
      <3>1. /\ \A c \in todo[p] : c[2] \in Users /\ Known(c[2])
            /\ \A u \in batch[p] : u \in Users /\ Known(u)
        BY <1>1 DEF TabOK, IInv, TypeOK
      <3>2. /\ \A c \in todo[p] : Known(c[2])'
            /\ \A u \in batch[p] : Known(u)'
        BY <2>3, <3>1, KnownStays
      <3> QED BY <1>0, <1>1, <2>3, <2>4, <3>2 DEF TabOK, Ops
    <2>7. FreshVaults'
      BY <1>0, <1>1, <2>4, FreshStays, JobFields DEF Creating
    <2> QED BY <2>3, <2>4, <2>5, <2>6, <2>7, TabStep
  <1> QED BY <1>2, <1>3

\* A copy is inserted for a user who is known; the holders lose nothing.
LEMMA InsertVaultKeyStep == ASSUME IInv, NEW p \in Tabs, InsertVaultKey(p) PROVE IInv'
  <1>0. PICK v : v = job[p].vault
    OBVIOUS
  <1>1. /\ pc[p] = "insert" /\ UNCHANGED <<teams, role, keyed, vault, shared>> /\ TabOK(p)
        /\ job[p] \in Job /\ job[p].op \in {"open", "add", "create"}
        /\ v \in Vaults /\ vault[v] # NoRow /\ todo[p] \in SUBSET (Vaults \X Users)
    BY <1>0 DEF InsertVaultKey, IInv, TypeOK, TabOK, Ops
  <1>2. CASE UNCHANGED keys /\ NextVault(p, todo[p])
    BY <1>1, <1>2, ReadAndNext DEF TabOK, server
  <1>3. CASE UNCHANGED keys /\ Done(p)
    BY <1>1, <1>3, RefusedStep DEF server
  <1>4. CASE UNCHANGED keys /\ job[p].op # "create" /\ Goto(p, "record")
             /\ UNCHANGED <<job, todo, batch>>
    <2>1. /\ pc'[p] = "record" /\ job'[p] = job[p] /\ todo'[p] = todo[p]
          /\ batch'[p] = batch[p] /\ "record" \in PC
      BY <1>4, GotoStep DEF IInv, PC
    <2>2. TabOK(p)'
      BY <1>1, <1>4, <2>1 DEF TabOK, Ops, Known, Exists
    <2>3. ~Creating(p)'
      BY <2>1 DEF Creating
    <2> QED BY <1>1, <1>4, <2>1, <2>2, <2>3, ReadAndGo DEF server
  <1>5. ASSUME NEW u \in batch[p], Exists(v),
               keys' = [keys EXCEPT ![v] = @ \union {u}],
               batch' = [batch EXCEPT ![p] = @ \ {u}], UNCHANGED <<pc, job, todo>>
        PROVE  IInv'
    <2>1. u \in Users /\ Known(u)
      BY <1>1 DEF TabOK, IInv, TypeOK
    <2>2. /\ keys' \in [Vaults -> SUBSET Users] /\ keys'[v] = keys[v] \union {u}
          /\ \A x \in Vaults \ {v} : keys'[x] = keys[x]
          /\ batch' \in [Tabs -> SUBSET Users] /\ batch'[p] = batch[p] \ {u}
          /\ OnlyTab(p)
      BY <1>1, <1>5, <2>1 DEF IInv, TypeOK, OnlyTab
    <2>3. Evolves
      BY <1>1, <2>2 DEF Evolves, Exists, IsAdmin
    <2>4. TypeOK'
      BY <1>1, <1>5, <2>2 DEF IInv, TypeOK, Row
    <2>5. TabOK(p)'
      BY <1>0, <1>1, <1>5, <2>2 DEF TabOK, Known, Exists
    <2>6. FreshVaults'
      BY <1>1, <1>5 DEF IInv, FreshVaults, Creating
    <2>7. Held'
      BY <1>1, <1>5, <2>1, <2>2 DEF IInv, Held, Known, Exists
    <2>8. TeamCanBeManaged'
      BY <1>1 DEF IInv, TeamCanBeManaged, IsMember, IsAdmin
    <2> QED BY <2>2, <2>3, <2>4, <2>5, <2>6, <2>7, <2>8, TabStep
  <1> QED BY <1>0, <1>1, <1>2, <1>3, <1>4, <1>5 DEF InsertVaultKey

\* The row of vault_teams concerns nobody's keys.
LEMMA AddTeamShareStep == ASSUME IInv, NEW p \in Tabs, AddTeamShare(p) PROVE IInv'
  <1>0. PICK v : v = job[p].vault
    OBVIOUS
  <1>1. /\ pc[p] = "record" /\ UNCHANGED <<teams, role, keyed, vault, keys>> /\ TabOK(p)
        /\ job[p] \in Job /\ job[p].op \in {"open", "add", "create"}
        /\ v \in Vaults /\ vault[v] # NoRow /\ todo[p] \in SUBSET (Vaults \X Users)
        /\ shared' \subseteq Vaults
    BY <1>0 DEF AddTeamShare, IInv, TypeOK, TabOK, Ops
  <1>2. Evolves /\ Held' /\ TeamCanBeManaged'
    BY <1>1 DEF IInv, Evolves, Held, TeamCanBeManaged, Known, IsAdmin, IsMember, Exists
  <1>3. CASE NextVault(p, todo[p])
    <2>1. \A c \in todo[p] : vault'[c[1]] # NoRow /\ Known(c[2])'
      BY <1>1 DEF TabOK, Known
    <2>2. todo[p] # {} => job[p].op \in {"open", "add"}
      BY <1>1 DEF TabOK
    <2>3. PICK w \in SUBSET (Vaults \X Users) : w = todo[p]
      BY <1>1
    <2>4. /\ OnlyTab(p) /\ TabOK(p)'
          /\ pc' \in [Tabs -> PC] /\ job' \in [Tabs -> Job \union {None}]
          /\ todo' \in [Tabs -> SUBSET (Vaults \X Users)]
          /\ batch' \in [Tabs -> SUBSET Users]
          /\ job'[p] # None => job'[p].vault = None /\ ~Creating(p)'
      BY <1>1, <1>2, <1>3, <2>1, <2>2, <2>3, NextVaultStep
    <2>5. TypeOK'
      BY <1>1, <2>4 DEF IInv, TypeOK, Row
    <2>6. FreshVaults'
      BY <1>1, <2>4, FreshStays
    <2> QED BY <1>2, <2>4, <2>5, <2>6, TabStep
  <1>4. CASE job[p].op = "create" /\ Goto(p, "insert") /\ UNCHANGED <<job, todo, batch>>
    <2>1. /\ pc' \in [Tabs -> PC] /\ OnlyTab(p)
          /\ pc'[p] = "insert" /\ job'[p] = job[p] /\ todo'[p] = todo[p] /\ batch'[p] = batch[p]
      BY <1>4, GotoStep DEF IInv, PC
    <2>2. TypeOK'
      BY <1>1, <1>4, <2>1 DEF IInv, TypeOK, Row
    <2>3. TabOK(p)'
      BY <1>1, <1>4, <2>1 DEF TabOK, Ops, Known, Exists
    <2>4. FreshVaults'
      BY <1>1, <2>1, FreshStays DEF Creating
    <2> QED BY <1>2, <2>1, <2>2, <2>3, <2>4, TabStep
  <1> QED BY <1>3, <1>4 DEF AddTeamShare

\* Members with a public key are known; the tab may turn to another team.
LEMMA GetMembersStep == ASSUME IInv, NEW p \in Tabs, GetMembers(p) PROVE IInv'
  <1>0. PICK j : j = job[p]
    OBVIOUS
  <1>1. /\ pc[p] = "members" /\ UNCHANGED server /\ TabOK(p) /\ Creating(p)
        /\ j \in Job /\ j.op = "create" /\ j.team \in Teams /\ j.vault \in Vaults
        /\ todo[p] = {}
    BY <1>0, JobFields DEF GetMembers, IInv, TabOK, Ops, Creating
  <1>2. CASE ~IsMember(j.team, UserOf[p])
    BY <1>0, <1>1, <1>2, RefusedStep DEF GetMembers
  <1>3. CASE IsMember(j.team, UserOf[p])
    <2>1. PICK us \in SUBSET {u \in keyed : IsMember(j.team, u)}, now \in Teams :
            /\ batch' = [batch EXCEPT ![p] = us] /\ job' = [job EXCEPT ![p].team = now]
            /\ pc' = [pc EXCEPT ![p] = "check"] /\ UNCHANGED todo
      BY <1>0, <1>3 DEF GetMembers, Goto
    <2>2. us \subseteq Users /\ \A u \in us : Known(u)
      BY <1>1, <2>1 DEF IInv, TypeOK, IsMember, Known
    <2>3. PICK i : i = [j EXCEPT !.team = now]
      OBVIOUS
    <2>4. i \in Job /\ i.vault = j.vault /\ i.op = "create" /\ i # None
      BY <1>1, <2>3, JobUpdates, JobFields
    <2>5. /\ job' \in [Tabs -> Job \union {None}] /\ pc' \in [Tabs -> PC]
          /\ batch' \in [Tabs -> SUBSET Users]
          /\ job'[p] = i /\ pc'[p] = "check" /\ batch'[p] = us /\ todo'[p] = {}
          /\ OnlyTab(p)
      BY <1>0, <1>1, <2>1, <2>2, <2>3, <2>4 DEF IInv, TypeOK, PC, OnlyTab
    <2>6. Evolves /\ Held' /\ TeamCanBeManaged' /\ UNCHANGED <<teams, role, keyed, vault, keys, shared>>
      BY <1>1, ServerSame DEF server
    <2>7. TypeOK'
      BY <2>1, <2>5, <2>6 DEF IInv, TypeOK, Row
    <2>8. TabOK(p)'
      BY <1>1, <2>2, <2>4, <2>5, <2>6 DEF TabOK, Ops, Known
    <2>9. FreshVaults'
      BY <1>0, <1>1, <2>4, <2>5, <2>6, FreshStays, JobFields
    <2> QED BY <2>5, <2>6, <2>7, <2>8, <2>9, TabStep
  <1> QED BY <1>2, <1>3

\* The right to create or delete is checked, and then taken for granted.
LEMMA CheckVaultRightStep == ASSUME IInv, NEW p \in Tabs, CheckVaultRight(p) PROVE IInv'
  <1>0. PICK j : j = job[p]
    OBVIOUS
  <1>1. /\ pc[p] = "check" /\ UNCHANGED server /\ TabOK(p)
        /\ j \in Job /\ j.op \in {"create", "delete"}
    BY <1>0 DEF CheckVaultRight, IInv, TabOK, Ops
  <1>2. CASE Done(p)
    BY <1>1, <1>2, RefusedStep
  <1>3. CASE Goto(p, "vault") /\ UNCHANGED <<job, todo, batch>>
    <2>1. /\ pc'[p] = "vault" /\ job'[p] = j /\ todo'[p] = todo[p]
          /\ batch'[p] = batch[p] /\ "vault" \in PC
      BY <1>0, <1>3, GotoStep DEF IInv, PC
    <2>2. UNCHANGED <<role, keyed, vault, keys>>
      BY <1>1 DEF server
    <2>3. TabOK(p)'
      BY <1>0, <1>1, <2>1, <2>2 DEF TabOK, Ops, Known, Exists
    <2>4. Creating(p)' => Creating(p)
      BY <1>0, <1>1, <2>1 DEF Creating
    <2> QED BY <1>1, <1>3, <2>1, <2>3, <2>4, ReadAndGo
  <1> QED BY <1>2, <1>3 DEF CheckVaultRight

\* A vault comes with an id nobody else has.
LEMMA CreateTeamVaultStep == ASSUME IInv, NEW p \in Tabs, CreateTeamVault(p) PROVE IInv'
  <1>0. PICK j : j = job[p]
    OBVIOUS
  <1>1. /\ pc[p] = "vault" /\ UNCHANGED <<teams, role, keyed, keys, shared, job, todo, batch>>
        /\ TabOK(p) /\ Creating(p) /\ UserOf[p] \in Users
        /\ j \in Job /\ j.op = "create" /\ j.team \in Teams /\ j.vault \in Vaults
        /\ vault[j.vault] = NoRow
        /\ \A q \in Tabs \ {p} : job[q] # None => job[q].vault # j.vault
    BY <1>0, JobFields, UserOfAssumption DEF CreateTeamVault, IInv, TabOK, Creating, FreshVaults
  <1>2. PICK r \in Row : vault' = [vault EXCEPT ![j.vault] = r]
    <2>1. [owner |-> UserOf[p], team |-> j.team] \in Row
      BY <1>1 DEF Row
    <2> QED BY <1>0, <2>1 DEF CreateTeamVault
  <1>3. /\ vault' \in [Vaults -> Row \union {NoRow, Gone}] /\ vault'[j.vault] = r
        /\ \A v \in Vaults \ {j.vault} : vault'[v] = vault[v]
        /\ r # NoRow
    BY <1>1, <1>2, SentinelAssumption DEF IInv, TypeOK
  <1>4. /\ pc' \in [Tabs -> PC] /\ OnlyTab(p)
        /\ pc'[p] = "record" /\ job'[p] = j /\ todo'[p] = todo[p] /\ batch'[p] = batch[p]
    BY <1>0, <1>1, GotoStep DEF CreateTeamVault, IInv, PC
  <1>5. Evolves
    BY <1>1, <1>3 DEF Evolves, Exists, IsAdmin
  <1>6. TypeOK'
    BY <1>1, <1>3, <1>4 DEF IInv, TypeOK
  <1>7. TabOK(p)'
    BY <1>0, <1>1, <1>3, <1>4 DEF TabOK, Ops, Known
  <1>8. FreshVaults'
    <2>1. \A q \in Tabs : Creating(q)' => /\ q # p /\ Creating(q) /\ job'[q] = job[q]
                                          /\ job[q].vault \in Vaults \ {j.vault}
      BY <1>1, <1>4 DEF Creating, OnlyTab, IInv, TabOK
    <2>2. \A q \in Tabs : job'[q] = job[q]
      BY <1>1
    <2> QED BY <1>3, <2>1, <2>2 DEF IInv, FreshVaults
  <1>9. Held'
    BY <1>1, <1>3 DEF IInv, Held, Known, Exists
  <1>10. TeamCanBeManaged'
    BY <1>1 DEF IInv, TeamCanBeManaged, IsMember, IsAdmin
  <1> QED BY <1>4, <1>5, <1>6, <1>7, <1>8, <1>9, <1>10, TabStep

\* A deleted vault takes its keys along; who was about to add one finds no row.
LEMMA DeleteVaultStep == ASSUME IInv, NEW p \in Tabs, DeleteVault(p) PROVE IInv'
  <1>0. PICK v : v = job[p].vault
    OBVIOUS
  <1>1. /\ pc[p] = "vault" /\ UNCHANGED <<teams, role, keyed>> /\ Done(p)
        /\ v \in Vaults /\ vault[v] # NoRow
        /\ vault' = [vault EXCEPT ![v] = Gone] /\ keys' = [keys EXCEPT ![v] = {}]
        /\ shared' = shared \ {v}
    BY <1>0 DEF DeleteVault, IInv, TabOK
  <1>2. /\ vault' \in [Vaults -> Row \union {NoRow, Gone}] /\ vault'[v] = Gone
        /\ keys' \in [Vaults -> SUBSET Users] /\ keys'[v] = {}
        /\ \A x \in Vaults \ {v} : vault'[x] = vault[x] /\ keys'[x] = keys[x]
        /\ shared' \subseteq Vaults
    BY <1>1 DEF IInv, TypeOK
  <1>3. Evolves
    BY <1>1, <1>2, SentinelAssumption DEF Evolves, Exists, IsAdmin
  <1>4. Held'
    BY <1>1, <1>2, SentinelAssumption DEF IInv, Held, Known, Exists
  <1>5. TeamCanBeManaged'
    BY <1>1 DEF IInv, TeamCanBeManaged, IsMember, IsAdmin
  <1>6. \A x \in Vaults : vault'[x] = NoRow <=> vault[x] = NoRow
    BY <1>1, <1>2, SentinelAssumption
  <1> QED BY <1>1, <1>2, <1>3, <1>4, <1>5, <1>6, WriteAndDone DEF IInv, TypeOK

\* Every step keeps the invariant.
LEMMA NextIInv == IInv /\ [Next]_vars => IInv'
  <1> SUFFICES ASSUME IInv, [Next]_vars PROVE IInv'
    OBVIOUS
  <1>1. CASE UNCHANGED vars
    <2>1. /\ UNCHANGED server /\ UNCHANGED <<pc, job, todo, batch>>
          /\ UNCHANGED <<teams, role, keyed, vault, keys, shared>>
      BY <1>1 DEF vars, server
    <2>2. Evolves /\ Held' /\ TeamCanBeManaged'
      BY <2>1, ServerSame
    <2>3. \A q \in Tabs : TabOK(q)'
      BY <2>1, <2>2, TabStays DEF IInv
    <2> QED BY <2>1, <2>2, <2>3 DEF IInv, TypeOK, Row, FreshVaults, Creating
  <1>2. ASSUME NEW p \in Tabs, Begin(p) \/ Work(p) \/ Break(p) PROVE IInv'
    BY <1>2, BeginStep, BreakStep, VerifyAdminStep, CreateTeamStep, ChangeMemberStep,
       AddMemberStep, GetPublicKeyStep, ListTeamVaultsStep, GetPendingVaultKeysStep,
       GetVaultKeyStep, ShareVaultStep, InsertVaultKeyStep, AddTeamShareStep, GetMembersStep,
       CheckVaultRightStep, CreateTeamVaultStep, DeleteVaultStep
    DEF Work
  <1> QED BY <1>1, <1>2, SetupEncryptionStep DEF Next

\* The inductive invariant holds in every state of every behaviour.
THEOREM Invariance == Spec => []IInv
  BY InitIInv, NextIInv, PTL DEF Spec

\* Tables and tabs hold what they may hold.
THEOREM TypeCorrect == Spec => []TypeOK
  <1>1. IInv => TypeOK
    BY DEF IInv
  <1> QED BY <1>1, Invariance, PTL

\* A team that has a member has its owner as an admin, however many admins
\* promote, demote and remove each other at the same time.
THEOREM TeamsCanBeManaged == Spec => []TeamCanBeManaged
  <1>1. IInv => TeamCanBeManaged
    BY DEF IInv
  <1> QED BY <1>1, Invariance, PTL

\* Whoever adds a copy of a vault's key creates the vault or holds the key:
\* between the check and the INSERT nobody loses a copy, but with the vault.
THEOREM HoldersShare == Spec => OnlyHoldersShare
  <1> DEFINE A == \A v \in Vaults : \A u \in keys'[v] \ keys[v] :
                    \E p \in Tabs : /\ pc[p] = "insert" /\ job[p].vault = v /\ u \in batch[p]
                                    /\ job[p].op = "create" \/ UserOf[p] \in keys[v]
  <1>1. ASSUME IInv, [Next]_vars PROVE [A]_vars
    <2>1. ASSUME UNCHANGED keys PROVE A
      BY <2>1
    <2>2. ASSUME NEW p \in Tabs, InsertVaultKey(p) PROVE A
      <3>1. PICK w : w = job[p].vault
        OBVIOUS
      <3>2. CASE UNCHANGED keys
        BY <2>1, <3>2
      <3>3. CASE keys' # keys
        <4>1. PICK x \in batch[p] : Exists(w) /\ keys' = [keys EXCEPT ![w] = @ \union {x}]
          BY <2>2, <3>1, <3>3 DEF InsertVaultKey
        <4>2. pc[p] = "insert" /\ w \in Vaults
              /\ (job[p].op = "create" \/ UserOf[p] \in keys[w])
          <5>1. pc[p] = "insert" /\ TabOK(p)
            BY <1>1, <2>2 DEF InsertVaultKey, IInv
          <5> QED BY <3>1, <4>1, <5>1 DEF TabOK
        <4>3. \A v \in Vaults : \A u \in keys'[v] \ keys[v] : v = w /\ u = x
          BY <1>1, <4>1, <4>2 DEF IInv, TypeOK
        <4> QED BY <3>1, <4>1, <4>2, <4>3
      <3> QED BY <3>2, <3>3
    <2>3. ASSUME NEW p \in Tabs, DeleteVault(p) PROVE A
      BY <1>1, <2>3 DEF DeleteVault, IInv, TypeOK
    <2>4. ASSUME NEW u \in Users, SetupEncryption(u) PROVE A
      BY <2>1, <2>4 DEF SetupEncryption
    <2>5. ASSUME NEW p \in Tabs, Begin(p) \/ Break(p) PROVE A
      <3>1. UNCHANGED server
        BY <2>5 DEF Begin, Break, Start
      <3> QED BY <2>1, <3>1 DEF server
    <2>6. ASSUME NEW p \in Tabs,
                 \/ VerifyAdmin(p) \/ CreateTeam(p) \/ ChangeMember(p) \/ AddMember(p)
                 \/ GetPublicKey(p) \/ ListTeamVaults(p) \/ GetPendingVaultKeys(p)
                 \/ GetVaultKey(p) \/ ShareVault(p) \/ AddTeamShare(p)
                 \/ GetMembers(p) \/ CheckVaultRight(p) \/ CreateTeamVault(p)
          PROVE  A
      <3>1. UNCHANGED keys
        BY <2>6 DEF VerifyAdmin, CreateTeam, ChangeMember, AddMember, GetPublicKey,
                    ListTeamVaults, GetPendingVaultKeys, GetVaultKey, ShareVault, AddTeamShare,
                    GetMembers, CheckVaultRight, CreateTeamVault, server
      <3> QED BY <2>1, <3>1
    <2> HIDE DEF A
    <2> QED BY <1>1, <2>2, <2>3, <2>4, <2>5, <2>6 DEF Next, Work
  <1> QED BY <1>1, Invariance, PTL DEF Spec, OnlyHoldersShare

\* Keys of vaults are held by users with a public key who are or were in a
\* team, and with no vault that is gone; with one team, it is the vault's.
THEOREM HoldersAreKnown == Spec => []Held
  <1>1. IInv => Held
    BY DEF IInv
  <1> QED BY <1>1, Invariance, PTL

\* With one team in the system, its keys reach nobody from outside, although
\* the list of those who miss a copy is old when the copies are inserted.
THEOREM HoldersOfOneTeam ==
  ASSUME \A s, t \in Teams : s = t
  PROVE  Spec => []HoldersBelong
  <1>1. IInv => HoldersBelong
    <2> SUFFICES ASSUME IInv, NEW v \in Vaults, NEW u \in keys[v]
                 PROVE  Exists(v) /\ u \in keyed /\ role[vault[v].team][u] # "none"
      BY DEF HoldersBelong
    <2>1. Exists(v) /\ Known(u)
      BY DEF IInv, Held
    <2>2. vault[v].team \in Teams
      BY <2>1 DEF Exists, Row
    <2> QED BY <2>1, <2>2 DEF Known
  <1> QED BY <1>1, Invariance, PTL
=============================================================================

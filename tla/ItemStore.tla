------------------------------ MODULE ItemStore ------------------------------
(***************************************************************************)
(* The server's item store: internal/service/item_service.go over          *)
(* internal/repository/item_repo.go and the tables items and item_history. *)
(*                                                                         *)
(* A request is served by a handler goroutine that issues one SQL          *)
(* statement after another, so the statements of several requests          *)
(* interleave.  Create and Delete are single autocommitted statements.     *)
(* Update is a READ COMMITTED transaction: it copies the current row into  *)
(* item_history, then runs the optimistic UPDATE, then commits.  The copy  *)
(* does not lock out other updates; the UPDATE holds the row until COMMIT; *)
(* the foreign key of the copied history row keeps a DELETE waiting.       *)
(*                                                                         *)
(* A client learns a version only from an answer of the server.  A user of *)
(* the vault may send any version ever learned (another device, an old     *)
(* answer that came late), anybody else any version, under the path of any *)
(* vault.  An answer may be lost, and a connection may break, at any step. *)
(***************************************************************************)
EXTENDS Naturals, Sequences

CONSTANTS
    Users,       \* accounts; two devices of one account are two handlers
    Vaults,
    Items,       \* item ids: gen_random_uuid() never returns one twice
    Data,        \* ciphertexts, opaque to the server
    Handlers,    \* request goroutines that may run at the same time
    Access,      \* Access[v]: the owner and the holders of a key of vault v
    VaultOf,     \* the vault an item is created in
    MaxVersion,  \* bound: clients stop editing an item at this version
    NoRow,       \* the row is not there yet
    Deleted,     \* the row has been deleted
    NoRequest    \* the handler is free

Entry == [data : Data, version : Nat \ {0}, by : Users]

ASSUME AccessAssumption == Access \in [Vaults -> SUBSET Users]
ASSUME VaultOfAssumption == VaultOf \in [Items -> Vaults]
ASSUME MaxVersionAssumption == MaxVersion \in Nat

VARIABLES
    items,    \* items[i]: the committed row of item i
    history,  \* history[i]: the committed item_history rows of i, in commit order
    vaults,   \* the vaults that exist
    known,    \* known[u][i]: the last version of i the server told u, 0 if none
    pc,       \* pc[h]: the statement handler h runs next
    req,      \* req[h]: the request it serves
    copy,     \* copy[h]: the history row its open transaction has inserted
    answer    \* answer[h]: what it will answer

vars == <<items, history, vaults, known, pc, req, copy, answer>>

PC == {"idle", "access", "insert", "get", "snapshot", "update", "commit",
       "delete", "reply"}
Answers == {"none", "ok", "forbidden", "not_found", "conflict", "error"}

Ops == {"create", "update", "delete"}
CreateRequest == [op : {"create"}, user : Users, item : Items, vault : Vaults,
                  version : {0}, data : Data]
UpdateRequest == [op : {"update"}, user : Users, item : Items, vault : Vaults,
                  version : Nat \ {0}, data : Data]
DeleteRequest == [op : {"delete"}, user : Users, item : Items, vault : Vaults]
Request == CreateRequest \union UpdateRequest \union DeleteRequest

ASSUME SentinelAssumption ==
    /\ NoRow \notin Entry /\ Deleted \notin Entry /\ NoRow # Deleted
    /\ NoRequest \notin Request

Exists(i) == items[i] \in Entry

\* The versions item i has had, oldest first: what its history and its row tell.
Log(i) == IF Exists(i) THEN Append(history[i], items[i]) ELSE << >>

\* An open transaction holds a history row of i: its foreign key keeps the row
\* of i from being deleted.
KeyShared(i) == \E h \in Handlers : copy[h] # << >> /\ req[h].item = i

\* An open transaction has updated the row of i: other updates of it wait.
RowLocked(i) == \E h \in Handlers : pc[h] = "commit" /\ req[h].item = i

\* The handler is done with answer a; a transaction still open is rolled back.
Finish(h, a) ==
    /\ pc' = [pc EXCEPT ![h] = "reply"]
    /\ answer' = [answer EXCEPT ![h] = a]
    /\ copy' = [copy EXCEPT ![h] = << >>]

Goto(h, l) == pc' = [pc EXCEPT ![h] = l] /\ UNCHANGED <<copy, answer>>

-----------------------------------------------------------------------------
(* Clients *)

Send(h, r) ==
    /\ pc[h] = "idle"
    /\ Goto(h, "access")
    /\ req' = [req EXCEPT ![h] = r]
    /\ UNCHANGED <<items, history, vaults, known>>

\* The database draws the id in the INSERT; here it is named in advance.
Unused(i) == /\ items[i] = NoRow
             /\ \A h \in Handlers : pc[h] # "idle" => req[h].item # i

SendCreate(h) ==
    \E u \in Users, i \in Items, d \in Data :
        /\ Unused(i)
        /\ Send(h, [op |-> "create", user |-> u, item |-> i,
                    vault |-> VaultOf[i], version |-> 0, data |-> d])

\* The versions an update of i may name.  The server takes any; the clients of
\* this repository send one they were told, and they are what a user of the vault
\* of i has.  Anybody else may send whatever they like.
Sent(u, i) == IF u \in Access[VaultOf[i]] THEN 1..known[u][i] ELSE Nat \ {0}

SendUpdate(h) ==
    \E u \in Users, v \in Vaults, i \in Items, d \in Data :
        \E n \in 1..MaxVersion :
            /\ items[i] # NoRow
            /\ n \in Sent(u, i)
            /\ n < MaxVersion
            /\ Send(h, [op |-> "update", user |-> u, item |-> i,
                        vault |-> v, version |-> n, data |-> d])

\* A delete names no version: whoever has learnt the id of an item can send one,
\* under the path of any vault.
SendDelete(h) ==
    \E u \in Users, v \in Vaults, i \in Items :
        /\ items[i] # NoRow
        /\ Send(h, [op |-> "delete", user |-> u, item |-> i, vault |-> v])

\* GET /vaults/:id/items tells the client the version of every item, or is
\* refused and tells nothing.
ListByVault(u, v) ==
    /\ known' = [known EXCEPT ![u] =
                   [i \in Items |-> IF /\ v \in vaults /\ u \in Access[v]
                                       /\ VaultOf[i] = v /\ Exists(i)
                                      THEN items[i].version ELSE known[u][i]]]
    /\ UNCHANGED <<items, history, vaults, pc, req, copy, answer>>

-----------------------------------------------------------------------------
(* The handler *)

\* verifyAccess: the vault exists, and the user owns it or holds a key of it.
VerifyAccess(h) ==
    /\ pc[h] = "access"
    /\ IF req[h].vault \in vaults /\ req[h].user \in Access[req[h].vault]
         THEN Goto(h, IF req[h].op = "create" THEN "insert" ELSE "get")
         ELSE Finish(h, "forbidden")
    /\ UNCHANGED <<items, history, vaults, known, req>>

\* The INSERT of Create; its foreign key fails once the vault is gone.
Insert(h) ==
    LET r == req[h] IN
    /\ pc[h] = "insert"
    /\ IF r.vault \in vaults
         THEN /\ items' = [items EXCEPT ![r.item] =
                             [data |-> r.data, version |-> 1, by |-> r.user]]
              /\ Finish(h, "ok")
         ELSE /\ Finish(h, "error")
              /\ UNCHANGED items
    /\ UNCHANGED <<history, vaults, known, req>>

\* Mutant of GetByID: any item that exists, in whatever vault.
GetByIDAnyVault(h) ==
    /\ pc[h] = "get"
    /\ IF Exists(req[h].item)
         THEN Goto(h, IF req[h].op = "update" THEN "snapshot" ELSE "delete")
         ELSE Finish(h, "not_found")
    /\ UNCHANGED <<items, history, vaults, known, req>>

\* GetByID, and the test that the item is in the vault of the path.
GetByID(h) ==
    /\ pc[h] = "get"
    /\ IF Exists(req[h].item) /\ VaultOf[req[h].item] = req[h].vault
         THEN Goto(h, IF req[h].op = "update" THEN "snapshot" ELSE "delete")
         ELSE Finish(h, "not_found")
    /\ UNCHANGED <<items, history, vaults, known, req>>

\* BEGIN, and INSERT INTO item_history SELECT ... of the committed row.
Snapshot(h) ==
    LET i == req[h].item IN
    /\ pc[h] = "snapshot"
    /\ pc' = [pc EXCEPT ![h] = "update"]
    /\ copy' = [copy EXCEPT ![h] = IF Exists(i) THEN <<items[i]>> ELSE << >>]
    /\ UNCHANGED <<items, history, vaults, known, req, answer>>

\* Mutant of Update: no AND version = $3, the last writer wins.
UpdateUnchecked(h) ==
    /\ pc[h] = "update"
    /\ ~RowLocked(req[h].item)
    /\ IF Exists(req[h].item) THEN Goto(h, "commit") ELSE Finish(h, "conflict")
    /\ UNCHANGED <<items, history, vaults, known, req>>

\* Mutant of Update: a conflict is tried again in the same transaction.
UpdateRetrying(h) ==
    /\ pc[h] = "update"
    /\ ~RowLocked(req[h].item)
    /\ Exists(req[h].item) /\ items[req[h].item].version = req[h].version
    /\ Goto(h, "commit")
    /\ UNCHANGED <<items, history, vaults, known, req>>

\* UPDATE ... WHERE id = $2 AND version = $3, once nobody else holds the row.
\* No such row: ROLLBACK, which discards the copy, and ErrVersionConflict.
Update(h) ==
    LET i == req[h].item IN
    /\ pc[h] = "update"
    /\ ~RowLocked(i)
    /\ IF Exists(i) /\ items[i].version = req[h].version
         THEN Goto(h, "commit")
         ELSE Finish(h, "conflict")
    /\ UNCHANGED <<items, history, vaults, known, req>>

\* Mutant of Commit: the copy is made outside of the transaction and lost.
CommitWithoutCopy(h) ==
    LET r == req[h] IN
    /\ pc[h] = "commit"
    /\ items' = [items EXCEPT ![r.item] =
                   [data |-> r.data, version |-> r.version + 1, by |-> r.user]]
    /\ Finish(h, "ok")
    /\ UNCHANGED <<history, vaults, known, req>>

\* COMMIT makes the new row and the copy of the old one visible together.
Commit(h) ==
    LET r == req[h] IN
    /\ pc[h] = "commit"
    /\ items' = [items EXCEPT ![r.item] =
                   [data |-> r.data, version |-> r.version + 1, by |-> r.user]]
    /\ history' = [history EXCEPT ![r.item] = @ \o copy[h]]
    /\ Finish(h, "ok")
    /\ UNCHANGED <<vaults, known, req>>

\* DELETE FROM items waits for open updates, takes the history with it, and
\* looks at no version.
Delete(h) ==
    LET i == req[h].item IN
    /\ pc[h] = "delete"
    /\ ~KeyShared(i)
    /\ IF Exists(i)
         THEN /\ items' = [items EXCEPT ![i] = Deleted]
              /\ history' = [history EXCEPT ![i] = << >>]
              /\ Finish(h, "ok")
         ELSE /\ Finish(h, "not_found")
              /\ UNCHANGED <<items, history>>
    /\ UNCHANGED <<vaults, known, req>>

\* Mutant of Reply: the client adds one to a version that is already the new one.
ReplyTellsNext(h) ==
    LET r == req[h] IN
    /\ pc[h] = "reply"
    /\ \/ /\ answer[h] = "ok"
          /\ r.op # "delete"
          /\ known' = [known EXCEPT ![r.user][r.item] = r.version + 2]
       \/ UNCHANGED known
    /\ pc' = [pc EXCEPT ![h] = "idle"]
    /\ req' = [req EXCEPT ![h] = NoRequest]
    /\ answer' = [answer EXCEPT ![h] = "none"]
    /\ UNCHANGED <<items, history, vaults, copy>>

\* The answer to a create or an update tells the new version; it may be lost.
Reply(h) ==
    LET r == req[h] IN
    /\ pc[h] = "reply"
    /\ \/ /\ answer[h] = "ok"
          /\ r.op # "delete"
          /\ r.version + 1 > known[r.user][r.item]
          /\ known' = [known EXCEPT ![r.user][r.item] = r.version + 1]
       \/ UNCHANGED known
    /\ pc' = [pc EXCEPT ![h] = "idle"]
    /\ req' = [req EXCEPT ![h] = NoRequest]
    /\ answer' = [answer EXCEPT ![h] = "none"]
    /\ UNCHANGED <<items, history, vaults, copy>>

\* The request's context is cancelled, the process dies or the connection to
\* the database breaks before COMMIT: the transaction is rolled back.
Abort(h) ==
    /\ pc[h] \notin {"idle", "reply"}
    /\ Finish(h, "error")
    /\ UNCHANGED <<items, history, vaults, known, req>>

\* The DELETE of a vault cascades to its items and their history.
DeleteVault(v) ==
    LET inside == {i \in Items : VaultOf[i] = v} IN
    /\ v \in vaults
    /\ \A i \in inside : ~KeyShared(i)
    /\ vaults' = vaults \ {v}
    /\ items' = [i \in Items |-> IF i \in inside /\ Exists(i) THEN Deleted ELSE items[i]]
    /\ history' = [i \in Items |-> IF i \in inside THEN << >> ELSE history[i]]
    /\ UNCHANGED <<known, pc, req, copy, answer>>

-----------------------------------------------------------------------------
Init ==
    /\ items = [i \in Items |-> NoRow]
    /\ history = [i \in Items |-> << >>]
    /\ vaults = Vaults
    /\ known = [u \in Users |-> [i \in Items |-> 0]]
    /\ pc = [h \in Handlers |-> "idle"]
    /\ req = [h \in Handlers |-> NoRequest]
    /\ copy = [h \in Handlers |-> << >>]
    /\ answer = [h \in Handlers |-> "none"]

Serve(h) ==
    \/ VerifyAccess(h) \/ Insert(h) \/ GetByID(h) \/ Snapshot(h) \/ Update(h)
    \/ Commit(h) \/ Delete(h) \/ Reply(h)

Next ==
    \/ \E h \in Handlers : \/ SendCreate(h) \/ SendUpdate(h) \/ SendDelete(h)
                           \/ Serve(h) \/ Abort(h)
    \/ \E u \in Users, v \in Vaults : ListByVault(u, v)
    \/ \E v \in Vaults : DeleteVault(v)

Spec == Init /\ [][Next]_vars

\* Gin runs every handler to its end, and PostgreSQL hands a row lock to the
\* statements that wait for it in turn.
Fairness == \A h \in Handlers : /\ WF_vars(Serve(h))
                                /\ SF_vars(Update(h))
                                /\ SF_vars(Delete(h))

FairSpec == Spec /\ Fairness

-----------------------------------------------------------------------------
(* Properties *)

\* Every variable holds what the tables, the requests and the handlers may hold.
TypeOK ==
    /\ items \in [Items -> Entry \union {NoRow, Deleted}]
    /\ history \in [Items -> Seq(Entry)]
    /\ vaults \subseteq Vaults
    /\ known \in [Users -> [Items -> Nat]]
    /\ pc \in [Handlers -> PC]
    /\ req \in [Handlers -> Request \union {NoRequest}]
    /\ copy \in [Handlers -> Seq(Entry)]
    /\ answer \in [Handlers -> Answers]

\* The history of an item at version n is exactly its versions 1 to n-1, each
\* once and in order: no conflict leaves a copy behind, no update goes without
\* one, although the copy of a transaction is taken before it holds the row.
HistoryExact ==
    \A i \in Items : Exists(i) =>
        /\ Len(history[i]) = items[i].version - 1
        /\ \A n \in 1..Len(history[i]) : history[i][n].version = n

\* Whoever wrote a version has access to the vault of the item.
AuthorsHaveAccess ==
    \A i \in Items : Exists(i) =>
        \A n \in 1..Len(Log(i)) : Log(i)[n].by \in Access[VaultOf[i]]

\* Nobody without access to the vault of an item writes a version of it, or gets as
\* far as its DELETE, with whatever version and under the path of whatever vault.
OutsidersChangeNothing ==
    /\ AuthorsHaveAccess
    /\ \A h \in Handlers : pc[h] = "delete" =>
         req[h].user \in Access[VaultOf[req[h].item]]

\* What a handler is about to acknowledge is in the item, now or as history,
\* under the version the answer tells, unless the item is gone.
AcknowledgedIsKept ==
    \A h \in Handlers :
        LET r == req[h] IN
        pc[h] = "reply" /\ answer[h] = "ok" /\ r.op \in {"create", "update"}
        /\ Exists(r.item)
            => /\ r.version < Len(Log(r.item))
               /\ Log(r.item)[r.version + 1] =
                    [data |-> r.data, version |-> r.version + 1, by |-> r.user]

\* The row an open transaction is about to replace is the row it copied.
CopyIsCurrent ==
    \A h \in Handlers : pc[h] = "commit" =>
        /\ Exists(req[h].item)
        /\ copy[h] = <<items[req[h].item]>>

\* The item store implements the append-only log of ItemLog.
Abs == INSTANCE ItemLog WITH
         log     <- [i \in Items |-> Log(i)],
         gone    <- {i \in Items : items[i] = Deleted},
         told    <- known,
         Authors <- [i \in Items |-> Access[VaultOf[i]]]
ImplementsItemLog == Abs!Spec

\* Every request is answered: a row lock always comes free, and the copies of
\* open updates never keep a delete, or each other, waiting for good.
EveryRequestAnswered ==
    \A h \in Handlers : pc[h] # "idle" ~> pc[h] = "idle"
=============================================================================

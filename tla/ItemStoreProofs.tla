--------------------------- MODULE ItemStoreProofs ---------------------------
(***************************************************************************)
(* Proofs about ItemStore, for any sets of users, vaults, items, data and  *)
(* handlers.  The inductive invariant says, beyond the properties, that    *)
(* versions are causal: what a client was told, and so what it sends to an *)
(* item its user has access to, is never ahead of the row.  A copy taken   *)
(* after the request was sent is therefore at least at the version of the  *)
(* request, and at most at that of the row; the optimistic UPDATE succeeds *)
(* only when the two agree, and then the copy is the row it replaces.      *)
(* Requests of anybody else never get that far.                            *)
(***************************************************************************)
EXTENDS ItemStore, TLAPS

\* What a client was told, or sends, is never ahead of the row.
Causal ==
    /\ \A u \in Users, i \in Items :
         /\ items[i] = NoRow => known[u][i] = 0
         /\ Exists(i) => known[u][i] <= items[i].version
    /\ \A h \in Handlers : pc[h] # "idle" /\ req[h].op = "update" =>
         /\ items[req[h].item] # NoRow
         /\ req[h].user \in Access[VaultOf[req[h].item]] =>
              /\ req[h].version <= known[req[h].user][req[h].item]
              /\ Exists(req[h].item) => req[h].version <= items[req[h].item].version
    /\ \A h \in Handlers :
         pc[h] = "reply" /\ answer[h] = "ok" /\ req[h].op = "create" =>
             items[req[h].item] # NoRow

\* What a request that is being served is made of.
Requests ==
    \A h \in Handlers :
        IF pc[h] = "idle" THEN req[h] = NoRequest
        ELSE /\ req[h].user \in Users /\ req[h].item \in Items /\ req[h].vault \in Vaults
             /\ req[h].op \in {"create", "update", "delete"}
             /\ req[h].op = "create" => req[h].version = 0 /\ req[h].data \in Data
             /\ req[h].op = "update" => req[h].version \in Nat \ {0} /\ req[h].data \in Data

\* Where a request can be, and what has been checked about it by then.
Progress ==
    \A h \in Handlers :
        /\ pc[h] \in {"insert", "get", "snapshot", "update", "commit", "delete"} =>
             req[h].user \in Access[req[h].vault]
        /\ pc[h] = "insert" => req[h].op = "create"
        /\ pc[h] = "get" => req[h].op # "create"
        /\ pc[h] = "delete" => req[h].op = "delete"
        /\ pc[h] \in {"snapshot", "update", "commit"} => req[h].op = "update"
        /\ pc[h] \in {"snapshot", "update", "commit", "delete"} =>
             VaultOf[req[h].item] = req[h].vault
        /\ pc[h] # "idle" /\ req[h].op = "create" =>
             req[h].vault = VaultOf[req[h].item]
        /\ pc[h] \notin {"update", "commit"} => copy[h] = << >>
        /\ pc[h] = "reply" <=> answer[h] # "none"

\* The id of an item that is being created is nobody else's.
FreshIds ==
    \A h \in Handlers : pc[h] \in {"access", "insert"} /\ req[h].op = "create" =>
        /\ items[req[h].item] = NoRow
        /\ \A g \in Handlers \ {h} : pc[g] # "idle" => req[g].item # req[h].item

\* What an open transaction has copied is between its request and the row.
Copies ==
    \A h \in Handlers : pc[h] = "update" =>
        IF Exists(req[h].item)
          THEN /\ Len(copy[h]) = 1
               /\ copy[h][1] \in Entry
               /\ copy[h][1].version >= req[h].version
               /\ copy[h][1].version <= items[req[h].item].version
               /\ copy[h][1].version = items[req[h].item].version =>
                    copy[h] = <<items[req[h].item]>>
          ELSE copy[h] = << >>

\* One transaction at a time holds a row, at the version of its request.
Locks ==
    \A h \in Handlers : pc[h] = "commit" =>
        /\ Exists(req[h].item)
        /\ items[req[h].item].version = req[h].version
        /\ \A g \in Handlers \ {h} : pc[g] = "commit" => req[g].item # req[h].item

NoOrphans == \A i \in Items : ~Exists(i) => history[i] = << >>

IInv == /\ TypeOK /\ Requests /\ Causal /\ Progress /\ FreshIds /\ Copies /\ Locks /\ NoOrphans
        /\ CopyIsCurrent /\ HistoryExact /\ AuthorsHaveAccess /\ AcknowledgedIsKept

-----------------------------------------------------------------------------
\* The empty tables satisfy the invariant.
LEMMA InitIInv == Init => IInv
  BY SentinelAssumption
  DEF Init, IInv, TypeOK, Requests, Causal, Progress, FreshIds, Copies, Locks, NoOrphans,
      CopyIsCurrent, HistoryExact, AuthorsHaveAccess, AcknowledgedIsKept,
      Exists, Log, Entry, PC, Answers

\* No copy, and no history, is a sequence of rows.
LEMMA EmptySeq == << >> \in Seq(Entry)
  OBVIOUS

\* One copied row is a sequence of rows.
LEMMA SingletonSeq == ASSUME NEW e \in Entry PROVE <<e>> \in Seq(Entry)
  OBVIOUS

\* The log of an existing item is its history followed by its row.
LEMMA LogOfItem ==
  ASSUME TypeOK, NEW i \in Items, Exists(i)
  PROVE  /\ Log(i) \in Seq(Entry)
         /\ Len(Log(i)) = Len(history[i]) + 1
         /\ \A n \in 1..Len(history[i]) : Log(i)[n] = history[i][n]
         /\ Log(i)[Len(history[i]) + 1] = items[i]
  <1>1. history[i] \in Seq(Entry) /\ items[i] \in Entry
    BY DEF TypeOK, Exists
  <1> QED BY <1>1 DEF Log

\* A step that leaves the tables alone keeps what is said of them alone.
LEMMA StoreUnchanged ==
  ASSUME IInv, UNCHANGED <<items, history>>
  PROVE  /\ \A i \in Items : Exists(i)' = Exists(i) /\ Log(i)' = Log(i)
         /\ NoOrphans' /\ HistoryExact' /\ AuthorsHaveAccess'
  BY DEF IInv, NoOrphans, HistoryExact, AuthorsHaveAccess, Exists, Log

\* Acknowledgements stay true when no log changes and none is added.
LEMMA NoNewAnswer ==
  ASSUME IInv, UNCHANGED <<items, history>>,
         \A g \in Handlers : pc'[g] = "reply" /\ answer'[g] = "ok" =>
             pc[g] = "reply" /\ answer[g] = "ok" /\ req'[g] = req[g]
  PROVE  AcknowledgedIsKept'
  <1>1. \A i \in Items : Exists(i)' = Exists(i) /\ Log(i)' = Log(i)
    BY StoreUnchanged
  <1>2. \A g \in Handlers : pc[g] = "reply" => req[g].item \in Items
    BY DEF IInv, Requests
  <1> QED BY <1>1, <1>2 DEF AcknowledgedIsKept, IInv

\* verifyAccess lets a request on or refuses it; it writes nothing.
LEMMA VerifyAccessStep == ASSUME IInv, NEW h \in Handlers, VerifyAccess(h) PROVE IInv'
  <1>1. /\ UNCHANGED <<items, history, vaults>>
        /\ \A g \in Handlers \ {h} : /\ pc'[g] = pc[g] /\ copy'[g] = copy[g]
                                      /\ answer'[g] = answer[g]
    BY DEF IInv, TypeOK, VerifyAccess, Goto, Finish
  <1>2. /\ UNCHANGED <<known, req>>
        /\ pc[h] = "access" /\ pc'[h] \in {"insert", "get", "reply"} /\ copy'[h] = << >>
        /\ answer'[h] = IF pc'[h] = "reply" THEN "forbidden" ELSE "none"
        /\ pc'[h] # "reply" => req[h].user \in Access[req[h].vault]
        /\ pc'[h] = "insert" => req[h].op = "create"
        /\ pc'[h] = "get" => req[h].op # "create"
    BY ZenonT(60) DEF IInv, TypeOK, VerifyAccess, Goto, Finish, Requests, Progress
  <1>3. /\ \A i \in Items : Exists(i)' = Exists(i) /\ Log(i)' = Log(i)
        /\ NoOrphans' /\ HistoryExact' /\ AuthorsHaveAccess'
    BY <1>1, StoreUnchanged
  <1>4. TypeOK'
    <2>1. copy' \in [Handlers -> Seq(Entry)]
      BY EmptySeq, SingletonSeq DEF IInv, TypeOK, VerifyAccess, Goto, Finish
    <2> QED BY <2>1 DEF IInv, TypeOK, VerifyAccess, Goto, Finish, PC, Answers
  <1>5. Requests'
    BY <1>1, <1>2, <1>3 DEF IInv, Requests
  <1>6. Causal'
    BY <1>1, <1>2, <1>3 DEF IInv, Causal, Requests, Exists
  <1>7. Progress'
    BY <1>1, <1>2, <1>3 DEF IInv, Progress
  <1>8. FreshIds'
    BY <1>1, <1>2, <1>3 DEF IInv, FreshIds
  <1>9. Copies'
    BY <1>1, <1>2, <1>3 DEF IInv, Copies, Exists, Requests
  <1>10. Locks'
    BY <1>1, <1>2, <1>3 DEF IInv, Locks, Exists, Requests
  <1>11. CopyIsCurrent'
    BY <1>1, <1>2, <1>3 DEF IInv, CopyIsCurrent, Exists, Requests
  <1>12. AcknowledgedIsKept'
    BY <1>1, <1>2, NoNewAnswer DEF IInv
  <1> QED BY <1>3, <1>4, <1>5, <1>6, <1>7, <1>8, <1>9, <1>10, <1>11, <1>12 DEF IInv

\* GetByID lets a request on, or finds no item in the vault of the path.
LEMMA GetByIDStep == ASSUME IInv, NEW h \in Handlers, GetByID(h) PROVE IInv'
  <1>1. /\ UNCHANGED <<items, history, vaults>>
        /\ \A g \in Handlers \ {h} : /\ pc'[g] = pc[g] /\ copy'[g] = copy[g]
                                      /\ answer'[g] = answer[g]
    BY DEF IInv, TypeOK, GetByID, Goto, Finish
  <1>2. /\ UNCHANGED <<known, req>>
        /\ pc[h] = "get" /\ pc'[h] \in {"snapshot", "delete", "reply"} /\ copy'[h] = << >>
        /\ answer'[h] = IF pc'[h] = "reply" THEN "not_found" ELSE "none"
        /\ pc'[h] # "reply" => VaultOf[req[h].item] = req[h].vault
        /\ pc'[h] = "snapshot" => req[h].op = "update"
        /\ pc'[h] = "delete" => req[h].op = "delete"
    BY DEF IInv, TypeOK, GetByID, Goto, Finish, Requests, Progress
  <1>3. /\ \A i \in Items : Exists(i)' = Exists(i) /\ Log(i)' = Log(i)
        /\ NoOrphans' /\ HistoryExact' /\ AuthorsHaveAccess'
    BY <1>1, StoreUnchanged
  <1>4. TypeOK'
    <2>1. copy' \in [Handlers -> Seq(Entry)]
      BY EmptySeq, SingletonSeq DEF IInv, TypeOK, GetByID, Goto, Finish
    <2> QED BY <2>1 DEF IInv, TypeOK, GetByID, Goto, Finish, PC, Answers
  <1>5. Requests'
    BY <1>1, <1>2, <1>3 DEF IInv, Requests
  <1>6. Causal'
    BY <1>1, <1>2, <1>3 DEF IInv, Causal, Requests, Exists
  <1>7. Progress'
    BY <1>1, <1>2, <1>3 DEF IInv, Progress
  <1>8. FreshIds'
    BY <1>1, <1>2, <1>3 DEF IInv, FreshIds
  <1>9. Copies'
    BY <1>1, <1>2, <1>3 DEF IInv, Copies, Exists, Requests
  <1>10. Locks'
    BY <1>1, <1>2, <1>3 DEF IInv, Locks, Exists, Requests
  <1>11. CopyIsCurrent'
    BY <1>1, <1>2, <1>3 DEF IInv, CopyIsCurrent, Exists, Requests
  <1>12. AcknowledgedIsKept'
    BY <1>1, <1>2, NoNewAnswer DEF IInv
  <1> QED BY <1>3, <1>4, <1>5, <1>6, <1>7, <1>8, <1>9, <1>10, <1>11, <1>12 DEF IInv

\* The copy is the committed row: at least at the version of the request.
LEMMA SnapshotStep == ASSUME IInv, NEW h \in Handlers, Snapshot(h) PROVE IInv'
  <1>1. /\ UNCHANGED <<items, history, vaults>>
        /\ \A g \in Handlers \ {h} : /\ pc'[g] = pc[g] /\ copy'[g] = copy[g]
                                      /\ answer'[g] = answer[g]
    BY DEF IInv, TypeOK, Snapshot
  <1>2. /\ UNCHANGED <<known, req>>
        /\ pc[h] = "snapshot" /\ pc'[h] = "update" /\ UNCHANGED answer
        /\ copy'[h] = IF Exists(req[h].item) THEN <<items[req[h].item]>> ELSE << >>
    BY DEF IInv, TypeOK, Snapshot
  <1>3. /\ \A i \in Items : Exists(i)' = Exists(i) /\ Log(i)' = Log(i)
        /\ NoOrphans' /\ HistoryExact' /\ AuthorsHaveAccess'
    BY <1>1, StoreUnchanged
  <1>4. TypeOK'
    <2>1. copy' \in [Handlers -> Seq(Entry)]
      BY EmptySeq, SingletonSeq DEF IInv, TypeOK, Snapshot, Exists
    <2> QED BY <2>1 DEF IInv, TypeOK, Snapshot, PC, Answers
  <1>5. Requests'
    BY <1>1, <1>2, <1>3 DEF IInv, Requests
  <1>6. Causal'
    BY <1>1, <1>2, <1>3 DEF IInv, Causal, Requests, Exists
  <1>7. Progress'
    BY <1>1, <1>2, <1>3 DEF IInv, Progress
  <1>8. FreshIds'
    BY <1>1, <1>2, <1>3 DEF IInv, FreshIds
  <1>9. Copies'
    BY <1>1, <1>2, <1>3 DEF IInv, Copies, Exists, Requests, Causal, Progress, Entry
  <1>10. Locks'
    BY <1>1, <1>2, <1>3 DEF IInv, Locks, Exists, Requests
  <1>11. CopyIsCurrent'
    BY <1>1, <1>2, <1>3 DEF IInv, CopyIsCurrent, Exists, Requests
  <1>12. AcknowledgedIsKept'
    BY <1>1, <1>2, NoNewAnswer DEF IInv
  <1> QED BY <1>3, <1>4, <1>5, <1>6, <1>7, <1>8, <1>9, <1>10, <1>11, <1>12 DEF IInv

\* The UPDATE takes the row only when request, copy and row agree.
LEMMA UpdateStep == ASSUME IInv, NEW h \in Handlers, Update(h) PROVE IInv'
  <1>1. /\ UNCHANGED <<items, history, vaults>>
        /\ \A g \in Handlers \ {h} : /\ pc'[g] = pc[g] /\ copy'[g] = copy[g]
                                      /\ answer'[g] = answer[g]
    BY DEF IInv, TypeOK, Update, Goto, Finish
  <1>2. /\ UNCHANGED <<known, req>>
        /\ pc[h] = "update" /\ pc'[h] \in {"commit", "reply"}
        /\ pc'[h] = "reply" => answer'[h] = "conflict" /\ copy'[h] = << >>
        /\ pc'[h] = "commit" =>
             /\ answer'[h] = "none" /\ copy'[h] = copy[h]
             /\ Exists(req[h].item) /\ items[req[h].item].version = req[h].version
             /\ \A g \in Handlers : pc[g] = "commit" => req[g].item # req[h].item
    BY DEF IInv, TypeOK, Update, Goto, Finish, RowLocked, Progress
  <1>3. /\ \A i \in Items : Exists(i)' = Exists(i) /\ Log(i)' = Log(i)
        /\ NoOrphans' /\ HistoryExact' /\ AuthorsHaveAccess'
    BY <1>1, StoreUnchanged
  <1>4. TypeOK'
    <2>1. copy' \in [Handlers -> Seq(Entry)]
      BY EmptySeq, SingletonSeq DEF IInv, TypeOK, Update, Goto, Finish
    <2> QED BY <2>1 DEF IInv, TypeOK, Update, Goto, Finish, PC, Answers
  <1>5. Requests'
    BY <1>1, <1>2, <1>3 DEF IInv, Requests
  <1>6. Causal'
    BY <1>1, <1>2, <1>3 DEF IInv, Causal, Requests, Exists
  <1>7. Progress'
    BY <1>1, <1>2, <1>3 DEF IInv, Progress
  <1>8. FreshIds'
    BY <1>1, <1>2, <1>3 DEF IInv, FreshIds
  <1>9. Copies'
    BY <1>1, <1>2, <1>3 DEF IInv, Copies, Exists, Requests
  <1>10. Locks'
    BY <1>1, <1>2, <1>3 DEF IInv, Locks, Exists, Requests
  <1>11. CopyIsCurrent'
    BY <1>1, <1>2, <1>3 DEF IInv, CopyIsCurrent, Exists, Requests, Copies, Causal, Entry, TypeOK
  <1>12. AcknowledgedIsKept'
    BY <1>1, <1>2, NoNewAnswer DEF IInv
  <1> QED BY <1>3, <1>4, <1>5, <1>6, <1>7, <1>8, <1>9, <1>10, <1>11, <1>12 DEF IInv

\* The answer of a write tells a version the item has had.
LEMMA ReplyStep == ASSUME IInv, NEW h \in Handlers, Reply(h) PROVE IInv'
  <1>1. /\ UNCHANGED <<items, history, vaults>>
        /\ \A g \in Handlers \ {h} : /\ pc'[g] = pc[g] /\ copy'[g] = copy[g]
                                      /\ answer'[g] = answer[g]
    BY DEF IInv, TypeOK, Reply
  <1>2. /\ pc[h] = "reply" /\ pc'[h] = "idle" /\ copy'[h] = << >> /\ answer'[h] = "none"
        /\ req'[h] = NoRequest /\ \A g \in Handlers \ {h} : req'[g] = req[g]
    BY DEF IInv, TypeOK, Reply, Progress
  <1>3. /\ \A i \in Items : Exists(i)' = Exists(i) /\ Log(i)' = Log(i)
        /\ NoOrphans' /\ HistoryExact' /\ AuthorsHaveAccess'
    BY <1>1, StoreUnchanged
  <1>4. TypeOK'
    <2>1. copy' \in [Handlers -> Seq(Entry)]
      BY EmptySeq, SingletonSeq DEF IInv, TypeOK, Reply
    <2>2. known' \in [Users -> [Items -> Nat]]
      <3>1. CASE UNCHANGED known
        BY <3>1 DEF IInv, TypeOK
      <3>2. CASE known' # known
        <4>1. /\ known' = [known EXCEPT ![req[h].user][req[h].item] = req[h].version + 1]
              /\ req[h].op # "delete"
          BY <3>2 DEF Reply
        <4>2. /\ req[h].user \in Users /\ req[h].item \in Items
              /\ req[h].version + 1 \in Nat
          BY <1>2, <4>1 DEF IInv, Requests
        <4> QED BY <4>1, <4>2 DEF IInv, TypeOK
      <3> QED BY <3>1, <3>2
    <2> QED BY <1>1, <2>1, <2>2 DEF IInv, TypeOK, Reply, PC, Answers
  <1>5. Requests'
    BY <1>1, <1>2, <1>3 DEF IInv, Requests
  <1>6. Causal'
    <2>1. ASSUME NEW u \in Users, NEW i \in Items, known'[u][i] # known[u][i]
          PROVE  /\ items[i] # NoRow
                 /\ Exists(i) => known'[u][i] <= items[i].version
      <3>1. /\ answer[h] = "ok" /\ req[h].op \in {"create", "update"}
            /\ i = req[h].item /\ known'[u][i] = req[h].version + 1
        <4>1. /\ known' = [known EXCEPT ![req[h].user][req[h].item] = req[h].version + 1]
              /\ answer[h] = "ok" /\ req[h].op # "delete"
          BY <2>1 DEF Reply
        <4>2. req[h].user \in Users /\ req[h].item \in Items /\ req[h].op \in Ops
          BY <1>2, <4>1 DEF IInv, Requests, Ops
        <4>3. u = req[h].user /\ i = req[h].item
          BY <2>1, <4>1, <4>2 DEF IInv, TypeOK
        <4> QED BY <4>1, <4>2, <4>3 DEF IInv, TypeOK, Ops
      <3>2. items[i] # NoRow
        BY <1>2, <3>1 DEF IInv, Causal
      <3>3. ASSUME Exists(i) PROVE known'[u][i] <= items[i].version
        <4>1. Len(Log(i)) = items[i].version
          <5>1. TypeOK /\ items[i].version \in Nat
            BY <3>3 DEF IInv, Exists, Entry
          <5>2. Len(Log(i)) = Len(history[i]) + 1
            BY <3>3, <5>1, LogOfItem
          <5> QED BY <3>3, <5>1, <5>2 DEF IInv, HistoryExact
        <4>2. req[h].version < Len(Log(i))
          BY <1>2, <3>1, <3>3 DEF IInv, AcknowledgedIsKept
        <4>3. req[h].version \in Nat
          BY <1>2, <3>1 DEF IInv, Requests
        <4> QED BY <3>1, <3>3, <4>1, <4>2, <4>3 DEF Exists, Entry
      <3> QED BY <3>2, <3>3
    <2>2. \A u \in Users, i \in Items : /\ items[i] = NoRow => known'[u][i] = 0
                                        /\ Exists(i) => known'[u][i] <= items[i].version
      BY <2>1 DEF IInv, Causal
    <2>3. \A u \in Users, i \in Items : /\ known'[u][i] >= known[u][i]
                                        /\ known[u][i] \in Nat /\ known'[u][i] \in Nat
      <3>1. CASE UNCHANGED known
        BY <3>1 DEF IInv, TypeOK
      <3>2. CASE known' # known
        <4>1. /\ known' = [known EXCEPT ![req[h].user][req[h].item] = req[h].version + 1]
              /\ req[h].version + 1 > known[req[h].user][req[h].item]
              /\ req[h].op # "delete"
          BY <3>2 DEF Reply
        <4>2. /\ req[h].user \in Users /\ req[h].item \in Items
              /\ req[h].version + 1 \in Nat
          BY <1>2, <4>1 DEF IInv, Requests
        <4> QED BY <4>1, <4>2 DEF IInv, TypeOK
      <3> QED BY <3>1, <3>2
    <2>4. ASSUME NEW g \in Handlers, pc'[g] # "idle", req'[g].op = "update"
          PROVE  /\ items[req'[g].item] # NoRow
                 /\ req'[g].user \in Access[VaultOf[req'[g].item]] =>
                      /\ req'[g].version <= known'[req'[g].user][req'[g].item]
                      /\ items[req'[g].item] \in Entry =>
                           req'[g].version <= items[req'[g].item].version
      <3>1. g # h /\ req'[g] = req[g] /\ pc[g] # "idle"
        BY <1>1, <1>2, <2>4
      <3>2. /\ req[g].user \in Users /\ req[g].item \in Items /\ req[g].version \in Nat
            /\ items[req[g].item] # NoRow
        BY <2>4, <3>1 DEF IInv, Requests, Causal
      <3>3. ASSUME req[g].user \in Access[VaultOf[req[g].item]]
            PROVE  /\ req[g].version <= known'[req[g].user][req[g].item]
                   /\ items[req[g].item] \in Entry => req[g].version <= items[req[g].item].version
        <4>1. req[g].version <= known[req[g].user][req[g].item]
          BY <2>4, <3>1, <3>3 DEF IInv, Causal
        <4>2. items[req[g].item] \in Entry => req[g].version <= items[req[g].item].version
          BY <2>4, <3>1, <3>3 DEF IInv, Causal, Exists
        <4> QED BY <2>3, <3>2, <4>1, <4>2
      <3> QED BY <3>1, <3>2, <3>3
    <2>5. \A g \in Handlers : pc'[g] = "reply" =>
            /\ g # h /\ req'[g] = req[g] /\ pc[g] = "reply" /\ answer'[g] = answer[g]
            /\ req[g].item \in Items
      BY <1>1, <1>2 DEF IInv, Requests
    <2>6. ASSUME NEW g \in Handlers, pc'[g] = "reply", answer'[g] = "ok",
                 req'[g].op = "create"
          PROVE  items'[req'[g].item] # NoRow
      BY <1>1, <2>5, <2>6 DEF IInv, Causal
    <2> QED BY <1>1, <2>2, <2>4, <2>6 DEF Causal, Exists
  <1>7. Progress'
    BY <1>1, <1>2, <1>3 DEF IInv, Progress
  <1>8. FreshIds'
    BY <1>1, <1>2, <1>3 DEF IInv, FreshIds
  <1>9. Copies'
    BY <1>1, <1>2, <1>3 DEF IInv, Copies, Exists, Requests
  <1>10. Locks'
    BY <1>1, <1>2, <1>3 DEF IInv, Locks, Exists, Requests
  <1>11. CopyIsCurrent'
    BY <1>1, <1>2, <1>3 DEF IInv, CopyIsCurrent, Exists, Requests
  <1>12. AcknowledgedIsKept'
    BY <1>1, <1>2, NoNewAnswer DEF IInv
  <1> QED BY <1>3, <1>4, <1>5, <1>6, <1>7, <1>8, <1>9, <1>10, <1>11, <1>12 DEF IInv

\* A rollback forgets the copy and releases the row.
LEMMA AbortStep == ASSUME IInv, NEW h \in Handlers, Abort(h) PROVE IInv'
  <1>1. /\ UNCHANGED <<items, history, vaults>>
        /\ \A g \in Handlers \ {h} : /\ pc'[g] = pc[g] /\ copy'[g] = copy[g]
                                      /\ answer'[g] = answer[g]
    BY DEF IInv, TypeOK, Abort, Finish
  <1>2. /\ UNCHANGED <<known, req>>
        /\ pc[h] # "idle" /\ pc'[h] = "reply" /\ answer'[h] = "error" /\ copy'[h] = << >>
    BY DEF IInv, TypeOK, Abort, Finish
  <1>3. /\ \A i \in Items : Exists(i)' = Exists(i) /\ Log(i)' = Log(i)
        /\ NoOrphans' /\ HistoryExact' /\ AuthorsHaveAccess'
    BY <1>1, StoreUnchanged
  <1>4. TypeOK'
    <2>1. copy' \in [Handlers -> Seq(Entry)]
      BY EmptySeq, SingletonSeq DEF IInv, TypeOK, Abort, Finish
    <2> QED BY <2>1 DEF IInv, TypeOK, Abort, Finish, PC, Answers
  <1>5. Requests'
    BY <1>1, <1>2, <1>3 DEF IInv, Requests
  <1>6. Causal'
    BY <1>1, <1>2, <1>3 DEF IInv, Causal, Requests, Exists
  <1>7. Progress'
    BY <1>1, <1>2, <1>3 DEF IInv, Progress
  <1>8. FreshIds'
    BY <1>1, <1>2, <1>3 DEF IInv, FreshIds
  <1>9. Copies'
    BY <1>1, <1>2, <1>3 DEF IInv, Copies, Exists, Requests
  <1>10. Locks'
    BY <1>1, <1>2, <1>3 DEF IInv, Locks, Exists, Requests
  <1>11. CopyIsCurrent'
    BY <1>1, <1>2, <1>3 DEF IInv, CopyIsCurrent, Exists, Requests
  <1>12. AcknowledgedIsKept'
    BY <1>1, <1>2, NoNewAnswer DEF IInv
  <1> QED BY <1>3, <1>4, <1>5, <1>6, <1>7, <1>8, <1>9, <1>10, <1>11, <1>12 DEF IInv

\* A new create names an id that nobody else names.
LEMMA SendCreateStep == ASSUME IInv, NEW h \in Handlers, SendCreate(h) PROVE IInv'
  <1>1. /\ UNCHANGED <<items, history, vaults>>
        /\ \A g \in Handlers \ {h} : /\ pc'[g] = pc[g] /\ copy'[g] = copy[g]
                                      /\ answer'[g] = answer[g]
    BY DEF IInv, TypeOK, SendCreate, Send, Goto, Unused
  <1>2. /\ UNCHANGED known
        /\ pc[h] = "idle" /\ pc'[h] = "access" /\ copy'[h] = << >> /\ answer'[h] = "none"
        /\ \A g \in Handlers \ {h} : req'[g] = req[g]
    BY DEF IInv, TypeOK, SendCreate, Send, Goto, Unused, Progress
  <1>3. /\ \A i \in Items : Exists(i)' = Exists(i) /\ Log(i)' = Log(i)
        /\ NoOrphans' /\ HistoryExact' /\ AuthorsHaveAccess'
    BY <1>1, StoreUnchanged
  <1>4. /\ req' \in [Handlers -> Request \union {NoRequest}]
        /\ req'[h].user \in Users /\ req'[h].item \in Items /\ req'[h].vault \in Vaults
        /\ req'[h].op = "create"
        /\ req'[h].vault = VaultOf[req'[h].item]
        /\ req'[h].version = 0 /\ req'[h].data \in Data
        /\ items[req'[h].item] = NoRow
        /\ \A g \in Handlers : pc[g] # "idle" => req[g].item # req'[h].item
    BY VaultOfAssumption DEF SendCreate, Send, Goto, Unused, IInv, TypeOK, Request, CreateRequest
  <1>5. TypeOK'
    <2>1. copy' \in [Handlers -> Seq(Entry)]
      BY EmptySeq, SingletonSeq DEF IInv, TypeOK, SendCreate, Send, Goto, Unused
    <2> QED BY <1>1, <1>2, <1>4, <2>1 DEF IInv, TypeOK, SendCreate, Send, Goto, Unused, PC, Answers
  <1>6. Requests'
    BY <1>1, <1>2, <1>3, <1>4 DEF IInv, Requests
  <1>7. Causal'
    BY <1>1, <1>2, <1>3, <1>4 DEF IInv, Causal, Requests, Exists
  <1>8. Progress'
    BY <1>1, <1>2, <1>3, <1>4 DEF IInv, Progress
  <1>9. FreshIds'
    BY <1>1, <1>2, <1>3, <1>4 DEF IInv, FreshIds
  <1>10. Copies'
    BY <1>1, <1>2, <1>3, <1>4 DEF IInv, Copies, Exists, Requests
  <1>11. Locks'
    BY <1>1, <1>2, <1>3, <1>4 DEF IInv, Locks, Exists, Requests
  <1>12. CopyIsCurrent'
    BY <1>1, <1>2, <1>3, <1>4 DEF IInv, CopyIsCurrent, Exists, Requests
  <1>13. AcknowledgedIsKept'
    BY <1>1, <1>2, NoNewAnswer DEF IInv
  <1> QED BY <1>3, <1>5, <1>6, <1>7, <1>8, <1>9, <1>10, <1>11, <1>12, <1>13 DEF IInv

\* An update of a user of the vault is sent with a version the user was told.
LEMMA SendUpdateStep == ASSUME IInv, NEW h \in Handlers, SendUpdate(h) PROVE IInv'
  <1>1. /\ UNCHANGED <<items, history, vaults>>
        /\ \A g \in Handlers \ {h} : /\ pc'[g] = pc[g] /\ copy'[g] = copy[g]
                                      /\ answer'[g] = answer[g]
    BY DEF IInv, TypeOK, SendUpdate, Send, Goto
  <1>2. /\ UNCHANGED known
        /\ pc[h] = "idle" /\ pc'[h] = "access" /\ copy'[h] = << >> /\ answer'[h] = "none"
        /\ \A g \in Handlers \ {h} : req'[g] = req[g]
    BY DEF IInv, TypeOK, SendUpdate, Send, Goto, Progress
  <1>3. /\ \A i \in Items : Exists(i)' = Exists(i) /\ Log(i)' = Log(i)
        /\ NoOrphans' /\ HistoryExact' /\ AuthorsHaveAccess'
    BY <1>1, StoreUnchanged
  <1>4. /\ req' \in [Handlers -> Request \union {NoRequest}]
        /\ req'[h].user \in Users /\ req'[h].item \in Items /\ req'[h].vault \in Vaults
        /\ req'[h].op = "update"
        /\ req'[h].version \in Nat \ {0} /\ req'[h].data \in Data
        /\ items[req'[h].item] # NoRow
        /\ req'[h].user \in Access[VaultOf[req'[h].item]] =>
             /\ req'[h].version <= known[req'[h].user][req'[h].item]
             /\ Exists(req'[h].item) => req'[h].version <= items[req'[h].item].version
    <2>1. PICK u \in Users, v \in Vaults, i \in Items, d \in Data, n \in 1..MaxVersion :
            /\ items[i] # NoRow /\ n \in Sent(u, i)
            /\ req' = [req EXCEPT ![h] = [op |-> "update", user |-> u, item |-> i,
                                         vault |-> v, version |-> n, data |-> d]]
      BY DEF SendUpdate, Send
    <2>2. n \in Nat \ {0}
      BY MaxVersionAssumption
    <2>3. u \in Access[VaultOf[i]] =>
            n <= known[u][i] /\ (Exists(i) => n <= items[i].version)
      BY <2>1, <2>2 DEF Sent, IInv, TypeOK, Causal, Exists, Entry
    <2> DEFINE r == [op |-> "update", user |-> u, item |-> i, vault |-> v,
                     version |-> n, data |-> d]
    <2>4. r \in Request
      BY <2>2 DEF Request, UpdateRequest
    <2>5. req'[h] = r /\ req' \in [Handlers -> Request \union {NoRequest}]
      BY <2>1, <2>4 DEF IInv, TypeOK
    <2>6. /\ r.user = u /\ r.item = i /\ r.vault = v /\ r.op = "update"
          /\ r.version = n /\ r.data = d
      OBVIOUS
    <2> HIDE DEF r
    <2>7. items[r.item] # NoRow
      BY <2>1, <2>6
    <2>8. r.user \in Access[VaultOf[r.item]] =>
            r.version <= known[r.user][r.item] /\ (Exists(r.item) => r.version <= items[r.item].version)
      BY <2>3, <2>6
    <2> QED BY <2>2, <2>5, <2>6, <2>7, <2>8
  <1>5. TypeOK'
    <2>1. copy' \in [Handlers -> Seq(Entry)]
      BY EmptySeq, SingletonSeq DEF IInv, TypeOK, SendUpdate, Send, Goto
    <2> QED BY <1>1, <1>2, <1>4, <2>1 DEF IInv, TypeOK, SendUpdate, Send, Goto, PC, Answers
  <1>6. Requests'
    BY <1>1, <1>2, <1>3, <1>4 DEF IInv, Requests
  <1>7. Causal'
    BY <1>1, <1>2, <1>3, <1>4 DEF IInv, Causal, Requests, Exists
  <1>8. Progress'
    BY <1>1, <1>2, <1>3, <1>4 DEF IInv, Progress
  <1>9. FreshIds'
    BY <1>1, <1>2, <1>3, <1>4 DEF IInv, FreshIds, Causal
  <1>10. Copies'
    BY <1>1, <1>2, <1>3, <1>4 DEF IInv, Copies, Exists, Requests
  <1>11. Locks'
    BY <1>1, <1>2, <1>3, <1>4 DEF IInv, Locks, Exists, Requests
  <1>12. CopyIsCurrent'
    BY <1>1, <1>2, <1>3, <1>4 DEF IInv, CopyIsCurrent, Exists, Requests
  <1>13. AcknowledgedIsKept'
    BY <1>1, <1>2, NoNewAnswer DEF IInv
  <1> QED BY <1>3, <1>5, <1>6, <1>7, <1>8, <1>9, <1>10, <1>11, <1>12, <1>13 DEF IInv

\* A delete names an item that has been there.
LEMMA SendDeleteStep == ASSUME IInv, NEW h \in Handlers, SendDelete(h) PROVE IInv'
  <1>1. /\ UNCHANGED <<items, history, vaults>>
        /\ \A g \in Handlers \ {h} : /\ pc'[g] = pc[g] /\ copy'[g] = copy[g]
                                      /\ answer'[g] = answer[g]
    BY DEF IInv, TypeOK, SendDelete, Send, Goto
  <1>2. /\ UNCHANGED known
        /\ pc[h] = "idle" /\ pc'[h] = "access" /\ copy'[h] = << >> /\ answer'[h] = "none"
        /\ \A g \in Handlers \ {h} : req'[g] = req[g]
    BY DEF IInv, TypeOK, SendDelete, Send, Goto, Progress
  <1>3. /\ \A i \in Items : Exists(i)' = Exists(i) /\ Log(i)' = Log(i)
        /\ NoOrphans' /\ HistoryExact' /\ AuthorsHaveAccess'
    BY <1>1, StoreUnchanged
  <1>4. /\ req' \in [Handlers -> Request \union {NoRequest}]
        /\ req'[h].user \in Users /\ req'[h].item \in Items /\ req'[h].vault \in Vaults
        /\ req'[h].op = "delete"
        /\ items[req'[h].item] # NoRow
    BY DEF SendDelete, Send, Goto, IInv, TypeOK, Causal, Exists, Entry, Request,
           UpdateRequest, DeleteRequest
  <1>5. TypeOK'
    <2>1. copy' \in [Handlers -> Seq(Entry)]
      BY EmptySeq, SingletonSeq DEF IInv, TypeOK, SendDelete, Send, Goto
    <2> QED BY <1>1, <1>2, <1>4, <2>1 DEF IInv, TypeOK, SendDelete, Send, Goto, PC, Answers
  <1>6. Requests'
    BY <1>1, <1>2, <1>3, <1>4 DEF IInv, Requests
  <1>7. Causal'
    BY <1>1, <1>2, <1>3, <1>4 DEF IInv, Causal, Requests, Exists
  <1>8. Progress'
    BY <1>1, <1>2, <1>3, <1>4 DEF IInv, Progress
  <1>9. FreshIds'
    BY <1>1, <1>2, <1>3, <1>4 DEF IInv, FreshIds, Causal
  <1>10. Copies'
    BY <1>1, <1>2, <1>3, <1>4 DEF IInv, Copies, Exists, Requests
  <1>11. Locks'
    BY <1>1, <1>2, <1>3, <1>4 DEF IInv, Locks, Exists, Requests
  <1>12. CopyIsCurrent'
    BY <1>1, <1>2, <1>3, <1>4 DEF IInv, CopyIsCurrent, Exists, Requests
  <1>13. AcknowledgedIsKept'
    BY <1>1, <1>2, NoNewAnswer DEF IInv
  <1> QED BY <1>3, <1>5, <1>6, <1>7, <1>8, <1>9, <1>10, <1>11, <1>12, <1>13 DEF IInv

\* A list tells the current versions, which are causal.
LEMMA ListByVaultStep ==
  ASSUME IInv, NEW u \in Users, NEW v \in Vaults, ListByVault(u, v) PROVE IInv'
  <1>1. UNCHANGED <<items, history, vaults, pc, req, copy, answer>>
    BY DEF ListByVault
  <1>2. /\ \A i \in Items : Exists(i)' = Exists(i) /\ Log(i)' = Log(i)
        /\ NoOrphans' /\ HistoryExact' /\ AuthorsHaveAccess'
    BY <1>1, StoreUnchanged
  <1>3. /\ known' \in [Users -> [Items -> Nat]]
        /\ \A w \in Users, i \in Items :
             \/ known'[w][i] = known[w][i]
             \/ Exists(i) /\ known'[w][i] = items[i].version
    BY DEF IInv, TypeOK, ListByVault, Exists, Entry
  <1>4. TypeOK'
    BY <1>1, <1>3 DEF IInv, TypeOK
  <1>5. Causal'
    <2>1. \A w \in Users, i \in Items : /\ known'[w][i] >= known[w][i]
                                        /\ known[w][i] \in Nat /\ known'[w][i] \in Nat
      <3>1. \A w \in Users, i \in Items : known[w][i] \in Nat /\ known'[w][i] \in Nat
        BY <1>3 DEF IInv, TypeOK
      <3>2. \A w \in Users, i \in Items : Exists(i) => known[w][i] <= items[i].version
        BY DEF IInv, Causal
      <3> QED BY <1>3, <3>1, <3>2
    <2>2. \A w \in Users, i \in Items : /\ items[i] = NoRow => known'[w][i] = 0
                                        /\ Exists(i) => known'[w][i] <= items[i].version
      BY <1>3, SentinelAssumption DEF IInv, Causal, Exists, Entry
    <2>3. \A g \in Handlers :
            (pc[g] # "idle" /\ req[g].op = "update"
              /\ req[g].user \in Access[VaultOf[req[g].item]])
            => req[g].version <= known'[req[g].user][req[g].item]
      <3>1. \A g \in Handlers :
              (pc[g] # "idle" /\ req[g].op = "update"
                /\ req[g].user \in Access[VaultOf[req[g].item]])
              => /\ req[g].user \in Users /\ req[g].item \in Items /\ req[g].version \in Nat
                 /\ req[g].version <= known[req[g].user][req[g].item]
        BY DEF IInv, Causal, Requests
      <3> QED BY <2>1, <3>1
    <2> QED BY <1>1, <2>2, <2>3 DEF IInv, Causal, Exists
  <1>6. Requests' /\ Progress' /\ FreshIds' /\ Locks' /\ CopyIsCurrent'
    BY <1>1 DEF IInv, Requests, Progress, FreshIds, Locks, CopyIsCurrent, Exists
  <1>7. Copies'
    BY <1>1 DEF IInv, Copies, Exists
  <1>8. AcknowledgedIsKept'
    BY <1>1, NoNewAnswer
  <1> QED BY <1>2, <1>4, <1>5, <1>6, <1>7, <1>8 DEF IInv

-----------------------------------------------------------------------------
(* The steps that write the tables.  Each one turns the log of one item, or *)
(* of the items of one vault, into another; the rest stays as it is.         *)

\* The first version of an item is its whole log.
LEMMA InsertStep == ASSUME IInv, NEW h \in Handlers, Insert(h) PROVE IInv'
  <1> DEFINE i == req[h].item
             e == [data |-> req[h].data, version |-> 1, by |-> req[h].user]
  <1>1. /\ UNCHANGED <<history, vaults, known, req>>
        /\ \A g \in Handlers \ {h} : /\ pc'[g] = pc[g] /\ copy'[g] = copy[g]
                                      /\ answer'[g] = answer[g]
        /\ pc[h] = "insert" /\ pc'[h] = "reply" /\ copy'[h] = << >>
        /\ answer'[h] \in {"ok", "error"}
    BY DEF IInv, TypeOK, Insert, Finish
  <1>2. /\ i \in Items /\ e \in Entry /\ req[h].op = "create" /\ req[h].version = 0
        /\ req[h].vault = VaultOf[i] /\ req[h].user \in Access[VaultOf[i]]
        /\ items[i] = NoRow /\ ~Exists(i) /\ history[i] = << >>
        /\ \A g \in Handlers \ {h} : pc[g] # "idle" => req[g].item # i
        /\ \A u \in Users : known[u][i] = 0
    BY <1>1, SentinelAssumption
    DEF IInv, Requests, Progress, FreshIds, NoOrphans, Causal, Exists, Entry
  <1>3. TypeOK'
    <2>1. copy' \in [Handlers -> Seq(Entry)]
      BY EmptySeq DEF IInv, TypeOK, Insert, Finish
    <2>2. items' \in [Items -> Entry \union {NoRow, Deleted}]
      <3>1. items' = [items EXCEPT ![i] = e] \/ UNCHANGED items
        BY DEF Insert, Finish
      <3> QED BY <1>2, <3>1 DEF IInv, TypeOK
    <2>3. pc' \in [Handlers -> PC] /\ answer' \in [Handlers -> Answers]
      BY DEF IInv, TypeOK, Insert, Finish, PC, Answers
    <2> QED BY <1>1, <2>1, <2>2, <2>3 DEF IInv, TypeOK
  <1>4. CASE answer'[h] = "error"
    <2>1. UNCHANGED items
      BY <1>4 DEF Insert, Finish, IInv, TypeOK
    <2>2. /\ \A j \in Items : Exists(j)' = Exists(j) /\ Log(j)' = Log(j)
          /\ NoOrphans' /\ HistoryExact' /\ AuthorsHaveAccess'
      BY <1>1, <2>1, StoreUnchanged
    <2>3. AcknowledgedIsKept'
      BY <1>1, <1>4, <2>1, NoNewAnswer
    <2>4. Requests' /\ Progress' /\ FreshIds' /\ Causal'
      BY <1>1, <1>4, <2>1, <2>2 DEF IInv, Requests, Progress, FreshIds, Causal
    <2>5. Copies' /\ Locks' /\ CopyIsCurrent'
      BY <1>1, <1>4, <2>1 DEF IInv, Copies, Locks, CopyIsCurrent, Exists
    <2> QED BY <1>3, <2>2, <2>3, <2>4, <2>5 DEF IInv
  <1>5. CASE answer'[h] = "ok"
    <2>1. /\ items'[i] = e
          /\ \A j \in Items \ {i} : items'[j] = items[j]
      BY <1>2, <1>5 DEF Insert, Finish, IInv, TypeOK
    <2>2. /\ Exists(i)' /\ \A j \in Items \ {i} : Exists(j)' = Exists(j)
          /\ Log(i)' = <<e>> /\ \A j \in Items \ {i} : Log(j)' = Log(j)
      BY <1>1, <1>2, <2>1 DEF Exists, Log
    <2>3. NoOrphans' /\ HistoryExact' /\ AuthorsHaveAccess'
      BY <1>1, <1>2, <2>1, <2>2 DEF IInv, NoOrphans, HistoryExact, AuthorsHaveAccess
    <2>4. Requests' /\ Progress'
      BY <1>1, <1>5 DEF IInv, Requests, Progress
    <2>5. FreshIds'
      BY <1>1, <1>2, <2>1 DEF IInv, FreshIds, Requests
    <2>6. Causal'
      BY <1>1, <1>2, <1>5, <2>1, <2>2, SentinelAssumption DEF IInv, Causal, Requests
    <2>7. Copies' /\ Locks' /\ CopyIsCurrent'
      <3>1. \A g \in Handlers : pc'[g] \in {"update", "commit"} =>
              /\ g # h /\ req[g].item \in Items \ {i}
        BY <1>1, <1>2 DEF IInv, Requests
      <3> QED BY <1>1, <2>1, <2>2, <3>1 DEF IInv, Copies, Locks, CopyIsCurrent
    <2>8. AcknowledgedIsKept'
      <3>1. \A g \in Handlers \ {h} : pc'[g] = "reply" => req[g].item \in Items \ {i}
        BY <1>1, <1>2 DEF IInv, Requests
      <3>2. ASSUME NEW g \in Handlers \ {h}, pc'[g] = "reply", answer'[g] = "ok",
                   req[g].op \in {"create", "update"}, Exists(req[g].item)'
            PROVE  /\ req[g].version < Len(Log(req[g].item)')
                   /\ Log(req[g].item)'[req[g].version + 1] =
                        [data |-> req[g].data, version |-> req[g].version + 1, by |-> req[g].user]
        BY <1>1, <2>2, <3>1, <3>2 DEF IInv, AcknowledgedIsKept
      <3>3. 0 < Len(<<e>>) /\ <<e>>[1] = e /\ 0 + 1 = 1
        OBVIOUS
      <3> QED BY <1>1, <1>2, <2>2, <3>2, <3>3 DEF AcknowledgedIsKept
    <2> QED BY <1>3, <2>3, <2>4, <2>5, <2>6, <2>7, <2>8 DEF IInv
  <1> QED BY <1>1, <1>4, <1>5

\* The commit appends to the log of one item.
LEMMA CommitStep == ASSUME IInv, NEW h \in Handlers, Commit(h) PROVE IInv'
  <1>0. PICK r : r = req[h]
    OBVIOUS
  <1> DEFINE i == r.item
             n == r.version
             e == [data |-> r.data, version |-> n + 1, by |-> r.user]
  <1>1. /\ UNCHANGED <<vaults, known, req>>
        /\ \A g \in Handlers \ {h} : /\ pc'[g] = pc[g] /\ copy'[g] = copy[g]
                                      /\ answer'[g] = answer[g]
        /\ pc[h] = "commit" /\ pc'[h] = "reply" /\ copy'[h] = << >> /\ answer'[h] = "ok"
    BY DEF IInv, TypeOK, Commit, Finish
  <1>2. /\ i \in Items /\ n \in Nat \ {0} /\ e \in Entry /\ r.op = "update"
        /\ r.user \in Access[VaultOf[i]]
        /\ Exists(i) /\ items[i] \in Entry /\ items[i].version = n /\ copy[h] = <<items[i]>>
        /\ \A g \in Handlers \ {h} : pc[g] = "commit" => req[g].item # i
    BY <1>0, <1>1, SMTT(30) DEF IInv, Requests, Progress, Locks, CopyIsCurrent, Exists, Entry
  <1>3. /\ items'[i] = e /\ \A j \in Items \ {i} : items'[j] = items[j]
        /\ history'[i] = history[i] \o <<items[i]>>
        /\ \A j \in Items \ {i} : history'[j] = history[j]
    BY <1>0, <1>2 DEF IInv, TypeOK, Commit
  <1>4. history[i] \in Seq(Entry) /\ history'[i] \in Seq(Entry)
    BY <1>2, <1>3 DEF IInv, TypeOK
  <1>5. TypeOK'
    <2>1. copy' \in [Handlers -> Seq(Entry)]
      BY EmptySeq DEF IInv, TypeOK, Commit, Finish
    <2>2. items' \in [Items -> Entry \union {NoRow, Deleted}]
      BY <1>0, <1>2 DEF IInv, TypeOK, Commit
    <2>3. pc' \in [Handlers -> PC] /\ answer' \in [Handlers -> Answers]
      BY SMTT(30) DEF IInv, TypeOK, Commit, Finish, PC, Answers
    <2>4. history' \in [Items -> Seq(Entry)]
      BY <1>0, <1>2, <1>3, <1>4 DEF IInv, TypeOK, Commit
    <2> QED BY <1>1, <2>1, <2>2, <2>3, <2>4 DEF IInv, TypeOK
  <1>6. /\ Exists(i)' /\ \A j \in Items \ {i} : Exists(j)' = Exists(j) /\ Log(j)' = Log(j)
        /\ Log(i)' = Append(Log(i), e) /\ Log(i) \in Seq(Entry) /\ Len(Log(i)) = n
        /\ Log(i) = history'[i]
    <2>1. Exists(i)' /\ \A j \in Items \ {i} : Exists(j)' = Exists(j) /\ Log(j)' = Log(j)
      BY <1>2, <1>3 DEF Exists, Log
    <2>2. Log(i) = history'[i] /\ Log(i)' = Append(history'[i], e)
      BY <1>2, <1>3, <1>4, <2>1, SMTT(30) DEF Log
    <2>3. Len(history'[i]) = n
      BY <1>2, <1>3, <1>4 DEF IInv, HistoryExact
    <2> QED BY <1>4, <2>1, <2>2, <2>3
  <1>7. HistoryExact'
    <2>1. Len(history'[i]) = items'[i].version - 1
      BY <1>2, <1>3, <1>6
    <2>2. \A m \in 1..Len(history'[i]) : history'[i][m].version = m
      BY <1>2, <1>3, <1>4, SMTT(30) DEF IInv, HistoryExact
    <2> QED BY <1>3, <1>6, <2>1, <2>2 DEF IInv, HistoryExact
  <1>8. AuthorsHaveAccess'
    <2>1. \A m \in 1..Len(Log(i)) : Log(i)[m].by \in Access[VaultOf[i]]
      BY <1>2 DEF IInv, AuthorsHaveAccess
    <2>2. \A m \in 1..Len(Log(i)') : Log(i)'[m].by \in Access[VaultOf[i]]
      BY <1>2, <1>6, <2>1
    <2> QED BY <1>6, <2>2 DEF IInv, AuthorsHaveAccess
  <1>9. NoOrphans'
    BY <1>3, <1>6 DEF IInv, NoOrphans
  <1>10. Requests' /\ Progress'
    BY <1>0, <1>1, <1>2 DEF IInv, Requests, Progress
  <1>11. FreshIds'
    <2>1. \A g \in Handlers : pc'[g] \in {"access", "insert"} /\ req[g].op = "create" =>
            g # h /\ req[g].item \in Items \ {i}
      BY <1>0, <1>1, <1>2 DEF IInv, FreshIds, Requests
    <2> QED BY <1>0, <1>1, <1>2, <1>3, <2>1 DEF IInv, FreshIds
  <1>12. Causal'
    <2>1. items[i] # NoRow /\ items'[i] # NoRow /\ items'[i].version = n + 1
      BY <1>2, <1>3, SentinelAssumption
    <2>2. \A u \in Users, j \in Items : /\ items'[j] = NoRow => known[u][j] = 0
                                        /\ Exists(j)' => known[u][j] <= items'[j].version
      <3>1. \A u \in Users : known[u][i] <= n /\ known[u][i] \in Nat
        BY <1>2 DEF IInv, Causal, TypeOK
      <3>2. \A u \in Users : known[u][i] <= n + 1
        <4> TAKE u \in Users
        <4>1. n \in Nat /\ known[u][i] \in Nat /\ known[u][i] <= n
          BY <1>2, <3>1
        <4>2. \A x, y \in Nat : x <= y => x <= y + 1
          OBVIOUS
        <4> QED BY <4>1, <4>2
      <3>3. ASSUME NEW u \in Users, NEW j \in Items \ {i}
            PROVE  /\ items'[j] = NoRow => known[u][j] = 0
                   /\ Exists(j)' => known[u][j] <= items'[j].version
        BY <1>3, <1>6, SMTT(30) DEF IInv, Causal
      <3> QED BY <2>1, <3>2, <3>3
    <2>3. \A g \in Handlers : pc'[g] # "idle" => pc[g] # "idle" /\ req[g].item \in Items
      BY <1>1 DEF IInv, Requests
    <2>4. ASSUME NEW g \in Handlers, pc'[g] # "idle", req[g].op = "update"
          PROVE  /\ items'[req[g].item] # NoRow
                 /\ req[g].user \in Access[VaultOf[req[g].item]] =>
                      /\ req[g].version <= known[req[g].user][req[g].item]
                      /\ items'[req[g].item] \in Entry =>
                           req[g].version <= items'[req[g].item].version
      <3>1. CASE req[g].item = i
        <4>1. req[g].version \in Nat
          BY <2>3, <2>4 DEF IInv, Requests
        <4>2. req[g].user \in Access[VaultOf[i]] =>
                req[g].version <= n /\ req[g].version <= known[req[g].user][i]
          BY <1>2, <2>3, <2>4, <3>1 DEF IInv, Causal
        <4> QED BY <1>2, <2>1, <3>1, <4>1, <4>2
      <3>2. CASE req[g].item # i
        BY <1>3, <2>3, <2>4, <3>2 DEF IInv, Causal, Exists
      <3> QED BY <3>1, <3>2
    <2>5. ASSUME NEW g \in Handlers, pc'[g] = "reply", answer'[g] = "ok", req[g].op = "create"
          PROVE  items'[req[g].item] # NoRow
      <3>1. g # h /\ items[req[g].item] # NoRow
        BY <1>0, <1>1, <1>2, <2>5 DEF IInv, Causal
      <3> QED BY <1>3, <2>1, <2>3, <2>5, <3>1
    <2> QED BY <1>1, <2>2, <2>4, <2>5 DEF Causal, Exists
  <1>13. Locks' /\ CopyIsCurrent'
    <2>1. \A g \in Handlers : pc'[g] = "commit" => g # h /\ req[g].item \in Items \ {i}
      BY <1>0, <1>1, <1>2 DEF IInv, Requests
    <2>2. ASSUME NEW g \in Handlers, pc'[g] = "commit"
          PROVE  /\ pc[g] = "commit" /\ copy'[g] = copy[g]
                 /\ items'[req[g].item] = items[req[g].item]
      BY <1>1, <1>3, <2>1, <2>2
    <2>3. Locks'
      BY <1>1, <2>2 DEF IInv, Locks, Exists
    <2>4. CopyIsCurrent'
      BY <1>1, <2>2, SMTT(30) DEF IInv, CopyIsCurrent, Exists
    <2> QED BY <2>3, <2>4
  <1>14. Copies'
    <2>1. ASSUME NEW g \in Handlers, pc'[g] = "update", req[g].item = i
          PROVE  /\ Len(copy'[g]) = 1 /\ copy'[g][1] \in Entry
                 /\ copy'[g][1].version >= req[g].version
                 /\ copy'[g][1].version <= n
      BY <1>0, <1>1, <1>2, <2>1 DEF IInv, Copies
    <2>2. ASSUME NEW g \in Handlers, pc'[g] = "update", req[g].item # i
          PROVE  req[g].item \in Items \ {i} /\ copy'[g] = copy[g] /\ pc[g] = "update"
      BY <1>0, <1>1, <2>2 DEF IInv, Requests
    <2>3. \A x \in Entry : x.version \in Nat
      BY DEF Entry
    <2> QED BY <1>0, <1>1, <1>2, <1>3, <2>1, <2>2, <2>3 DEF IInv, Copies, Exists
  <1>15. AcknowledgedIsKept'
    <2>1. ASSUME NEW g \in Handlers \ {h}, pc[g] = "reply", answer[g] = "ok",
                 req[g].op \in {"create", "update"}, req[g].item = i
          PROVE  /\ req[g].version < Len(Log(i)')
                 /\ Log(i)'[req[g].version + 1] =
                      [data |-> req[g].data, version |-> req[g].version + 1, by |-> req[g].user]
      <3>1. /\ req[g].version \in Nat /\ req[g].version < Len(Log(i))
            /\ Log(i)[req[g].version + 1] =
                 [data |-> req[g].data, version |-> req[g].version + 1, by |-> req[g].user]
        BY <1>2, <2>1 DEF IInv, AcknowledgedIsKept, Requests
      <3> QED BY <1>2, <1>6, <3>1
    <2>2. n < Len(Log(i)') /\ Log(i)'[n + 1] = e
      BY <1>2, <1>6
    <2>3. ASSUME NEW g \in Handlers, pc'[g] = "reply", answer'[g] = "ok",
                 req[g].op \in {"create", "update"}, Exists(req[g].item)'
          PROVE  /\ req[g].version < Len(Log(req[g].item)')
                 /\ Log(req[g].item)'[req[g].version + 1] =
                      [data |-> req[g].data, version |-> req[g].version + 1, by |-> req[g].user]
      <3>1. CASE g = h
        BY <1>0, <1>1, <2>2, <3>1
      <3>2. CASE g # h /\ req[g].item = i
        BY <1>1, <2>1, <2>3, <3>2
      <3>3. CASE g # h /\ req[g].item # i
        <4>1. pc[g] = "reply" /\ answer[g] = "ok" /\ req[g].item \in Items \ {i} /\ req'[g] = req[g]
          BY <1>1, <2>3, <3>3 DEF IInv, Requests
        <4> QED BY <1>6, <2>3, <4>1 DEF IInv, AcknowledgedIsKept
      <3> QED BY <3>1, <3>2, <3>3
    <2> QED BY <1>1, <2>3 DEF AcknowledgedIsKept
  <1> QED BY <1>5, <1>7, <1>8, <1>9, <1>10, <1>11, <1>12, <1>13, <1>14, <1>15 DEF IInv

\* What a removal of the items in I has to keep true, whoever removes them.
LEMMA RemovalStep ==
  ASSUME IInv, NEW I \in SUBSET Items, UNCHANGED <<known, req>>,
         TypeOK', Requests', Progress',
         \A i \in I : items'[i] = Deleted /\ Exists(i) /\ history'[i] = << >> /\ ~KeyShared(i),
         \A i \in Items \ I : items'[i] = items[i] /\ history'[i] = history[i],
         \A g \in Handlers : pc'[g] = pc[g] \/ (pc[g] # "idle" /\ pc'[g] = "reply"),
         \A g \in Handlers : pc'[g] \in {"update", "commit"} => copy'[g] = copy[g],
         \A g \in Handlers : pc'[g] = "reply" /\ answer'[g] = "ok" /\ req[g].op # "delete" =>
             pc[g] = "reply" /\ answer[g] = "ok"
  PROVE  IInv'
  <1>1. /\ \A i \in I : ~Exists(i)' /\ items[i] # NoRow /\ items'[i] # NoRow
        /\ \A i \in Items \ I : Exists(i)' = Exists(i) /\ Log(i)' = Log(i)
    BY SentinelAssumption DEF Exists, Log
  <1>2. \A g \in Handlers : pc'[g] # "idle" => pc[g] # "idle" /\ req[g].item \in Items
    <2>1. \A g \in Handlers : pc'[g] # "idle" => pc[g] # "idle"
      OBVIOUS
    <2> QED BY <2>1 DEF IInv, Requests
  <1>3. \A g \in Handlers : pc'[g] \in {"update", "commit"} => req[g].item \in Items \ I
    BY <1>2 DEF KeyShared, IInv, Copies, CopyIsCurrent
  <1>4. NoOrphans' /\ HistoryExact' /\ AuthorsHaveAccess'
    BY <1>1 DEF IInv, NoOrphans, HistoryExact, AuthorsHaveAccess
  <1>5. Causal'
    BY <1>1, <1>2 DEF IInv, Causal
  <1>6. FreshIds'
    BY <1>1, <1>2 DEF IInv, FreshIds
  <1>7. Copies' /\ Locks' /\ CopyIsCurrent'
    BY <1>1, <1>3 DEF IInv, Copies, Locks, CopyIsCurrent
  <1>8. AcknowledgedIsKept'
    BY <1>1, <1>2 DEF IInv, AcknowledgedIsKept
  <1> QED BY <1>4, <1>5, <1>6, <1>7, <1>8 DEF IInv

\* A delete removes one item that no open transaction has copied, or none.
LEMMA DeleteStep == ASSUME IInv, NEW h \in Handlers, Delete(h) PROVE IInv'
  <1> DEFINE i == req[h].item
  <1>1. /\ UNCHANGED <<vaults, known, req>>
        /\ \A g \in Handlers \ {h} : /\ pc'[g] = pc[g] /\ copy'[g] = copy[g]
                                      /\ answer'[g] = answer[g]
        /\ pc[h] = "delete" /\ pc'[h] = "reply" /\ copy'[h] = << >>
        /\ answer'[h] \in {"ok", "not_found"} /\ ~KeyShared(i)
    BY DEF IInv, TypeOK, Delete, Finish
  <1>2. i \in Items /\ req[h].op = "delete"
    BY <1>1 DEF IInv, Requests, Progress
  <1>3. TypeOK'
    <2>1. copy' \in [Handlers -> Seq(Entry)]
      BY EmptySeq DEF IInv, TypeOK, Delete, Finish
    <2>2. items' \in [Items -> Entry \union {NoRow, Deleted}]
      BY DEF IInv, TypeOK, Delete
    <2>3. pc' \in [Handlers -> PC] /\ answer' \in [Handlers -> Answers]
      BY DEF IInv, TypeOK, Delete, Finish, PC, Answers
    <2>4. history' \in [Items -> Seq(Entry)]
      BY EmptySeq DEF IInv, TypeOK, Delete
    <2> QED BY <1>1, <2>1, <2>2, <2>3, <2>4 DEF IInv, TypeOK
  <1>4. Requests' /\ Progress'
    BY <1>1, <1>2 DEF IInv, Requests, Progress
  <1>7. /\ \A g \in Handlers : pc'[g] = pc[g] \/ (pc[g] # "idle" /\ pc'[g] = "reply")
        /\ \A g \in Handlers : pc'[g] \in {"update", "commit"} => copy'[g] = copy[g]
        /\ \A g \in Handlers : pc'[g] = "reply" /\ answer'[g] = "ok" /\ req[g].op # "delete" =>
             pc[g] = "reply" /\ answer[g] = "ok"
    BY <1>1, <1>2
  <1>5. CASE Exists(i)
    <2>1. /\ items'[i] = Deleted /\ history'[i] = << >>
          /\ \A j \in Items \ {i} : items'[j] = items[j] /\ history'[j] = history[j]
      BY <1>2, <1>5 DEF IInv, TypeOK, Delete
    <2> DEFINE I == {i}
    <2>2. I \in SUBSET Items
      BY <1>2
    <2>3. /\ \A j \in I : items'[j] = Deleted /\ Exists(j) /\ history'[j] = << >> /\ ~KeyShared(j)
          /\ \A j \in Items \ I : items'[j] = items[j] /\ history'[j] = history[j]
      BY <1>1, <1>5, <2>1
    <2> HIDE DEF I
    <2> QED BY <1>1, <1>2, <1>3, <1>4, <1>7, <2>2, <2>3, RemovalStep
  <1>6. CASE ~Exists(i)
    <2>1. UNCHANGED <<items, history>>
      BY <1>6 DEF Delete
    <2> DEFINE I == {}
    <2>3. /\ I \in SUBSET Items
          /\ \A j \in I : items'[j] = Deleted /\ Exists(j) /\ history'[j] = << >> /\ ~KeyShared(j)
          /\ \A j \in Items \ I : items'[j] = items[j] /\ history'[j] = history[j]
      BY <2>1
    <2> HIDE DEF I
    <2> QED BY <1>1, <1>2, <1>3, <1>4, <1>7, <2>3, RemovalStep
  <1> QED BY <1>5, <1>6

\* A vault goes with all its items.
LEMMA DeleteVaultStep == ASSUME IInv, NEW v \in Vaults, DeleteVault(v) PROVE IInv'
  <1> DEFINE I == {i \in Items : VaultOf[i] = v /\ Exists(i)}
  <1>1. UNCHANGED <<known, pc, req, copy, answer>>
    BY DEF DeleteVault
  <1>2. /\ I \in SUBSET Items
        /\ \A i \in I : items'[i] = Deleted /\ Exists(i) /\ history'[i] = << >> /\ ~KeyShared(i)
        /\ \A i \in Items \ I : items'[i] = items[i] /\ history'[i] = history[i]
    BY DEF DeleteVault, IInv, NoOrphans
  <1>3. TypeOK'
    <2>1. items' \in [Items -> Entry \union {NoRow, Deleted}]
      BY DEF IInv, TypeOK, DeleteVault
    <2>2. history' \in [Items -> Seq(Entry)]
      BY EmptySeq DEF IInv, TypeOK, DeleteVault
    <2>3. vaults' \subseteq Vaults
      BY DEF IInv, TypeOK, DeleteVault
    <2> QED BY <1>1, <2>1, <2>2, <2>3 DEF IInv, TypeOK
  <1>4. Requests' /\ Progress'
    BY <1>1 DEF IInv, Requests, Progress
  <1>5. \A g \in Handlers : pc'[g] = pc[g] /\ copy'[g] = copy[g] /\ answer'[g] = answer[g]
    BY <1>1
  <1> HIDE DEF I
  <1> QED BY <1>1, <1>2, <1>3, <1>4, <1>5, RemovalStep

\* Every step of the store keeps the invariant.
LEMMA NextIInv == IInv /\ [Next]_vars => IInv'
  <1> SUFFICES ASSUME IInv, [Next]_vars PROVE IInv'
    OBVIOUS
  <1>1. ASSUME NEW h \in Handlers,
               SendCreate(h) \/ SendUpdate(h) \/ SendDelete(h) \/ Serve(h) \/ Abort(h)
        PROVE  IInv'
    BY <1>1, SendCreateStep, SendUpdateStep, SendDeleteStep, AbortStep,
       VerifyAccessStep, InsertStep, GetByIDStep, SnapshotStep, UpdateStep,
       CommitStep, DeleteStep, ReplyStep
    DEF Serve
  <1>2. ASSUME NEW u \in Users, NEW v \in Vaults, ListByVault(u, v) PROVE IInv'
    BY <1>2, ListByVaultStep
  <1>3. ASSUME NEW v \in Vaults, DeleteVault(v) PROVE IInv'
    BY <1>3, DeleteVaultStep
  <1>4. CASE UNCHANGED vars
    <2>1. /\ \A i \in Items : Exists(i)' = Exists(i) /\ Log(i)' = Log(i)
          /\ NoOrphans' /\ HistoryExact' /\ AuthorsHaveAccess'
      BY <1>4, StoreUnchanged DEF vars
    <2>2. AcknowledgedIsKept'
      BY <1>4, NoNewAnswer DEF vars
    <2>3. TypeOK' /\ Requests' /\ Progress' /\ FreshIds' /\ Locks' /\ CopyIsCurrent'
      BY <1>4 DEF vars, IInv, TypeOK, Requests, Progress, FreshIds, Locks,
                  CopyIsCurrent, Exists
    <2>4. Causal' /\ Copies'
      BY <1>4 DEF vars, IInv, Causal, Copies, Exists
    <2> QED BY <2>1, <2>2, <2>3, <2>4 DEF IInv
  <1> QED BY <1>1, <1>2, <1>3, <1>4 DEF Next

\* The inductive invariant holds in every reachable state.
THEOREM Invariance == Spec => []IInv
  BY InitIInv, NextIInv, PTL DEF Spec

\* The tables, the requests and the handlers keep their types.
THEOREM TypeCorrect == Spec => []TypeOK
  <1>1. IInv => TypeOK
    BY DEF IInv
  <1> QED BY <1>1, Invariance, PTL

\* However the transactions of any number of handlers interleave, abort or
\* conflict, item_history holds versions 1 to n-1 of an item at version n,
\* each exactly once.
THEOREM HistoryIsExact == Spec => []HistoryExact
  <1>1. IInv => HistoryExact
    BY DEF IInv
  <1> QED BY <1>1, Invariance, PTL

\* A transaction that is about to commit replaces the very row it archived.
THEOREM CopyIsOfReplacedRow == Spec => []CopyIsCurrent
  <1>1. IInv => CopyIsCurrent
    BY DEF IInv
  <1> QED BY <1>1, Invariance, PTL

\* A write that is acknowledged is found in the item until the item is deleted.
THEOREM AcknowledgedWritesAreKept == Spec => []AcknowledgedIsKept
  <1>1. IInv => AcknowledgedIsKept
    BY DEF IInv
  <1> QED BY <1>1, Invariance, PTL

\* Whatever version anybody sends, and under the path of whatever vault: only users
\* with access to the vault of an item write versions of it or get to its DELETE.
THEOREM OutsidersNeverChangeAnything == Spec => []OutsidersChangeNothing
  <1>1. IInv => OutsidersChangeNothing
    BY DEF IInv, OutsidersChangeNothing, Progress
  <1> QED BY <1>1, Invariance, PTL

-----------------------------------------------------------------------------
(* Refinement: the append-only log. *)

AbsLog == [i \in Items |-> Log(i)]
AbsGone == {i \in Items : items[i] = Deleted}

\* Empty tables are empty logs.
LEMMA InitImplements == Init => Abs!Init
  BY SentinelAssumption DEF Init, Abs!Init, Log, Exists

\* A committed create or update is one Write, on top of what its author knew.
LEMMA InsertImplements ==
  ASSUME IInv, NEW h \in Handlers, Insert(h) PROVE [Abs!Next]_(Abs!vars)
  <1>0. PICK r : r = req[h]
    OBVIOUS
  <1> DEFINE i == r.item
             e == [data |-> r.data, version |-> 1, by |-> r.user]
  <1>1. /\ i \in Items /\ r.user \in Users /\ r.data \in Data
        /\ e \in Entry /\ r.user \in Access[VaultOf[i]] /\ items[i] = NoRow
        /\ known[r.user][i] = 0 /\ ~Exists(i) /\ history[i] = << >>
        /\ UNCHANGED <<history, known>>
    BY <1>0, SentinelAssumption
    DEF Insert, IInv, Requests, Progress, FreshIds, Causal, NoOrphans, Exists, Entry
  <1>2. CASE UNCHANGED items
    BY <1>1, <1>2 DEF Abs!vars, Log, Exists
  <1>3. CASE items' # items
    <2>1. items' = [items EXCEPT ![i] = e]
      BY <1>0, <1>3 DEF Insert
    <2>2. /\ items'[i] = e /\ \A j \in Items \ {i} : items'[j] = items[j]
      BY <1>1, <2>1 DEF IInv, TypeOK
    <2>3. /\ Log(i) = << >> /\ Log(i)' = Append(Log(i), e)
          /\ \A j \in Items \ {i} : Log(j)' = Log(j)
      BY <1>1, <2>2 DEF Log, Exists
    <2>4. AbsLog' = [AbsLog EXCEPT ![i] = 
                                Append(@, [data |-> r.data, version |-> Len(@) + 1,
                                           by |-> r.user])]
      <3>1. Len(<< >>) + 1 = 1
        OBVIOUS
      <3> QED BY <1>1, <2>3, <3>1 DEF AbsLog
    <2>5. AbsGone' = AbsGone /\ i \notin AbsGone
      BY <1>1, <2>2, SentinelAssumption DEF AbsGone
    <2>6. known[r.user][i] >= Len(AbsLog[i])
      BY <1>1, <2>3 DEF AbsLog
    <2>7. Abs!Write(r.user, i, r.data)
      BY <1>1, <2>4, <2>5, <2>6 DEF Abs!Write, AbsLog, AbsGone
    <2> QED BY <1>1, <2>7 DEF Abs!Next
  <1> QED BY <1>2, <1>3

\* A committed update writes the next version, over one its author was told.
LEMMA CommitImplements ==
  ASSUME IInv, NEW h \in Handlers, Commit(h) PROVE [Abs!Next]_(Abs!vars)
  <1>0. PICK r : r = req[h]
    OBVIOUS
  <1> DEFINE i == r.item
             n == r.version
             e == [data |-> r.data, version |-> n + 1, by |-> r.user]
  <1>1. /\ i \in Items /\ r.user \in Users /\ r.data \in Data /\ n \in Nat
        /\ e \in Entry /\ r.user \in Access[VaultOf[i]]
        /\ n <= known[r.user][i]
        /\ Exists(i) /\ items[i] \in Entry /\ items[i].version = n
        /\ copy[h] = <<items[i]>> /\ UNCHANGED known
    BY <1>0, SMTT(30)
    DEF Commit, IInv, Requests, Progress, Locks, Causal, CopyIsCurrent, Exists, Entry
  <1>2. /\ items'[i] = e /\ \A j \in Items \ {i} : items'[j] = items[j]
        /\ history'[i] = history[i] \o <<items[i]>>
        /\ \A j \in Items \ {i} : history'[j] = history[j]
    BY <1>0, <1>1 DEF IInv, TypeOK, Commit
  <1>3. /\ Log(i)' = Append(Log(i), e) /\ Len(Log(i)) = n
        /\ \A j \in Items \ {i} : Log(j)' = Log(j)
    <2>1. history[i] \in Seq(Entry) /\ Len(history[i]) = n - 1
      BY <1>1 DEF IInv, TypeOK, HistoryExact
    <2>2. Log(i) = history'[i] /\ Len(history'[i]) = n
      <3>1. \A s \in Seq(Entry), x \in Entry :
              Append(s, x) = s \o <<x>> /\ Len(s \o <<x>>) = Len(s) + 1
        OBVIOUS
      <3>2. n - 1 + 1 = n
        BY <1>1
      <3> QED BY <1>1, <1>2, <2>1, <3>1, <3>2 DEF Log
    <2> QED BY <1>1, <1>2, <2>2 DEF Log, Exists
  <1>4. AbsLog' = [AbsLog EXCEPT ![i] = 
                                Append(@, [data |-> r.data, version |-> Len(@) + 1,
                                           by |-> r.user])]
    BY <1>1, <1>3 DEF AbsLog
  <1>5. AbsGone' = AbsGone /\ i \notin AbsGone
    BY <1>1, <1>2, SentinelAssumption DEF AbsGone
  <1>6. known[r.user][i] >= Len(AbsLog[i])
    BY <1>1, <1>3 DEF AbsLog
  <1>7. Abs!Write(r.user, i, r.data)
    BY <1>1, <1>4, <1>5, <1>6 DEF Abs!Write, AbsLog, AbsGone
  <1> QED BY <1>1, <1>7 DEF Abs!Next

\* The removal of the items in I is one Remove.
LEMMA RemovalImplements ==
  ASSUME IInv, NEW I \in SUBSET Items, UNCHANGED known,
         \A i \in I : items'[i] = Deleted /\ Exists(i),
         \A i \in Items \ I : items'[i] = items[i] /\ history'[i] = history[i]
  PROVE  [Abs!Next]_(Abs!vars)
  <1>1. \A i \in I : Log(i) # << >> /\ Log(i)' = << >>
    <2> TAKE i \in I
    <2>1. Len(Log(i)) = Len(history[i]) + 1 /\ Log(i) \in Seq(Entry) /\ history[i] \in Seq(Entry)
      BY LogOfItem DEF IInv, TypeOK
    <2>2. Log(i) # << >>
      BY <2>1
    <2>3. Log(i)' = << >>
      BY SentinelAssumption DEF Log, Exists
    <2> QED BY <2>2, <2>3
  <1>2. \A i \in Items \ I : Log(i)' = Log(i)
    BY DEF Log, Exists
  <1>3. AbsLog' = [i \in Items |-> IF i \in I THEN << >> ELSE AbsLog[i]]
    BY <1>1, <1>2 DEF AbsLog
  <1>4. AbsGone' = AbsGone \union I
    BY DEF AbsGone
  <1>5. Abs!Remove(I)
    BY <1>1, <1>3, <1>4 DEF Abs!Remove, AbsLog, AbsGone
  <1> QED BY <1>5 DEF Abs!Next

\* An answer that arrives tells its user versions the item has had.
LEMMA TellImplements ==
  ASSUME IInv, UNCHANGED <<items, history>>, NEW u \in Users,
         known' \in [Users -> [Items -> Nat]],
         \A w \in Users \ {u} : known'[w] = known[w],
         \A i \in Items : \/ known'[u][i] = known[u][i]
                          \/ /\ known'[u][i] > known[u][i]
                             /\ items[i] # NoRow
                             /\ Exists(i) => known'[u][i] <= items[i].version
  PROVE  [Abs!Next]_(Abs!vars)
  <1>1. AbsLog' = AbsLog /\ AbsGone' = AbsGone
    BY DEF AbsLog, AbsGone, Log, Exists
  <1>2. \A i \in Items : Exists(i) => Len(AbsLog[i]) = items[i].version
    <2> SUFFICES ASSUME NEW i \in Items, Exists(i) PROVE Len(Log(i)) = items[i].version
      BY DEF AbsLog
    <2>1. TypeOK /\ items[i].version \in Nat /\ Len(history[i]) = items[i].version - 1
      BY DEF IInv, HistoryExact, Exists, Entry
    <2> QED BY <2>1, LogOfItem
  <1>3. \A i \in Items : items[i] # NoRow /\ ~Exists(i) => i \in AbsGone
    BY DEF IInv, TypeOK, Exists, AbsGone
  <1>4. Abs!Tell(u)
    BY <1>1, <1>2, <1>3 DEF Abs!Tell, AbsLog, AbsGone
  <1> QED BY <1>4 DEF Abs!Next

\* Every step of the store is a step of the log, or none.
LEMMA NextImplements == IInv /\ [Next]_vars => [Abs!Next]_(Abs!vars)
  <1> SUFFICES ASSUME IInv, [Next]_vars PROVE [Abs!Next]_(Abs!vars)
    OBVIOUS
  <1>1. ASSUME UNCHANGED <<items, history, known>> PROVE [Abs!Next]_(Abs!vars)
    BY <1>1 DEF Abs!vars, Log, Exists
  <1>2. ASSUME NEW h \in Handlers,
               \/ SendCreate(h) \/ SendUpdate(h) \/ SendDelete(h) \/ Abort(h)
               \/ VerifyAccess(h) \/ GetByID(h) \/ Snapshot(h) \/ Update(h)
        PROVE  UNCHANGED <<items, history, known>>
    BY <1>2 DEF SendCreate, SendUpdate, SendDelete, Send, Abort, VerifyAccess, GetByID,
                Snapshot, Update
  <1>3. ASSUME NEW h \in Handlers, Delete(h) PROVE [Abs!Next]_(Abs!vars)
    <2>0. PICK i : i = req[h].item
      OBVIOUS
    <2>1. i \in Items
      BY <1>3, <2>0 DEF Delete, IInv, Requests
    <2>2. CASE Exists(i)
      <3>1. /\ items'[i] = Deleted /\ UNCHANGED known
            /\ \A j \in Items \ {i} : items'[j] = items[j] /\ history'[j] = history[j]
        BY <1>3, <2>0, <2>1, <2>2 DEF Delete, IInv, TypeOK
      <3> DEFINE I == {i}
      <3>2. /\ I \in SUBSET Items /\ \A j \in I : items'[j] = Deleted /\ Exists(j)
            /\ \A j \in Items \ I : items'[j] = items[j] /\ history'[j] = history[j]
        BY <2>1, <2>2, <3>1
      <3> HIDE DEF I
      <3> QED BY <3>1, <3>2, RemovalImplements
    <2>3. CASE ~Exists(i)
      BY <1>1, <1>3, <2>0, <2>3 DEF Delete
    <2> QED BY <2>2, <2>3
  <1>4. ASSUME NEW h \in Handlers, Reply(h) PROVE [Abs!Next]_(Abs!vars)
    <2>1. CASE UNCHANGED known
      BY <1>1, <1>4, <2>1 DEF Reply
    <2>2. CASE known' # known
      <3>0. PICK r : r = req[h]
        OBVIOUS
      <3>1. /\ known' = [known EXCEPT ![r.user][r.item] = r.version + 1]
            /\ r.version + 1 > known[r.user][r.item] /\ r.op # "delete"
            /\ pc[h] = "reply" /\ answer[h] = "ok" /\ UNCHANGED <<items, history>>
        BY <1>4, <2>2, <3>0 DEF Reply
      <3>2. /\ r.user \in Users /\ r.item \in Items /\ r.version \in Nat
            /\ r.op \in {"create", "update"} /\ items[r.item] # NoRow
        BY <3>0, <3>1 DEF IInv, Requests, Causal
      <3>3. Exists(r.item) => r.version + 1 <= items[r.item].version
        <4> SUFFICES ASSUME Exists(r.item) PROVE r.version + 1 <= items[r.item].version
          OBVIOUS
        <4>1. r.version < Len(Log(r.item))
          BY <3>0, <3>1, <3>2 DEF IInv, AcknowledgedIsKept
        <4>2. TypeOK /\ items[r.item].version \in Nat
              /\ Len(history[r.item]) = items[r.item].version - 1
          BY <3>2 DEF IInv, HistoryExact, Exists, Entry
        <4>3. Len(Log(r.item)) = items[r.item].version
          BY <3>2, <4>2, LogOfItem
        <4> QED BY <3>2, <4>1, <4>2, <4>3
      <3>4. /\ known' \in [Users -> [Items -> Nat]]
            /\ \A w \in Users \ {r.user} : known'[w] = known[w]
            /\ known'[r.user][r.item] = r.version + 1
            /\ \A i \in Items \ {r.item} : known'[r.user][i] = known[r.user][i]
        BY <3>1, <3>2 DEF IInv, TypeOK
      <3> QED BY <3>1, <3>2, <3>3, <3>4, TellImplements
    <2> QED BY <2>1, <2>2
  <1>5. ASSUME NEW u \in Users, NEW v \in Vaults, ListByVault(u, v)
        PROVE  [Abs!Next]_(Abs!vars)
    <2>1. /\ UNCHANGED <<items, history>>
          /\ known' \in [Users -> [Items -> Nat]]
          /\ \A w \in Users \ {u} : known'[w] = known[w]
          /\ \A i \in Items : \/ known'[u][i] = known[u][i]
                              \/ Exists(i) /\ known'[u][i] = items[i].version
      BY <1>5 DEF ListByVault, IInv, TypeOK, Exists, Entry
    <2>2. \A i \in Items : /\ known[u][i] \in Nat /\ known'[u][i] \in Nat
                           /\ Exists(i) => /\ known[u][i] <= items[i].version
                                           /\ items[i].version \in Nat /\ items[i] # NoRow
      BY <2>1, SentinelAssumption DEF IInv, Causal, TypeOK, Exists, Entry
    <2>3. \A i \in Items : \/ known'[u][i] = known[u][i]
                           \/ /\ known'[u][i] > known[u][i]
                              /\ items[i] # NoRow
                              /\ Exists(i) => known'[u][i] <= items[i].version
      <3> TAKE i \in Items
      <3>1. CASE Exists(i) /\ known'[u][i] = items[i].version
        <4>1. \A x, y \in Nat : x <= y => y = x \/ y > x
          OBVIOUS
        <4> QED BY <2>2, <3>1, <4>1
      <3> QED BY <2>1, <3>1
    <2> QED BY <2>1, <2>3, TellImplements
  <1>6. ASSUME NEW v \in Vaults, DeleteVault(v) PROVE [Abs!Next]_(Abs!vars)
    <2> DEFINE I == {i \in Items : VaultOf[i] = v /\ Exists(i)}
    <2>1. /\ UNCHANGED known /\ I \in SUBSET Items
          /\ \A i \in I : items'[i] = Deleted /\ Exists(i)
          /\ \A i \in Items \ I : items'[i] = items[i] /\ history'[i] = history[i]
      BY <1>6 DEF DeleteVault, IInv, NoOrphans
    <2> HIDE DEF I
    <2> QED BY <2>1, RemovalImplements
  <1>7. CASE UNCHANGED vars
    BY <1>1, <1>7 DEF vars
  <1> QED BY <1>1, <1>2, <1>3, <1>4, <1>5, <1>6, <1>7, InsertImplements, CommitImplements
      DEF Next, Serve

\* The SQL statements of item_repo.go, interleaved as READ COMMITTED allows,
\* implement an append-only log per item: every behaviour of the store is one
\* of ItemLog.
THEOREM Refinement == Spec => ImplementsItemLog
  BY InitImplements, NextImplements, Invariance, PTL DEF Spec, ImplementsItemLog, Abs!Spec
=============================================================================

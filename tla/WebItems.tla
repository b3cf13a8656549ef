------------------------------ MODULE WebItems ------------------------------
(***************************************************************************)
(* The items of the web client (web/app.js): a page that shows one vault   *)
(* and one item of it, and edits, moves, imports and restores items, while *)
(* another client edits and deletes items of the same vaults.              *)
(*                                                                         *)
(* An operation of the page is an async function, cut at its awaits: the   *)
(* key of a vault, WebCrypto, a request.  The variables currentVault,      *)
(* currentItem, items and editingItem are globals, which an operation      *)
(* reads again after an await.  Each member of Ops is an operation that    *)
(* may be under way: with one of them, the user waits for each operation   *)
(* to end; with two, the user goes on clicking meanwhile.                  *)
(*                                                                         *)
(* The server answers a request at once; how it does is the subject of     *)
(* ItemStore.  A request, or its answer, may be lost.                      *)
(***************************************************************************)
EXTENDS Naturals, FiniteSets

CONSTANTS
    Ops, Vaults, Items,
    Personal,    \* the vaults whose items are encrypted under the user's own key
    Home,        \* Home[i]: the vault item i is in at first, or None
    MaxVersion,  \* bound: versions of an item
    MaxImport,   \* bound: items of an imported file
    Covered,     \* the user opens nothing else while the history of an item shows
    Own,         \* the user's own key
    New,         \* the content of an item that has no other
    Blank,       \* what a page shows that could not decrypt
    Gone, None

ASSUME WebItemsAssumption ==
    /\ Personal \subseteq Vaults
    /\ Home \in [Items -> Vaults \union {None}]
    /\ {MaxVersion, MaxImport} \subseteq Nat \ {0}
    /\ Covered \in BOOLEAN

VARIABLES
    rows,          \* rows[i]: item i at the server
    currentVault, items, currentItem,
    editingItem,   \* the form: the item it edits, and what it was filled with
    historyItem,   \* what the entries of the history are versions of, if it shows
    cached,        \* the vaults whose keys the page has
    op             \* op[o]: the operation o

page == <<currentVault, items, currentItem, editingItem, historyItem, cached>>
vars == <<rows, page, op>>

KeyOf(v) == IF v \in Personal THEN Own ELSE v

\* A row: what is encrypted in it (by the item it was first entered for), under
\* which key, and the version its author had before them.
Contents == Items \union {New, Blank}
Version == 0..MaxVersion
Row == [vault : Vaults, key : Vaults \union {Own}, of : Contents,
        seen : Version, version : Version]

\* An item as the page has it: a row, and, once decrypted, its _data.
Data == [of : Contents, seen : Version]
Item == [id : Items, key : Vaults \union {Own}, of : Contents, version : Version,
         data : Data \union {None}]

Show(i) == [id |-> i, key |-> rows[i].key, of |-> rows[i].of, version |-> rows[i].version,
            data |-> None]
Decrypted(k, it) == [of |-> IF k = it.key THEN it.of ELSE Blank, seen |-> it.version]

\* The requests that matter here, without a body unless they have one.
Request == [verb : {"list", "history", "delete", "post", "put"}, vault : Vaults,
            id : Items \union {None}, key : Vaults \union {Own, None},
            data : Data \union {None}, version : Version]
Ask(m, v, i) == [verb |-> m, vault |-> v, id |-> i, key |-> None, data |-> None, version |-> 0]

Kinds == {"load", "open", "toggle", "save", "delete", "move", "copy", "import", "history"}
Steps == {"key", "encrypt", "decrypt", "render", "sent", "answered"}

\* The ends of a loadItems: the detail is emptied, what is then the current item
\* is opened again, an item is opened if it is there, or whether it is or not.
Ends == {"empty", "reopen", "find", "open", "stay"}

\* An operation: what it is, where it waits, the vault whose key it takes, the
\* data it has in hand, its request and the answer, the item it has made or will
\* open, what it does at its end, and how many items are left to import.
Operation == [kind : Kinds, at : Steps, vault : Vaults, data : Data \union {None},
              req : Request \union {None}, answer : SUBSET Item, opens : Items \union {None},
              then : Ends, left : 0..MaxImport]

\* No row, no request, nothing: values of their own, as model values are.
ASSUME SentinelsAssumption ==
    /\ None # Gone /\ New # Blank /\ {New, None} \cap Items = {} /\ None \notin Vaults
    /\ {None, Gone} \cap Row = {}
    /\ None \notin Data /\ None \notin Item /\ None \notin Request /\ None \notin Operation
    /\ None \notin [item : Item \union {None}, data : Data]

Idle(o) == op[o] = None
Free(o) == Idle(o) /\ (Covered => historyItem = None)
At(o, k, s) == op[o] # None /\ op[o].kind \in k /\ op[o].at = s
Has(i) == rows[i] \notin {None, Gone}

Begin(k, s, v) ==
    [kind |-> k, at |-> s, vault |-> v, data |-> None, req |-> None, answer |-> {},
     opens |-> None, then |-> "stay", left |-> 0]
Set(o, r) == op' = [op EXCEPT ![o] = r]
End(o) == Set(o, None)
Send(r, q) == [r EXCEPT !.at = "sent", !.req = q]

\* loadItems, as a call of its own or as the end of another operation.
LoadItems(o, i, e) ==
    IF currentVault' = None THEN End(o)
    ELSE Set(o, [Send(Begin("load", "sent", currentVault'), Ask("list", currentVault', None))
                   EXCEPT !.opens = i, !.then = e])

\* openItemDirect up to its first await.
OpenItem(o, i) ==
    LET found == {it \in items : it.id = i} IN
    IF found = {} \/ currentVault = None
    THEN currentItem' = None /\ End(o)
    ELSE /\ \E it \in found : currentItem' = [it EXCEPT !.data = None]
         /\ Set(o, Begin("open", "key", currentVault))

-----------------------------------------------------------------------------
(* What the user does *)

navigateToVault(o) ==
    \E v \in Vaults \ {currentVault} :
        /\ Free(o)
        /\ currentVault' = v
        /\ currentItem' = None
        /\ LoadItems(o, None, "empty")
        /\ UNCHANGED <<rows, items, editingItem, historyItem, cached>>

navigateToTeam(o) ==
    /\ Free(o)
    /\ currentVault' = None
    /\ currentItem' = None
    /\ UNCHANGED <<rows, items, editingItem, historyItem, cached, op>>

openItem(o) ==
    /\ Free(o) /\ currentVault # None
    /\ \E it \in items : OpenItem(o, it.id)
    /\ UNCHANGED <<rows, currentVault, items, editingItem, historyItem, cached>>

\* The buttons that fill the form: empty, with the open item, or (restoreItem)
\* with a version of its history.  A title is required, so that what could not be
\* decrypted is not saved.
fillItemForm(o) ==
    /\ Free(o)
    /\ \/ /\ currentVault # None
          /\ editingItem' = [item |-> None, data |-> [of |-> New, seen |-> 0]]
       \/ /\ currentItem # None /\ currentItem.data # None
          /\ currentItem.data.of # Blank
          /\ editingItem' = [item |-> currentItem, data |-> currentItem.data]
    /\ UNCHANGED <<rows, currentVault, items, currentItem, historyItem, cached, op>>

restoreItem(o) ==
    /\ Idle(o) /\ currentItem # None /\ historyItem \notin {None, Blank}
    /\ editingItem' = [item |-> currentItem,
                       data |-> [of |-> historyItem, seen |-> currentItem.version]]
    /\ historyItem' = None
    /\ UNCHANGED <<rows, currentVault, items, currentItem, cached, op>>

closeHistory(o) ==
    /\ Idle(o) /\ historyItem # None
    /\ historyItem' = None
    /\ UNCHANGED <<rows, currentVault, items, currentItem, editingItem, cached, op>>

saveItem(o) ==
    /\ Free(o) /\ editingItem # None /\ currentVault # None
    /\ Set(o, [Begin("save", "key", currentVault) EXCEPT !.data = editingItem.data])
    /\ UNCHANGED <<rows, page>>

\* toggleFavorite, and removeCurrentPasskey.
toggleFavorite(o) ==
    /\ Free(o) /\ currentVault # None
    /\ currentItem # None /\ currentItem.data # None
    /\ Set(o, [Begin("toggle", "key", currentVault) EXCEPT !.data = currentItem.data])
    /\ UNCHANGED <<rows, page>>

deleteCurrentItem(o) ==
    /\ Free(o) /\ currentVault # None /\ currentItem # None
    /\ Set(o, Send(Begin("delete", "sent", currentVault),
                   Ask("delete", currentVault, currentItem.id)))
    /\ UNCHANGED <<rows, page>>

confirmMoveItem(o) ==
    /\ Free(o) /\ currentVault # None
    /\ currentItem # None /\ currentItem.data # None
    /\ \E v \in Vaults \ {currentVault}, k \in {"move", "copy"} : Set(o, Begin(k, "key", v))
    /\ UNCHANGED <<rows, page>>

importItems(o) ==
    /\ Free(o) /\ currentVault # None
    /\ \E n \in 1..MaxImport :
         Set(o, [Begin("import", "key", currentVault) EXCEPT
                   !.data = [of |-> New, seen |-> 0], !.left = n])
    /\ UNCHANGED <<rows, page>>

showItemHistory(o) ==
    /\ Free(o) /\ currentVault # None /\ currentItem # None
    /\ Set(o, Send(Begin("history", "sent", currentVault),
                   Ask("history", currentVault, currentItem.id)))
    /\ UNCHANGED <<rows, page>>

-----------------------------------------------------------------------------
(* The awaits *)

\* Mutant of KeyFor: a move encrypts under the key of the vault it leaves.
KeyOfSource(r) ==
    IF r.kind \in {"move", "copy"} /\ currentVault # None THEN KeyOf(currentVault)
    ELSE KeyOf(r.vault)

\* The key an operation has taken.
KeyFor(r) == KeyOf(r.vault)

\* getVaultDecryptionKey has its key, at once or from the server, and the caller
\* goes on to encrypt, or to decrypt what is current by then.
TakeKey(o) ==
    LET r == op[o] IN
    /\ At(o, Kinds, "key")
    /\ cached' = cached \union {r.vault}
    /\ CASE r.kind \in {"save", "toggle", "import"} -> Set(o, [r EXCEPT !.at = "encrypt"])
         [] r.kind \in {"move", "copy"} ->
              IF currentItem = None \/ currentItem.data = None THEN End(o)
              ELSE Set(o, [r EXCEPT !.at = "encrypt", !.data = currentItem.data])
         [] r.kind = "open" ->
              IF currentItem = None THEN End(o)
              ELSE Set(o, [r EXCEPT !.at = "decrypt",
                                    !.data = Decrypted(KeyFor(r), currentItem)])
         [] r.kind = "history" ->
              \E it \in r.answer :
                 Set(o, [r EXCEPT !.at = "decrypt", !.data = Decrypted(KeyFor(r), it)])
         [] OTHER -> Set(o, [r EXCEPT !.at = "render"])
    /\ UNCHANGED <<rows, currentVault, items, currentItem, editingItem, historyItem>>

\* Only the key of a vault that is not cached is a request, which may fail.
LoseKey(o) ==
    /\ At(o, Kinds, "key") /\ op[o].vault \notin cached
    /\ End(o)
    /\ UNCHANGED <<rows, page>>

FinishDecrypt(o) ==
    /\ At(o, {"open", "history"}, "decrypt")
    /\ IF op[o].kind = "history"
         THEN historyItem' = op[o].data.of /\ UNCHANGED currentItem
         ELSE /\ currentItem' = IF currentItem = None THEN None
                                ELSE [currentItem EXCEPT !.data = op[o].data]
              /\ UNCHANGED historyItem
    /\ End(o)
    /\ UNCHANGED <<rows, currentVault, items, editingItem, cached>>

\* The next item of the file, whether this one was accepted or not.
NextImport(o) ==
    LET r == op[o] IN
    IF r.left > 1
    THEN Set(o, [r EXCEPT !.at = "encrypt", !.left = r.left - 1, !.req = None, !.opens = None])
    ELSE LoadItems(o, None, "stay")

\* Mutant of GiveUp: a move goes on when it could not create the copy.
DeleteAnyway(o) ==
    IF op[o].kind = "move" /\ currentItem # None /\ currentVault # None
    THEN Set(o, Send(op[o], Ask("delete", currentVault, currentItem.id)))
    ELSE IF op[o].kind = "import" THEN NextImport(o) ELSE End(o)

\* The catch of an operation: an import notes the error and goes on.
GiveUp(o) == IF op[o].kind = "import" THEN NextImport(o) ELSE End(o)

\* The data is encrypted under the key that was taken; the path of the request
\* is made of what is current now.
Encrypted(o) ==
    LET r == op[o]
        edited == IF editingItem = None THEN None ELSE editingItem.item
        body(m, v, i, n) == [verb |-> m, vault |-> v, id |-> i, version |-> n,
                             key |-> KeyFor(r), data |-> r.data]
    IN  /\ At(o, {"save", "toggle", "import", "move", "copy"}, "encrypt")
        /\ UNCHANGED <<rows, page>>
        /\ IF r.kind \in {"move", "copy"}
             THEN Set(o, Send(r, body("post", r.vault, None, 0)))
           ELSE IF currentVault = None \/ (r.kind = "toggle" /\ currentItem = None)
             THEN GiveUp(o)
           ELSE IF r.kind = "toggle"
             THEN Set(o, Send(r, body("put", currentVault, currentItem.id, currentItem.version)))
           ELSE IF r.kind = "save" /\ edited # None
             THEN Set(o, Send(r, body("put", currentVault, edited.id, edited.version)))
             ELSE Set(o, Send(r, body("post", currentVault, None, 0)))

-----------------------------------------------------------------------------
(* The server, and another client *)

Answer(o, its, i) ==
    op' = [op EXCEPT ![o] = [op[o] EXCEPT !.at = "answered", !.answer = its, !.opens = i]]

Read(o) ==
    LET q == op[o].req IN
    /\ At(o, Kinds, "sent")
    /\ \/ /\ q.verb = "list"
          /\ Answer(o, {Show(i) : i \in {j \in Items : Has(j) /\ rows[j].vault = q.vault}},
                    op[o].opens)
       \/ /\ q.verb = "history" /\ Has(q.id) /\ rows[q.id].vault = q.vault
          /\ Answer(o, {Show(q.id)}, None)
    /\ UNCHANGED <<rows, page>>

\* Mutant of Put: the vault of the path is not compared with the item's.
PutAnywhere(o) ==
    LET q == op[o].req IN
    /\ At(o, Kinds, "sent") /\ q.verb = "put"
    /\ Has(q.id) /\ rows[q.id].version = q.version
    /\ q.version < MaxVersion
    /\ rows' = [rows EXCEPT ![q.id] = [rows[q.id] EXCEPT
                   !.key = q.key, !.of = q.data.of, !.seen = q.data.seen,
                   !.version = q.version + 1]]
    /\ Answer(o, {}, q.id)
    /\ UNCHANGED page

Put(o) ==
    LET q == op[o].req IN
    /\ At(o, Kinds, "sent") /\ q.verb = "put"
    /\ Has(q.id) /\ rows[q.id].vault = q.vault /\ rows[q.id].version = q.version
    /\ q.version < MaxVersion
    /\ rows' = [rows EXCEPT ![q.id] = [rows[q.id] EXCEPT
                   !.key = q.key, !.of = q.data.of, !.seen = q.data.seen,
                   !.version = q.version + 1]]
    /\ Answer(o, {}, q.id)
    /\ UNCHANGED page

Post(o) ==
    LET q == op[o].req IN
    /\ At(o, Kinds, "sent") /\ q.verb = "post"
    /\ \E i \in Items :
         /\ rows[i] = None
         /\ rows' = [rows EXCEPT ![i] =
                       [vault |-> q.vault, key |-> q.key, version |-> 1, seen |-> 0,
                        of |-> IF q.data.of = New THEN i ELSE q.data.of]]
         /\ Answer(o, {}, i)
    /\ UNCHANGED page

Delete(o) ==
    LET q == op[o].req IN
    /\ At(o, Kinds, "sent") /\ q.verb = "delete"
    /\ Has(q.id) /\ rows[q.id].vault = q.vault
    /\ rows' = [rows EXCEPT ![q.id] = Gone]
    /\ Answer(o, {}, op[o].opens)
    /\ UNCHANGED page

OtherClient ==
    \E i \in Items :
        /\ Has(i)
        /\ \/ /\ rows[i].version < MaxVersion
              /\ rows' = [rows EXCEPT ![i] = [rows[i] EXCEPT !.seen = rows[i].version,
                                                              !.version = rows[i].version + 1]]
           \/ rows' = [rows EXCEPT ![i] = Gone]
        /\ UNCHANGED <<page, op>>

-----------------------------------------------------------------------------
(* The answers *)

\* loadItems has its list: it becomes the list of the page, whichever vault the
\* page shows, and is decrypted with the key of that one.
TakeList(o) ==
    /\ At(o, {"load"}, "answered")
    /\ items' = op[o].answer
    /\ IF op[o].answer # {}
         THEN IF currentVault = None THEN End(o)
              ELSE Set(o, [op[o] EXCEPT !.at = "key", !.vault = currentVault])
         ELSE Set(o, [op[o] EXCEPT !.at = "render"])
    /\ UNCHANGED <<rows, currentVault, currentItem, editingItem, historyItem, cached>>

\* The list is on screen.
FinishRender(o) ==
    /\ At(o, {"load"}, "render")
    /\ LET r == op[o] IN
       CASE r.then = "empty" -> currentItem' = None /\ End(o)
         [] r.then = "reopen" /\ currentItem # None -> OpenItem(o, currentItem.id)
         [] r.then = "find" /\ (\E it \in items : it.id = r.opens) -> OpenItem(o, r.opens)
         [] r.then = "open" -> OpenItem(o, r.opens)
         [] OTHER -> End(o) /\ UNCHANGED currentItem
    /\ UNCHANGED <<rows, currentVault, items, editingItem, historyItem, cached>>

\* An edit has been accepted: the list is loaded again, and the item opened.
TakeEdit(o) ==
    /\ At(o, {"save", "toggle"}, "answered")
    /\ editingItem' = IF op[o].kind = "save" THEN None ELSE editingItem
    /\ UNCHANGED <<rows, currentVault, items, currentItem, historyItem, cached>>
    /\ IF op[o].kind = "save" THEN LoadItems(o, op[o].opens, "find")
       ELSE LoadItems(o, None, "reopen")

TakeDelete(o) ==
    /\ At(o, {"delete"}, "answered")
    /\ currentItem' = None
    /\ UNCHANGED <<rows, currentVault, items, editingItem, historyItem, cached>>
    /\ LoadItems(o, None, "empty")

\* The copy exists.  A move deletes the current item of the current vault.
TakeCopy(o) ==
    LET r == op[o] IN
    /\ At(o, {"move", "copy"}, "answered") /\ r.req.verb = "post"
    /\ IF r.kind = "copy" \/ currentItem = None \/ currentVault = None THEN End(o)
       ELSE Set(o, Send(r, Ask("delete", currentVault, currentItem.id)))
    /\ UNCHANGED <<rows, page>>

\* ... and shows the copy, in the vault it moved to.
TakeMove(o) ==
    LET r == op[o] IN
    /\ At(o, {"move"}, "answered") /\ r.req.verb = "delete"
    /\ IF currentVault = r.vault
         THEN OpenItem(o, r.opens) /\ UNCHANGED currentVault
         ELSE currentItem' = None /\ currentVault' = r.vault /\ LoadItems(o, r.opens, "open")
    /\ UNCHANGED <<rows, items, editingItem, historyItem, cached>>

TakeImport(o) ==
    /\ At(o, {"import"}, "answered")
    /\ UNCHANGED <<rows, page>>
    /\ NextImport(o)

TakeHistory(o) ==
    /\ At(o, {"history"}, "answered")
    /\ IF currentVault = None THEN End(o)
       ELSE Set(o, [op[o] EXCEPT !.at = "key", !.vault = currentVault])
    /\ UNCHANGED <<rows, page>>

\* The server refuses, or the request or its answer is lost.
Fail(o) ==
    /\ At(o, Kinds, "sent") \/ At(o, Kinds, "answered")
    /\ UNCHANGED <<rows, page>>
    /\ GiveUp(o)

-----------------------------------------------------------------------------
Init ==
    /\ rows = [i \in Items |->
                 IF Home[i] = None THEN None
                 ELSE [vault |-> Home[i], key |-> KeyOf(Home[i]), of |-> i, seen |-> 0,
                       version |-> 1]]
    /\ currentVault = None
    /\ items = {}
    /\ currentItem = None
    /\ editingItem = None
    /\ historyItem = None
    /\ cached = Personal
    /\ op = [o \in Ops |-> None]

UserStep(o) ==
    \/ navigateToVault(o) \/ navigateToTeam(o) \/ openItem(o) \/ fillItemForm(o)
    \/ restoreItem(o) \/ saveItem(o) \/ toggleFavorite(o) \/ deleteCurrentItem(o) \/ confirmMoveItem(o)
    \/ importItems(o) \/ showItemHistory(o) \/ closeHistory(o)

PageStep(o) ==
    \/ LoseKey(o) \/ FinishDecrypt(o) \/ Encrypted(o)
    \/ TakeList(o) \/ FinishRender(o) \/ TakeEdit(o) \/ TakeDelete(o) \/ TakeCopy(o)
    \/ TakeMove(o) \/ TakeImport(o) \/ TakeHistory(o) \/ Fail(o)

ServerStep(o) == Read(o) \/ Put(o) \/ Post(o) \/ Delete(o)

\* A key that is cached is there before anything else can happen.
Settled(o) == At(o, Kinds, "key") /\ op[o].vault \in cached

Next ==
    \/ \E o \in Ops : TakeKey(o) /\ ((\E x \in Ops : Settled(x)) => Settled(o))
    \/ /\ ~ \E o \in Ops : Settled(o)
       /\ \/ \E o \in Ops : UserStep(o) \/ PageStep(o) \/ ServerStep(o)
          \/ OtherClient

Spec == Init /\ [][Next]_vars

-----------------------------------------------------------------------------
(* Properties *)

\* Every variable holds what the page and the server may hold.
TypeOK ==
    /\ rows \in [Items -> Row \union {None, Gone}]
    /\ currentVault \in Vaults \union {None}
    /\ items \subseteq Item
    /\ currentItem \in Item \union {None}
    /\ editingItem \in [item : Item \union {None}, data : Data] \union {None}
    /\ historyItem \in Contents \union {None}
    /\ cached \subseteq Vaults
    /\ op \in [Ops -> Operation \union {None}]

\* Whatever request fails, and whatever list was left on screen by one: an update
\* of an item replaces the version its author had before them, with a successor
\* of the same item, never with another item's data or with nothing.
EditsFollowTheItem ==
    [][\A i \in Items : rows[i] \notin {None, Gone} /\ rows'[i] \notin {None, Gone, rows[i]}
         => rows'[i].of = rows[i].of /\ rows'[i].seen = rows[i].version]_vars

\* What is in a vault can be read with the key of that vault.
ReadableInVault ==
    \A i \in Items : Has(i) => rows[i].key = KeyOf(rows[i].vault)

\* app.js:1689: "only delete the source once it exists, so a failure mid-move never
\* loses the item".  What a move deletes, it has created a copy of: of the item as the
\* page had it, which may be an earlier version than the one that is deleted.
MoveKeepsItem ==
    [][\A o \in Ops, i \in Items :
         At(o, {"move"}, "sent") /\ op'[o] # op[o] /\ Has(i) /\ rows'[i] = Gone
           => LET c == op[o].opens IN c # None /\ (Has(c) => rows[c].of = rows[i].of)]_vars

\* The same of the version that is deleted, which is refuted: the DELETE names none.
MoveKeepsEdits ==
    [][\A o \in Ops, i \in Items :
         At(o, {"move"}, "sent") /\ op'[o] # op[o] /\ Has(i) /\ rows'[i] = Gone
           => op[o].data # None /\ op[o].data.seen = rows[i].version]_vars
=============================================================================

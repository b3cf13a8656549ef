--------------------------- MODULE WebItemsProofs ---------------------------
(***************************************************************************)
(* Proofs about WebItems for a user who waits for each operation and       *)
(* closes a history before going on, for any vaults and items, any number  *)
(* of versions and of items in a file.  What the page knows of an item,    *)
(* however old its list is, is of that item; what it has decrypted, it has *)
(* with the key of the vault it shows; and an operation under way goes on  *)
(* with the vault, the item and the form it began with.                    *)
(***************************************************************************)
EXTENDS WebItems, TLAPS

OneAtATime == \A o, q \in Ops : o = q
UserWaits == OneAtATime /\ Covered

-----------------------------------------------------------------------------
(* The inductive invariant *)

\* What a client knows of item it is of that item and under its key.
Known(it) ==
  /\ rows[it.id] # None /\ it.of # New
  /\ Has(it.id) => it.of = rows[it.id].of /\ it.key = rows[it.id].key

RowsInv ==
  /\ rows \in [Items -> Row \union {None, Gone}]
  /\ ReadableInVault
  /\ \A i \in Items : Has(i) => rows[i].of # New

PageTypes ==
  /\ currentVault \in Vaults \union {None}
  /\ items \subseteq Item
  /\ currentItem \in Item \union {None}
  /\ editingItem \in [item : Item \union {None}, data : Data] \union {None}
  /\ historyItem \in Contents \union {None}
  /\ cached \subseteq Vaults

\* What is decrypted, is so with the key of the vault that is shown.
DetailOK ==
  currentItem # None =>
    /\ Known(currentItem)
    /\ currentItem.data # None => currentItem.data = Decrypted(KeyOf(currentVault), currentItem)

\* The form has what the item had at the version it was filled from.
FormOK ==
  editingItem # None /\ editingItem.item # None =>
    /\ Known(editingItem.item)
    /\ editingItem.data = [of |-> editingItem.item.of, seen |-> editingItem.item.version]

PageInv == PageTypes /\ (\A it \in items : Known(it)) /\ DetailOK /\ FormOK

\* A history is shown of the current item, and nothing goes on behind it.
HistoryOK ==
  historyItem # None =>
    /\ currentItem # None /\ historyItem \in {Blank, currentItem.of}
    /\ \A o \in Ops : Idle(o)

Opened == currentItem # None /\ currentItem.data # None

\* The vault of an operation, and the data it has in hand, are those of the page.
VaultOK(r) ==
  /\ r.kind \in {"save", "toggle", "open"} /\ r.at \in {"key", "encrypt", "decrypt"}
       => r.vault = currentVault
  /\ r.kind = "import" => r.vault = currentVault

DataOK(r) ==
  /\ r.kind = "save" /\ r.at \in {"key", "encrypt"}
       => editingItem # None /\ r.data = editingItem.data
  /\ r.kind = "toggle" /\ r.at \in {"key", "encrypt"} => Opened /\ r.data = currentItem.data
  /\ r.kind \in {"move", "copy"} /\ r.at = "encrypt" => Opened /\ r.data = currentItem.data
  /\ r.kind = "open" => currentItem # None
  /\ r.kind = "open" /\ r.at = "decrypt" => r.data = Decrypted(KeyOf(currentVault), currentItem)
  /\ r.kind = "history" =>
       /\ currentItem # None
       /\ \A it \in r.answer : it.of = currentItem.of
       /\ r.at = "decrypt" => r.data.of \in {Blank, currentItem.of}
  /\ r.kind = "import" => r.data # None

Verbs(k) ==
  CASE k = "load" -> {"list"}
    [] k = "history" -> {"history"}
    [] k = "delete" -> {"delete"}
    [] k = "toggle" -> {"put"}
    [] k = "save" -> {"put", "post"}
    [] k = "move" -> {"post", "delete"}
    [] OTHER -> {"post"}

\* What is sent is under the key of the vault it is sent to, and an update is of
\* the item it names.
RequestOK(r) ==
  LET q == r.req IN
  /\ q # None /\ q.verb \in Verbs(r.kind)
  /\ q.verb = "history" => q.id = currentItem.id
  /\ q.verb = "delete" => q.id # None
  /\ q.verb \in {"put", "post"} => q.key = KeyOf(q.vault) /\ q.data # None
  /\ q.verb = "put" =>
       /\ q.id # None /\ rows[q.id] # None /\ q.data.seen = q.version
       /\ Has(q.id) /\ rows[q.id].vault = q.vault => q.data.of = rows[q.id].of

\* A move deletes the item it has copied.
Copied(i) ==
  /\ i # None /\ rows[i] # None
  /\ Has(i) => rows[i].of = currentItem.data.of

MoveOK(r) ==
  LET q == r.req IN
  r.kind = "move" =>
    /\ Opened
    /\ q.verb = "post" /\ r.at = "sent" => q.data = currentItem.data
    /\ q.verb = "post" /\ r.at = "answered" => Copied(r.opens)
    /\ q.verb = "delete" => Copied(r.opens) /\ q.vault = currentVault /\ q.id = currentItem.id

OpInv(r) ==
  /\ r \in Operation
  /\ \A it \in r.answer : Known(it)
  /\ VaultOK(r) /\ DataOK(r)
  /\ r.at \in {"sent", "answered"} => RequestOK(r) /\ MoveOK(r)

OpsInv == op \in [Ops -> Operation \union {None}] /\ \A o \in Ops : op[o] # None => OpInv(op[o])

IInv == RowsInv /\ PageInv /\ HistoryOK /\ OpsInv

LEMMA InitIInv == Init => IInv
  <1> SUFFICES ASSUME Init PROVE IInv
    OBVIOUS
  <1>1. RowsInv
    <2>1. \A i \in Items : rows[i] = None \/ rows[i] =
            [vault |-> Home[i], key |-> KeyOf(Home[i]), of |-> i, seen |-> 0, version |-> 1]
      BY DEF Init
    <2>2. \A i \in Items : rows[i] # None =>
            rows[i] = [vault |-> Home[i], key |-> KeyOf(Home[i]), of |-> i, seen |-> 0, version |-> 1]
            /\ Home[i] \in Vaults
      BY WebItemsAssumption DEF Init
    <2>3. \A i \in Items : rows[i] # None => rows[i] \in Row
      <3> SUFFICES ASSUME NEW i \in Items, rows[i] # None PROVE rows[i] \in Row
        OBVIOUS
      <3>1. PICK v, k : /\ v \in Vaults /\ k \in Vaults \union {Own}
                        /\ rows[i] = [vault |-> v, key |-> k, of |-> i, seen |-> 0, version |-> 1]
        BY <2>2 DEF KeyOf
      <3>2. 0 \in Version /\ 1 \in Version
        BY WebItemsAssumption DEF Version
      <3> QED BY <2>2, <3>1, <3>2 DEF Row, Contents
    <2> QED BY <2>2, <2>3, SentinelsAssumption DEF Init, RowsInv, ReadableInVault, Has
  <1>2. PageInv
    BY WebItemsAssumption DEF Init, PageInv, PageTypes, DetailOK, FormOK
  <1>3. HistoryOK /\ OpsInv
    BY DEF Init, HistoryOK, OpsInv
  <1> QED BY <1>1, <1>2, <1>3 DEF IInv

LEMMA Typed == IInv => TypeOK
  BY DEF IInv, RowsInv, PageInv, PageTypes, OpsInv, TypeOK

-----------------------------------------------------------------------------
(* Steps of an operation *)

\* The new state of an operation, and of what it leaves, is all there is to show.
LEMMA OpStep ==
  ASSUME OneAtATime, IInv, NEW o \in Ops, NEW r, Set(o, r),
         RowsInv', PageInv', HistoryOK', r # None => OpInv(r)'
  PROVE  IInv'
  <1>1. op' = [op EXCEPT ![o] = r] /\ op \in [Ops -> Operation \union {None}]
    BY DEF Set, IInv, OpsInv
  <1>2. \A q \in Ops : op'[q] = r
    BY <1>1 DEF OneAtATime
  <1>3. r \in Operation \union {None}
    BY DEF OpInv
  <1>4. op' \in [Ops -> Operation \union {None}]
    BY <1>1, <1>3
  <1>5. \A q \in Ops : (op[q] # None => OpInv(op[q]))'
    BY <1>2 DEF OpInv, VaultOK, DataOK, RequestOK, MoveOK, Opened
  <1> QED BY <1>4, <1>5 DEF IInv, OpsInv

\* A step that leaves the page and the server alone.
LEMMA QuietStep ==
  ASSUME OneAtATime, IInv, NEW o \in Ops, NEW r, Set(o, r),
         UNCHANGED <<rows, page>>, historyItem = None, r # None => OpInv(r)
  PROVE  IInv'
  <1>1. RowsInv'
    BY DEF IInv, RowsInv, ReadableInVault, Has, page
  <1>2. PageInv'
    BY DEF IInv, PageInv, PageTypes, DetailOK, FormOK, Known, Has, page
  <1>3. HistoryOK'
    BY DEF HistoryOK, page
  <1>4. r # None => OpInv(r)'
    BY DEF OpInv, VaultOK, DataOK, RequestOK, MoveOK, Copied, Opened, Known, Has, page
  <1> QED BY <1>1, <1>2, <1>3, <1>4, OpStep

\* A step that leaves what the server has alone.
LEMMA PageStepRows == ASSUME IInv, UNCHANGED rows PROVE RowsInv'
  BY DEF IInv, RowsInv, ReadableInVault, Has

\* Behind a history nothing begins, and while something is under way none shows.
LEMMA NoHistory ==
  ASSUME UserWaits, IInv, NEW o \in Ops, Free(o) \/ op[o] # None
  PROVE  historyItem = None
  BY DEF UserWaits, IInv, HistoryOK, Free, Idle

LEMMA BeginTyped ==
  ASSUME NEW k \in Kinds, NEW s \in Steps, NEW v \in Vaults
  PROVE  Begin(k, s, v) \in Operation
  BY WebItemsAssumption DEF Begin, Operation, Ends

LEMMA SendTyped ==
  ASSUME NEW r \in Operation, NEW q \in Request
  PROVE  Send(r, q) \in Operation
  BY DEF Send, Operation, Steps

LEMMA AskTyped ==
  ASSUME NEW m \in {"list", "history", "delete"}, NEW v \in Vaults, NEW i \in Items \union {None}
  PROVE  Ask(m, v, i) \in Request
  BY WebItemsAssumption DEF Ask, Request, Version

\* loadItems is a request for a list, or nothing.
Loading(r) ==
  /\ r \in Operation /\ r.kind = "load" /\ r.at = "sent" /\ r.answer = {}
  /\ r.req # None /\ r.req.verb = "list"

LEMMA LoadingOK == ASSUME NEW r, Loading(r) PROVE OpInv(r) /\ OpInv(r)'
  BY DEF Loading, OpInv, VaultOK, DataOK, RequestOK, MoveOK, Verbs

LEMMA LoadItemsStep ==
  ASSUME NEW o \in Ops, NEW i \in Items \union {None}, NEW e \in Ends,
         LoadItems(o, i, e), currentVault' \in Vaults \union {None}
  PROVE  \E r : Set(o, r) /\ (r # None => Loading(r))
  <1>1. CASE currentVault' = None
    BY <1>1 DEF LoadItems, End
  <1>2. CASE currentVault' # None
    <2>1. PICK v : v = currentVault'
      OBVIOUS
    <2>2. PICK q : q = Ask("list", v, None)
      OBVIOUS
    <2>3. q \in Request /\ q.verb = "list"
      BY <1>2, <2>1, <2>2, AskTyped DEF Ask
    <2>4. PICK b : b = Begin("load", "sent", v)
      OBVIOUS
    <2>5. b \in Operation /\ b.kind = "load" /\ b.answer = {}
      BY <1>2, <2>1, <2>4, BeginTyped DEF Begin, Kinds, Steps
    <2>6. PICK r : r = [Send(b, q) EXCEPT !.opens = i, !.then = e]
      OBVIOUS
    <2>7. Loading(r)
      BY <2>3, <2>5, <2>6, SentinelsAssumption DEF Loading, Send, Operation, Steps
    <2>8. Set(o, r)
      BY <1>2, <2>1, <2>2, <2>4, <2>6 DEF LoadItems
    <2> QED BY <2>7, <2>8
  <1> QED BY <1>1, <1>2

\* openItemDirect shows an item of the list, without its data yet.
Opening(r, it) ==
  /\ it \in Item /\ it.data = None
  /\ r \in Operation /\ r.kind = "open" /\ r.at = "key" /\ r.answer = {} /\ r.vault = currentVault

LEMMA OpenItemStep ==
  ASSUME PageInv, NEW o \in Ops, NEW i, OpenItem(o, i)
  PROVE  \E r : /\ Set(o, r)
                /\ \/ r = None /\ currentItem' = None
                   \/ r # None /\ Opening(r, currentItem') /\ Known(currentItem')
  <1>1. CASE {it \in items : it.id = i} = {} \/ currentVault = None
    BY <1>1 DEF OpenItem, End
  <1>2. CASE ~({it \in items : it.id = i} = {} \/ currentVault = None)
    <2>1. PICK it \in items : currentItem' = [it EXCEPT !.data = None]
      BY <1>2 DEF OpenItem
    <2>2. it \in Item /\ Known(it)
      BY DEF PageInv, PageTypes
    <2>3. currentItem' \in Item /\ (currentItem').data = None
      BY <2>1, <2>2 DEF Item
    <2>4. (currentItem').id = it.id /\ (currentItem').of = it.of /\ (currentItem').key = it.key
      BY <2>1, <2>2 DEF Item
    <2>5. Known(currentItem')
      BY <2>2, <2>4 DEF Known
    <2>6. PICK r : r = Begin("open", "key", currentVault)
      OBVIOUS
    <2>7. r \in Operation
      BY <1>2, <2>6, BeginTyped DEF PageInv, PageTypes, Kinds, Steps
    <2>8. r # None /\ Opening(r, currentItem')
      BY <2>3, <2>6, <2>7, SentinelsAssumption DEF Opening, Begin
    <2>9. Set(o, r)
      BY <1>2, <2>6 DEF OpenItem
    <2> QED BY <2>5, <2>8, <2>9
  <1> QED BY <1>1, <1>2

\* The item that is opened is shown, and its key is taken.
LEMMA OpenKeeps ==
  ASSUME UserWaits, IInv, NEW o \in Ops, NEW i, OpenItem(o, i), Free(o) \/ op[o] # None,
         UNCHANGED <<rows, currentVault, items, editingItem, historyItem, cached>>
  PROVE  IInv'
  <1>1. PICK r : /\ Set(o, r)
                 /\ \/ r = None /\ currentItem' = None
                    \/ r # None /\ Opening(r, currentItem') /\ Known(currentItem')
    BY OpenItemStep DEF IInv
  <1>2. historyItem = None
    BY NoHistory
  <1>3. RowsInv'
    BY PageStepRows
  <1>4. \A it \in items : Known(it) /\ it \in Item
    BY DEF IInv, PageInv, PageTypes
  <1>5. DetailOK'
    BY <1>1 DEF DetailOK, Opening, Known, Has
  <1>6. PageInv'
    BY <1>1, <1>4, <1>5 DEF IInv, PageInv, PageTypes, FormOK, Known, Has, Opening
  <1>7. HistoryOK'
    BY <1>2 DEF HistoryOK
  <1>8. ASSUME r # None PROVE OpInv(r)'
    <2>1. currentItem' # None
      BY <1>1, <1>8, SentinelsAssumption DEF Opening
    <2> QED BY <1>1, <1>8, <2>1 DEF Opening, OpInv, VaultOK, DataOK
  <1> QED BY <1>1, <1>3, <1>6, <1>7, <1>8, OpStep DEF UserWaits

\* The rest of a step after which the list is loaded: what the page shows then.
LEMMA LoadKeeps ==
  ASSUME UserWaits, IInv, NEW o \in Ops, NEW i \in Items \union {None}, NEW e \in Ends,
         LoadItems(o, i, e), UNCHANGED <<rows, historyItem>>, historyItem = None, PageInv'
  PROVE  IInv'
  <1>1. PICK r : Set(o, r) /\ (r # None => Loading(r))
    BY LoadItemsStep DEF PageInv, PageTypes
  <1>2. RowsInv' /\ HistoryOK'
    BY PageStepRows DEF HistoryOK
  <1> QED BY <1>1, <1>2, LoadingOK, OpStep DEF UserWaits

\* A step between operations.
LEMMA IdleStep ==
  ASSUME UserWaits, IInv, NEW o \in Ops, op[o] = None, UNCHANGED <<rows, op>>,
         PageInv', historyItem' = None
  PROVE  IInv'
  <1>1. Set(o, None)
    BY DEF Set, IInv, OpsInv
  <1>2. RowsInv' /\ HistoryOK'
    BY PageStepRows DEF HistoryOK
  <1> QED BY <1>1, <1>2, OpStep DEF UserWaits

\* The end of an operation that leaves the page alone.
LEMMA EndStep ==
  ASSUME UserWaits, IInv, NEW o \in Ops, op[o] # None, End(o), UNCHANGED <<rows, page>>
  PROVE  IInv'
  BY NoHistory, QuietStep DEF UserWaits, End

-----------------------------------------------------------------------------
(* What the user does *)

LEMMA NavigateKeeps ==
  ASSUME UserWaits, IInv, NEW o \in Ops, navigateToVault(o) \/ navigateToTeam(o)
  PROVE  IInv'
  <1>1. Free(o) /\ currentItem' = None /\ UNCHANGED <<rows, items, editingItem, historyItem, cached>>
    BY DEF navigateToVault, navigateToTeam
  <1>2. historyItem = None
    BY <1>1, NoHistory
  <1>3. currentVault' \in Vaults \union {None}
    BY DEF navigateToVault, navigateToTeam
  <1>4. PageInv'
    BY <1>1, <1>3 DEF IInv, PageInv, PageTypes, DetailOK, FormOK, Known, Has
  <1>5. CASE navigateToVault(o)
    <2>1. LoadItems(o, None, "empty")
      BY <1>5 DEF navigateToVault
    <2> QED BY <1>1, <1>2, <1>4, <2>1, LoadKeeps DEF Ends
  <1>6. CASE navigateToTeam(o)
    BY <1>1, <1>2, <1>4, <1>6, IdleStep DEF navigateToTeam, Free, Idle
  <1> QED BY <1>5, <1>6

LEMMA openItemKeeps ==
  ASSUME UserWaits, IInv, NEW o \in Ops, openItem(o)
  PROVE  IInv'
  <1>1. PICK it \in items : OpenItem(o, it.id)
    BY DEF openItem
  <1> QED BY <1>1, OpenKeeps DEF openItem

LEMMA FormKeeps ==
  ASSUME UserWaits, IInv, NEW o \in Ops, fillItemForm(o) \/ restoreItem(o) \/ closeHistory(o)
  PROVE  IInv'
  <1>1. op[o] = None /\ UNCHANGED <<rows, currentVault, items, currentItem, cached, op>>
    BY DEF fillItemForm, restoreItem, closeHistory, Free, Idle
  <1>2. historyItem' = None
    BY NoHistory DEF fillItemForm, restoreItem, closeHistory
  <1>3. \/ UNCHANGED editingItem
        \/ \E it \in Item \union {None}, d \in Data :
             /\ editingItem' = [item |-> it, data |-> d]
             /\ it # None => Known(it) /\ d = [of |-> it.of, seen |-> it.version]
    <2>1. CASE closeHistory(o)
      BY <2>1 DEF closeHistory
    <2>2. CASE editingItem' = [item |-> None, data |-> [of |-> New, seen |-> 0]]
      <3>1. [of |-> New, seen |-> 0] \in Data
        BY WebItemsAssumption DEF Data, Contents, Version
      <3> QED BY <2>2, <3>1
    <2>3. CASE fillItemForm(o) /\ editingItem' = [item |-> currentItem, data |-> currentItem.data]
               /\ currentItem # None /\ currentItem.data # None /\ currentItem.data.of # Blank
      <3>1. currentItem \in Item /\ Known(currentItem)
        BY <2>3 DEF IInv, PageInv, PageTypes, DetailOK
      <3>2. currentItem.data = Decrypted(KeyOf(currentVault), currentItem)
        BY <2>3 DEF IInv, PageInv, DetailOK
      <3>3. currentItem.data = [of |-> currentItem.of, seen |-> currentItem.version]
        BY <2>3, <3>2 DEF Decrypted
      <3>4. currentItem.data \in Data
        BY <2>3, <3>1 DEF Item
      <3> QED BY <2>3, <3>1, <3>3, <3>4
    <2>4. CASE restoreItem(o)
      <3>1. currentItem \in Item /\ Known(currentItem)
        BY <2>4 DEF restoreItem, IInv, PageInv, PageTypes, DetailOK
      <3>2. historyItem = currentItem.of
        BY <2>4 DEF restoreItem, IInv, HistoryOK
      <3>3. [of |-> currentItem.of, seen |-> currentItem.version] \in Data
        BY <3>1 DEF Item, Data
      <3> QED BY <2>4, <3>1, <3>2, <3>3 DEF restoreItem
    <2> QED BY <2>1, <2>2, <2>3, <2>4 DEF fillItemForm
  <1>4. PageInv'
    <2>1. CASE UNCHANGED editingItem
      BY <1>1, <1>2, <2>1 DEF IInv, PageInv, PageTypes, DetailOK, FormOK, Known, Has
    <2>2. CASE \E it \in Item \union {None}, d \in Data :
                 /\ editingItem' = [item |-> it, data |-> d]
                 /\ it # None => Known(it) /\ d = [of |-> it.of, seen |-> it.version]
      BY <1>1, <1>2, <2>2 DEF IInv, PageInv, PageTypes, DetailOK, FormOK, Known, Has
    <2> QED BY <1>3, <2>1, <2>2
  <1> QED BY <1>1, <1>2, <1>4, IdleStep

\* The operations that begin with the key of the vault that is shown, or of another.
LEMMA BeginKeeps ==
  ASSUME UserWaits, IInv, NEW o \in Ops,
         saveItem(o) \/ toggleFavorite(o) \/ confirmMoveItem(o) \/ importItems(o)
  PROVE  IInv'
  <1>1. historyItem = None /\ UNCHANGED <<rows, page>>
    BY NoHistory DEF saveItem, toggleFavorite, confirmMoveItem, importItems
  <1>2. CASE saveItem(o)
    <2>1. PICK r : r = [Begin("save", "key", currentVault) EXCEPT !.data = editingItem.data]
      OBVIOUS
    <2>2. editingItem.data \in Data /\ currentVault \in Vaults
      BY <1>2 DEF saveItem, IInv, PageInv, PageTypes
    <2>3. r \in Operation
      BY <2>1, <2>2, BeginTyped DEF Begin, Operation, Kinds, Steps
    <2>4. OpInv(r)
      BY <1>2, <2>1, <2>3 DEF saveItem, Begin, OpInv, VaultOK, DataOK
    <2> QED BY <1>1, <1>2, <2>1, <2>4, QuietStep DEF saveItem, UserWaits
  <1>3. CASE toggleFavorite(o)
    <2>1. PICK r : r = [Begin("toggle", "key", currentVault) EXCEPT !.data = currentItem.data]
      OBVIOUS
    <2>2. currentItem.data \in Data /\ currentVault \in Vaults
      BY <1>3 DEF toggleFavorite, IInv, PageInv, PageTypes, Item
    <2>3. r \in Operation
      BY <2>1, <2>2, BeginTyped DEF Begin, Operation, Kinds, Steps
    <2>4. OpInv(r)
      BY <1>3, <2>1, <2>3 DEF toggleFavorite, Begin, OpInv, VaultOK, DataOK, Opened
    <2> QED BY <1>1, <1>3, <2>1, <2>4, QuietStep DEF toggleFavorite, UserWaits
  <1>4. CASE confirmMoveItem(o)
    <2>1. PICK v \in Vaults, k \in {"move", "copy"} : Set(o, Begin(k, "key", v))
      BY <1>4 DEF confirmMoveItem
    <2>2. PICK r : r = Begin(k, "key", v)
      OBVIOUS
    <2>3. r \in Operation
      BY <2>2, BeginTyped DEF Kinds, Steps
    <2>4. OpInv(r)
      BY <2>2, <2>3 DEF Begin, OpInv, VaultOK, DataOK
    <2> QED BY <1>1, <2>1, <2>2, <2>4, QuietStep DEF UserWaits
  <1>5. CASE importItems(o)
    <2>1. PICK n \in 1..MaxImport :
            Set(o, [Begin("import", "key", currentVault) EXCEPT
                      !.data = [of |-> New, seen |-> 0], !.left = n])
      BY <1>5 DEF importItems
    <2>2. PICK d : d = [of |-> New, seen |-> 0]
      OBVIOUS
    <2>3. d \in Data
      BY <2>2, WebItemsAssumption DEF Data, Contents, Version
    <2>4. currentVault \in Vaults /\ n \in 0..MaxImport
      <3>1. MaxImport \in Nat
        BY WebItemsAssumption
      <3>2. currentVault \in Vaults
        BY <1>5 DEF importItems, IInv, PageInv, PageTypes
      <3> QED BY <3>1, <3>2
    <2>5. PICK b : b = Begin("import", "key", currentVault)
      OBVIOUS
    <2>6. b \in Operation /\ b.kind = "import" /\ b.at = "key" /\ b.vault = currentVault /\ b.answer = {}
      BY <2>4, <2>5, BeginTyped DEF Begin, Kinds, Steps
    <2>7. PICK r : r = [b EXCEPT !.data = d, !.left = n]
      OBVIOUS
    <2>8. r \in Operation
      BY <2>3, <2>4, <2>6, <2>7 DEF Operation
    <2>9. OpInv(r)
      BY <2>3, <2>6, <2>7, <2>8, SentinelsAssumption DEF OpInv, VaultOK, DataOK, Operation
    <2> QED BY <1>1, <2>1, <2>2, <2>5, <2>7, <2>9, QuietStep DEF UserWaits
  <1> QED BY <1>2, <1>3, <1>4, <1>5

\* The operations that begin with a request about the item that is shown.
LEMMA AskKeeps ==
  ASSUME UserWaits, IInv, NEW o \in Ops, deleteCurrentItem(o) \/ showItemHistory(o)
  PROVE  IInv'
  <1>1. PICK k \in {"delete", "history"} :
          Set(o, Send(Begin(k, "sent", currentVault), Ask(k, currentVault, currentItem.id)))
    BY DEF deleteCurrentItem, showItemHistory
  <1>2. /\ historyItem = None /\ UNCHANGED <<rows, page>>
        /\ currentVault \in Vaults /\ currentItem \in Item /\ currentItem # None
    BY NoHistory DEF deleteCurrentItem, showItemHistory, IInv, PageInv, PageTypes
  <1>3. currentItem.id \in Items
    BY <1>2 DEF Item
  <1>4. PICK q : q = Ask(k, currentVault, currentItem.id)
    OBVIOUS
  <1>5. q \in Request /\ q.verb = k /\ q.id = currentItem.id
    BY <1>2, <1>3, <1>4, AskTyped DEF Ask
  <1>6. PICK b : b = Begin(k, "sent", currentVault)
    OBVIOUS
  <1>7. b \in Operation /\ b.kind = k /\ b.answer = {}
    BY <1>2, <1>6, BeginTyped DEF Begin, Kinds, Steps
  <1>8. PICK r : r = Send(b, q)
    OBVIOUS
  <1>9. r \in Operation /\ r.kind = k /\ r.at = "sent" /\ r.req = q /\ r.answer = {}
    BY <1>5, <1>7, <1>8, SendTyped DEF Send, Operation
  <1>10. OpInv(r)
    BY <1>2, <1>3, <1>5, <1>9, SentinelsAssumption
    DEF OpInv, VaultOK, DataOK, RequestOK, MoveOK, Verbs
  <1> QED BY <1>1, <1>2, <1>4, <1>6, <1>8, <1>10, QuietStep DEF UserWaits

-----------------------------------------------------------------------------
(* The awaits *)

LEMMA TakeKeyKeeps == ASSUME UserWaits, IInv, NEW o \in Ops, TakeKey(o) PROVE IInv'
  <1>1. PICK r : r = op[o]
    OBVIOUS
  <1>2. /\ r \in Operation /\ OpInv(r) /\ r # None /\ r.at = "key" /\ historyItem = None
        /\ UNCHANGED <<rows, currentVault, items, currentItem, editingItem, historyItem>>
        /\ cached' = cached \union {r.vault}
    BY <1>1, NoHistory DEF TakeKey, At, IInv, OpsInv
  <1>3. r.vault \in Vaults
    BY <1>2 DEF Operation
  <1>4. PageInv'
    BY <1>2, <1>3 DEF IInv, PageInv, PageTypes, DetailOK, FormOK, Known, Has
  <1>5. RowsInv' /\ HistoryOK'
    BY <1>2, PageStepRows DEF HistoryOK
  <1>6. ASSUME NEW s, Set(o, s), s # None => OpInv(s) PROVE IInv'
    <2>1. s # None => OpInv(s)'
      BY <1>2, <1>6 DEF OpInv, VaultOK, DataOK, RequestOK, MoveOK, Copied, Opened, Known, Has
    <2> QED BY <1>4, <1>5, <1>6, <2>1, OpStep DEF UserWaits
  <1>7. CASE End(o)
    BY <1>6, <1>7 DEF End
  <1>8. CASE r.kind \in {"save", "toggle", "import"}
    <2>1. PICK s : s = [r EXCEPT !.at = "encrypt"]
      OBVIOUS
    <2>2. s \in Operation
      BY <1>2, <2>1 DEF Operation, Steps
    <2>3. OpInv(s)
      BY <1>2, <1>8, <2>1, <2>2 DEF OpInv, VaultOK, DataOK, Operation
    <2>4. Set(o, s)
      BY <1>1, <1>8, <2>1 DEF TakeKey
    <2> QED BY <1>6, <2>3, <2>4
  <1>9. CASE r.kind \in {"move", "copy"} /\ ~End(o)
    <2>1. PICK s : s = [r EXCEPT !.at = "encrypt", !.data = currentItem.data]
      OBVIOUS
    <2>2. Set(o, s) /\ currentItem # None /\ currentItem.data # None
      BY <1>1, <1>9, <2>1 DEF TakeKey
    <2>3. currentItem.data \in Data
      BY <2>2 DEF IInv, PageInv, PageTypes, Item
    <2>4. s \in Operation
      BY <1>2, <2>1, <2>3 DEF Operation, Steps
    <2>5. OpInv(s)
      BY <1>2, <1>9, <2>1, <2>2, <2>4 DEF OpInv, VaultOK, DataOK, Operation, Opened
    <2> QED BY <1>6, <2>2, <2>5
  <1>10. CASE r.kind = "open" /\ ~End(o)
    <2>1. PICK d : d = Decrypted(KeyOf(currentVault), currentItem)
      OBVIOUS
    <2>2. r.vault = currentVault /\ currentItem \in Item /\ currentItem # None
      BY <1>1, <1>2, <1>10 DEF OpInv, VaultOK, DataOK, IInv, PageInv, PageTypes
    <2>3. PICK s : s = [r EXCEPT !.at = "decrypt", !.data = d]
      OBVIOUS
    <2>4. Set(o, s)
      BY <1>1, <1>10, <2>1, <2>2, <2>3 DEF TakeKey, KeyFor
    <2>5. d \in Data
      BY <2>1, <2>2 DEF Decrypted, Item, Data, Contents
    <2>6. s \in Operation
      BY <1>2, <2>3, <2>5 DEF Operation, Steps
    <2>7. OpInv(s)
      BY <1>2, <1>10, <2>1, <2>2, <2>3, <2>6 DEF OpInv, VaultOK, DataOK, Operation
    <2> QED BY <1>6, <2>4, <2>7
  <1>11. CASE r.kind = "history"
    <2>0. PICK it \in r.answer :
            Set(o, [r EXCEPT !.at = "decrypt", !.data = Decrypted(KeyFor(r), it)])
      BY <1>1, <1>11 DEF TakeKey
    <2>1. PICK s : Set(o, s) /\ s = [r EXCEPT !.at = "decrypt", !.data = Decrypted(KeyFor(r), it)]
      BY <2>0
    <2>2. it \in Item /\ it.of = currentItem.of /\ currentItem # None
      BY <1>2, <1>11, <2>1 DEF OpInv, DataOK, Operation
    <2>3. PICK d : d = Decrypted(KeyFor(r), it)
      OBVIOUS
    <2>4. d \in Data /\ d.of \in {Blank, currentItem.of}
      BY <2>2, <2>3 DEF Decrypted, Item, Data, Contents
    <2>5. s \in Operation
      BY <1>2, <2>1, <2>3, <2>4 DEF Operation, Steps
    <2>6. OpInv(s)
      BY <1>2, <1>11, <2>1, <2>2, <2>3, <2>4, <2>5 DEF OpInv, VaultOK, DataOK, Operation
    <2> QED BY <1>6, <2>1, <2>6
  <1>12. CASE r.kind \in {"load", "delete"}
    <2>1. PICK s : s = [r EXCEPT !.at = "render"]
      OBVIOUS
    <2>2. s \in Operation
      BY <1>2, <2>1 DEF Operation, Steps
    <2>3. OpInv(s)
      BY <1>2, <1>12, <2>1, <2>2 DEF OpInv, VaultOK, DataOK, Operation
    <2>4. Set(o, s)
      BY <1>1, <1>12, <2>1 DEF TakeKey
    <2> QED BY <1>6, <2>3, <2>4
  <1>13. r.kind \in Kinds
    BY <1>2 DEF Operation
  <1> QED BY <1>7, <1>8, <1>9, <1>10, <1>11, <1>12, <1>13 DEF Kinds

LEMMA LoseKeyKeeps == ASSUME UserWaits, IInv, NEW o \in Ops, LoseKey(o) PROVE IInv'
  BY EndStep DEF LoseKey, At

LEMMA FinishDecryptKeeps == ASSUME UserWaits, IInv, NEW o \in Ops, FinishDecrypt(o) PROVE IInv'
  <1>1. PICK r : r = op[o]
    OBVIOUS
  <1>2. /\ r \in Operation /\ OpInv(r) /\ r # None /\ r.at = "decrypt"
        /\ r.kind \in {"open", "history"} /\ historyItem = None
        /\ UNCHANGED <<rows, currentVault, items, editingItem, cached>>
        /\ Set(o, None)
    BY <1>1, NoHistory DEF FinishDecrypt, At, IInv, OpsInv, End
  <1>3. RowsInv'
    BY <1>2, PageStepRows
  <1>4. currentItem # None /\ currentItem \in Item /\ Known(currentItem)
    BY <1>2 DEF OpInv, DataOK, IInv, PageInv, PageTypes, DetailOK
  <1>5. CASE r.kind = "open"
    <2>1. currentItem' = [currentItem EXCEPT !.data = r.data] /\ historyItem' = None
      BY <1>1, <1>2, <1>4, <1>5 DEF FinishDecrypt
    <2>2. r.data = Decrypted(KeyOf(currentVault), currentItem) /\ r.data \in Data \union {None}
      BY <1>2, <1>5 DEF OpInv, DataOK, Operation
    <2>3. PICK c : c = currentItem'
      OBVIOUS
    <2>4. /\ c \in Item /\ c.data = r.data /\ c.id = currentItem.id /\ c.of = currentItem.of
          /\ c.key = currentItem.key /\ c.version = currentItem.version
      BY <1>4, <2>1, <2>2, <2>3 DEF Item
    <2>5. DetailOK'
      BY <1>2, <1>4, <2>2, <2>3, <2>4 DEF DetailOK, Decrypted, Known, Has
    <2>6. PageInv'
      BY <1>2, <2>1, <2>3, <2>4, <2>5 DEF IInv, PageInv, PageTypes, FormOK, Known, Has
    <2> QED BY <1>2, <1>3, <2>1, <2>6, OpStep DEF UserWaits, HistoryOK
  <1>6. CASE r.kind = "history"
    <2>1. historyItem' = r.data.of /\ UNCHANGED currentItem
      BY <1>1, <1>6 DEF FinishDecrypt
    <2>2. r.data.of \in {Blank, currentItem.of}
      BY <1>2, <1>6 DEF OpInv, DataOK
    <2>3. r.data.of \in Contents
      BY <1>4, <2>2 DEF Item, Contents
    <2>4. PageInv'
      BY <1>2, <2>1, <2>3 DEF IInv, PageInv, PageTypes, DetailOK, FormOK, Known, Has
    <2>5. \A q \in Ops : op'[q] = None
      BY <1>2 DEF Set, UserWaits, OneAtATime, IInv, OpsInv
    <2>6. HistoryOK'
      BY <1>4, <2>1, <2>2, <2>5 DEF HistoryOK, Idle
    <2> QED BY <1>2, <1>3, <2>4, <2>6, OpStep DEF UserWaits
  <1> QED BY <1>2, <1>5, <1>6

\* The next item of a file goes to the vault of the import, with the data in hand.
LEMMA NextImportKeeps ==
  ASSUME UserWaits, IInv, NEW o \in Ops, op[o] # None, op[o].kind = "import",
         NextImport(o), UNCHANGED <<rows, page>>
  PROVE  IInv'
  <1>1. PICK r : r = op[o]
    OBVIOUS
  <1>2. r \in Operation /\ OpInv(r) /\ historyItem = None
    BY <1>1, NoHistory DEF IInv, OpsInv
  <1>3. CASE r.left > 1
    <2>1. PICK s : s = [r EXCEPT !.at = "encrypt", !.left = r.left - 1, !.req = None, !.opens = None]
      OBVIOUS
    <2>2. r.left - 1 \in 0..MaxImport
      <3>1. MaxImport \in Nat /\ r.left \in 0..MaxImport
        BY <1>2, WebItemsAssumption DEF Operation
      <3> QED BY <1>3, <3>1
    <2>3. s \in Operation
      BY <1>2, <2>1, <2>2 DEF Operation, Steps
    <2>4. OpInv(s)
      BY <1>1, <1>2, <2>1, <2>3 DEF OpInv, VaultOK, DataOK, Operation
    <2>5. Set(o, s)
      BY <1>1, <1>3, <2>1 DEF NextImport
    <2> QED BY <1>2, <2>4, <2>5, QuietStep DEF UserWaits
  <1>4. CASE ~(r.left > 1)
    <2>1. LoadItems(o, None, "stay")
      BY <1>1, <1>4 DEF NextImport
    <2>2. PageInv'
      BY DEF IInv, PageInv, PageTypes, DetailOK, FormOK, Known, Has, page
    <2> QED BY <1>2, <2>1, <2>2, LoadKeeps DEF Ends, page
  <1> QED BY <1>3, <1>4

LEMMA GiveUpKeeps ==
  ASSUME UserWaits, IInv, NEW o \in Ops, op[o] # None, GiveUp(o), UNCHANGED <<rows, page>>
  PROVE  IInv'
  BY NextImportKeeps, EndStep DEF GiveUp

\* What is sent, once it is encrypted.
LEMMA EncryptedKeeps == ASSUME UserWaits, IInv, NEW o \in Ops, Encrypted(o) PROVE IInv'
  <1> DEFINE Body(r, m, v, i, n) == [verb |-> m, vault |-> v, id |-> i, version |-> n,
                                     key |-> KeyFor(r), data |-> r.data]
  <1>1. PICK r : r = op[o]
    OBVIOUS
  <1>2. /\ r \in Operation /\ OpInv(r) /\ r # None /\ r.at = "encrypt" /\ historyItem = None
        /\ r.kind \in {"save", "toggle", "import", "move", "copy"} /\ UNCHANGED <<rows, page>>
    BY <1>1, NoHistory DEF Encrypted, At, IInv, OpsInv
  <1>3. r.vault \in Vaults /\ r.data \in Data \union {None}
    BY <1>2 DEF Operation
  <1>4. r.data # None
    <2>1. CASE r.kind = "save"
      <3>1. editingItem # None /\ r.data = editingItem.data
        BY <1>2, <2>1 DEF OpInv, DataOK
      <3>2. editingItem.data \in Data
        BY <3>1 DEF IInv, PageInv, PageTypes
      <3> QED BY <3>1, <3>2, SentinelsAssumption
    <2>2. CASE r.kind # "save"
      BY <1>2, <2>2 DEF OpInv, DataOK, Opened
    <2> QED BY <2>1, <2>2
  <1>5. ASSUME NEW m \in {"post", "put"}, NEW v \in Vaults, NEW i \in Items \union {None},
               NEW n \in Version, v = r.vault, Set(o, Send(r, Body(r, m, v, i, n))),
               m \in Verbs(r.kind), r.kind = "move" => Opened /\ r.data = currentItem.data,
               m = "put" =>
                 /\ i # None /\ rows[i] # None /\ r.data.seen = n
                 /\ Has(i) /\ rows[i].vault = v => r.data.of = rows[i].of
        PROVE  IInv'
    <2>1. PICK q : q = Body(r, m, v, i, n)
      OBVIOUS
    <2>2. KeyFor(r) = KeyOf(v) /\ KeyFor(r) \in Vaults \union {Own}
      BY <1>3, <1>5 DEF KeyFor, KeyOf
    <2>3. q \in Request
      BY <1>3, <1>5, <2>1, <2>2 DEF Request
    <2>4. PICK s : s = Send(r, q)
      OBVIOUS
    <2>5. /\ s \in Operation /\ s.kind = r.kind /\ s.at = "sent" /\ s.req = q /\ s.answer = r.answer
          /\ s.vault = r.vault /\ s.data = r.data
      BY <1>2, <2>3, <2>4, SendTyped DEF Send, Operation
    <2>6. RequestOK(s)
      BY <1>4, <1>5, <2>1, <2>2, <2>3, <2>5, SentinelsAssumption DEF RequestOK
    <2>7. MoveOK(s)
      BY <1>5, <2>1, <2>5 DEF MoveOK
    <2>8. OpInv(s)
      BY <1>2, <2>5, <2>6, <2>7 DEF OpInv, VaultOK, DataOK
    <2> QED BY <1>2, <1>5, <2>1, <2>4, <2>8, QuietStep DEF UserWaits
  <1>6. CASE r.kind \in {"move", "copy"}
    <2>1. Set(o, Send(r, Body(r, "post", r.vault, None, 0)))
      BY <1>1, <1>6 DEF Encrypted
    <2>2. "post" \in Verbs(r.kind) /\ 0 \in Version
      BY <1>6, WebItemsAssumption DEF Verbs, Version
    <2>3. r.kind = "move" => Opened /\ r.data = currentItem.data
      BY <1>2 DEF OpInv, DataOK
    <2> QED BY <1>3, <1>5, <2>1, <2>2, <2>3
  <1>7. CASE r.kind \notin {"move", "copy"} /\
             (currentVault = None \/ (r.kind = "toggle" /\ currentItem = None))
    <2>1. GiveUp(o)
      BY <1>1, <1>7 DEF Encrypted
    <2> QED BY <1>1, <1>2, <2>1, GiveUpKeeps
  <1>8. CASE r.kind = "toggle" /\ currentVault # None /\ currentItem # None
    <2>1. Set(o, Send(r, Body(r, "put", currentVault, currentItem.id, currentItem.version)))
      BY <1>1, <1>8 DEF Encrypted
    <2>2. r.vault = currentVault /\ Opened /\ r.data = currentItem.data
      BY <1>2, <1>8 DEF OpInv, DataOK, VaultOK
    <2>3. /\ currentItem \in Item /\ Known(currentItem)
          /\ r.data = Decrypted(KeyOf(currentVault), currentItem)
      BY <1>8, <2>2 DEF IInv, PageInv, PageTypes, DetailOK, Opened
    <2>4. currentItem.id \in Items /\ currentItem.version \in Version
      BY <2>3 DEF Item
    <2>5. r.data.seen = currentItem.version
      BY <2>3 DEF Decrypted
    <2>6. ASSUME Has(currentItem.id), rows[currentItem.id].vault = currentVault
          PROVE  r.data.of = rows[currentItem.id].of
      <3>1. rows[currentItem.id].key = KeyOf(currentVault)
        BY <2>4, <2>6 DEF IInv, RowsInv, ReadableInVault
      <3>2. currentItem.key = KeyOf(currentVault) /\ currentItem.of = rows[currentItem.id].of
        BY <2>3, <2>6, <3>1 DEF Known
      <3> QED BY <2>3, <3>2 DEF Decrypted
    <2>7. "put" \in Verbs(r.kind) /\ currentItem.id # None /\ rows[currentItem.id] # None
      BY <1>8, <2>3, <2>4, SentinelsAssumption DEF Verbs, Known
    <2> QED BY <1>3, <1>5, <1>8, <2>1, <2>2, <2>4, <2>5, <2>6, <2>7
  <1>9. CASE r.kind = "save" /\ currentVault # None /\ editingItem.item # None
    <2>1. editingItem # None /\ r.data = editingItem.data /\ r.vault = currentVault
      BY <1>2, <1>9 DEF OpInv, DataOK, VaultOK
    <2>2. PICK it : it = editingItem.item
      OBVIOUS
    <2>3. Set(o, Send(r, Body(r, "put", currentVault, it.id, it.version)))
      BY <1>1, <1>9, <2>1, <2>2 DEF Encrypted
    <2>4. it \in Item /\ Known(it) /\ r.data = [of |-> it.of, seen |-> it.version]
      BY <1>9, <2>1, <2>2 DEF IInv, PageInv, PageTypes, FormOK
    <2>5. /\ it.id \in Items /\ it.version \in Version
          /\ r.data.of = it.of /\ r.data.seen = it.version
      BY <2>4 DEF Item
    <2>6. "put" \in Verbs(r.kind) /\ it.id # None /\ rows[it.id] # None
      BY <1>9, <2>4, <2>5, SentinelsAssumption DEF Verbs, Known
    <2>7. Has(it.id) => r.data.of = rows[it.id].of
      BY <2>4, <2>5 DEF Known
    <2> QED BY <1>3, <1>5, <1>9, <2>1, <2>3, <2>5, <2>6, <2>7
  <1>10. CASE /\ r.kind \in {"save", "import"} /\ currentVault # None
              /\ ~(r.kind = "save" /\ editingItem.item # None)
    <2>1. r.kind = "save" => editingItem # None
      BY <1>2 DEF OpInv, DataOK
    <2>2. Set(o, Send(r, Body(r, "post", currentVault, None, 0)))
      BY <1>1, <1>10, <2>1 DEF Encrypted
    <2>3. r.vault = currentVault
      BY <1>2, <1>10 DEF OpInv, VaultOK
    <2>4. "post" \in Verbs(r.kind) /\ 0 \in Version
      BY <1>10, WebItemsAssumption DEF Verbs, Version
    <2> QED BY <1>3, <1>5, <1>10, <2>2, <2>3, <2>4
  <1> QED BY <1>2, <1>6, <1>7, <1>8, <1>9, <1>10

-----------------------------------------------------------------------------
(* The server, and another client *)

\* An item that there is stays what it is, or goes for good.
RowsEvolve ==
  \A i \in Items : rows[i] # None =>
    /\ rows'[i] # None
    /\ Has(i)' => /\ Has(i) /\ rows'[i].of = rows[i].of
                  /\ rows'[i].key = rows[i].key /\ rows'[i].vault = rows[i].vault

LEMMA KnownEvolves ==
  ASSUME RowsEvolve, NEW it \in Item, Known(it), UNCHANGED page
  PROVE  Known(it)'
  BY DEF RowsEvolve, Known, Has, Item

LEMMA PageEvolves == ASSUME IInv, RowsEvolve, UNCHANGED page PROVE PageInv'
  <1>1. PageInv
    BY DEF IInv
  <1>2. PageTypes' /\ \A it \in items : it \in Item /\ Known(it)
    BY <1>1 DEF PageInv, PageTypes, page
  <1>3. DetailOK'
    <2>1. currentItem # None => currentItem \in Item /\ Known(currentItem)
      BY <1>1 DEF PageInv, PageTypes, DetailOK
    <2> QED BY <1>1, <2>1, KnownEvolves DEF PageInv, DetailOK, page, RowsEvolve, Known, Has, Item
  <1>4. FormOK'
    <2>1. editingItem # None /\ editingItem.item # None
            => editingItem.item \in Item /\ Known(editingItem.item)
      BY <1>1 DEF PageInv, PageTypes, FormOK
    <2> QED BY <1>1, <2>1 DEF PageInv, FormOK, page, RowsEvolve, Known, Has, Item
  <1>5. \A it \in items : Known(it)'
    BY <1>2, KnownEvolves
  <1> QED BY <1>2, <1>3, <1>4, <1>5 DEF PageInv, page

\* Nothing in the state of an operation but its request and a copy is of the rows.
LEMMA OpEvolves ==
  ASSUME IInv, RowsEvolve, UNCHANGED page, NEW r, OpInv(r)
  PROVE  OpInv(r)'
  <1>1. r \in Operation /\ \A it \in r.answer : it \in Item /\ Known(it)
    BY DEF OpInv, Operation
  <1>2. \A it \in r.answer : Known(it)'
    BY <1>1, KnownEvolves
  <1>3. VaultOK(r)' /\ DataOK(r)'
    BY DEF OpInv, VaultOK, DataOK, Opened, page
  <1>4. ASSUME r.at \in {"sent", "answered"} PROVE RequestOK(r)' /\ MoveOK(r)'
    <2>1. r.req \in Request /\ r.opens \in Items \union {None}
      BY <1>1, <1>4 DEF RequestOK, OpInv, Operation
    <2>2. r.req.id \in Items \union {None}
      BY <2>1 DEF Request
    <2>3. RequestOK(r)'
      BY <1>4, <2>2 DEF OpInv, RequestOK, page, RowsEvolve, Has
    <2>4. MoveOK(r)'
      BY <1>4, <2>1 DEF OpInv, MoveOK, Copied, Opened, page, RowsEvolve, Has
    <2> QED BY <2>3, <2>4
  <1> QED BY <1>1, <1>2, <1>3, <1>4 DEF OpInv

\* An answer has come; what it says of items is known of them.
LEMMA AnswerKeeps ==
  ASSUME UserWaits, IInv, NEW o \in Ops, At(o, Kinds, "sent"), UNCHANGED page,
         RowsEvolve, RowsInv', NEW its \in SUBSET Item, NEW i \in Items \union {None},
         Answer(o, its, i), \A it \in its : Known(it)',
         op[o].kind = "history" => \A it \in its : it.of = currentItem.of,
         op[o].kind = "move" =>
           /\ op[o].req.verb = "post" => Copied(i)'
           /\ op[o].req.verb = "delete" => i = op[o].opens
  PROVE  IInv'
  <1>1. PICK r : r = op[o]
    OBVIOUS
  <1>2. r \in Operation /\ OpInv(r) /\ r # None /\ r.at = "sent" /\ historyItem = None
    BY <1>1, NoHistory DEF At, IInv, OpsInv
  <1>3. OpInv(r)'
    BY <1>2, OpEvolves
  <1>4. PICK s : s = [r EXCEPT !.at = "answered", !.answer = its, !.opens = i]
    OBVIOUS
  <1>5. /\ s \in Operation /\ s.at = "answered" /\ s.answer = its /\ s.opens = i /\ s.req = r.req
        /\ s.kind = r.kind /\ s.vault = r.vault /\ s.data = r.data
    BY <1>2, <1>4 DEF Operation, Steps
  <1>6. VaultOK(s)' /\ DataOK(s)'
    BY <1>1, <1>2, <1>3, <1>5 DEF OpInv, VaultOK, DataOK, page
  <1>7. RequestOK(s)' /\ RequestOK(r)
    BY <1>2, <1>3, <1>5 DEF OpInv, RequestOK
  <1>8. MoveOK(s)'
    <2>1. CASE r.kind # "move"
      BY <1>5, <2>1 DEF MoveOK
    <2>2. CASE r.kind = "move"
      <3>1. r.req.verb \in {"post", "delete"}
        BY <1>7, <2>2 DEF RequestOK, Verbs
      <3>2. MoveOK(r)'
        BY <1>2, <1>3 DEF OpInv
      <3> QED BY <1>1, <1>5, <2>2, <3>1, <3>2 DEF MoveOK
    <2> QED BY <2>1, <2>2
  <1>9. OpInv(s)'
    BY <1>5, <1>6, <1>7, <1>8 DEF OpInv
  <1>10. PageInv' /\ HistoryOK'
    BY <1>2, PageEvolves DEF HistoryOK, page
  <1>11. Set(o, s)
    BY <1>1, <1>4 DEF Answer, Set
  <1> QED BY <1>9, <1>10, <1>11, OpStep DEF UserWaits

\* A request under way is the one its operation makes.
LEMMA Pending ==
  ASSUME IInv, NEW o \in Ops, At(o, Kinds, "sent")
  PROVE  /\ op[o] \in Operation /\ op[o].req \in Request /\ OpInv(op[o])
         /\ RequestOK(op[o]) /\ MoveOK(op[o])
  <1>1. op[o] \in Operation /\ OpInv(op[o]) /\ op[o].at = "sent"
    BY DEF At, IInv, OpsInv
  <1>2. RequestOK(op[o]) /\ MoveOK(op[o])
    BY <1>1 DEF OpInv
  <1>3. op[o].req \in Request
    BY <1>1, <1>2 DEF RequestOK, Operation
  <1> QED BY <1>1, <1>2, <1>3

LEMMA Shown ==
  ASSUME IInv, NEW i \in Items, Has(i)
  PROVE  Show(i) \in Item /\ Known(Show(i)) /\ Show(i).of = rows[i].of
  <1>1. rows[i] \in Row /\ rows[i].of # New
    BY DEF IInv, RowsInv, Has
  <1>2. Show(i) \in Item
    BY <1>1 DEF Show, Item, Row
  <1> QED BY <1>1, <1>2 DEF Show, Known, Has

LEMMA ReadKeeps == ASSUME UserWaits, IInv, NEW o \in Ops, Read(o) PROVE IInv'
  <1>1. At(o, Kinds, "sent") /\ UNCHANGED <<rows, page>>
    BY DEF Read
  <1>2. PICK r : r = op[o]
    OBVIOUS
  <1>3. r \in Operation /\ r.req \in Request /\ RequestOK(r) /\ OpInv(r)
    BY <1>1, <1>2, Pending
  <1>4. RowsEvolve /\ RowsInv'
    BY <1>1, PageStepRows DEF RowsEvolve, Has
  <1>5. CASE r.req.verb = "list"
    <2>1. PICK its : its = {Show(i) : i \in {j \in Items : Has(j) /\ rows[j].vault = r.req.vault}}
      OBVIOUS
    <2>2. Answer(o, its, r.opens)
      BY <1>2, <1>5, <2>1 DEF Read
    <2>3. \A it \in its : it \in Item /\ Known(it)
      BY <2>1, Shown
    <2>4. \A it \in its : Known(it)'
      BY <1>1, <1>4, <2>3, KnownEvolves
    <2>5. r.kind = "load"
      BY <1>3, <1>5 DEF RequestOK, Verbs
    <2>6. r.opens \in Items \union {None}
      BY <1>3 DEF Operation
    <2> QED BY <1>1, <1>2, <1>4, <2>2, <2>3, <2>4, <2>5, <2>6, AnswerKeeps
  <1>6. CASE r.req.verb = "history" /\ Has(r.req.id)
    <2>1. PICK it : it = Show(r.req.id)
      OBVIOUS
    <2>2. r.kind = "history" /\ r.req.id = currentItem.id
      BY <1>3, <1>6 DEF RequestOK, Verbs
    <2>3. currentItem # None /\ currentItem \in Item /\ Known(currentItem)
      BY <1>3, <2>2 DEF OpInv, DataOK, IInv, PageInv, PageTypes, DetailOK
    <2>4. r.req.id \in Items
      BY <2>2, <2>3 DEF Item
    <2>5. it \in Item /\ Known(it) /\ it.of = currentItem.of
      BY <1>6, <2>1, <2>2, <2>3, <2>4, Shown DEF Known
    <2>6. Known(it)'
      BY <1>1, <1>4, <2>5, KnownEvolves
    <2>7. Answer(o, {it}, None)
      BY <1>2, <1>6, <2>1 DEF Read
    <2> QED BY <1>1, <1>2, <1>4, <2>2, <2>5, <2>6, <2>7, AnswerKeeps
  <1> QED BY <1>2, <1>5, <1>6 DEF Read

LEMMA PutKeeps == ASSUME UserWaits, IInv, NEW o \in Ops, Put(o) PROVE IInv'
  <1>1. PICK r : r = op[o]
    OBVIOUS
  <1>2. PICK q : q = r.req
    OBVIOUS
  <1>3. /\ At(o, Kinds, "sent") /\ q.verb = "put" /\ UNCHANGED page
        /\ Has(q.id) /\ rows[q.id].vault = q.vault /\ rows[q.id].version = q.version
        /\ q.version < MaxVersion /\ Answer(o, {}, q.id)
    BY <1>1, <1>2 DEF Put
  <1>4. r \in Operation /\ q \in Request /\ RequestOK(r)
    BY <1>1, <1>2, <1>3, Pending
  <1>5. /\ q.id \in Items /\ q.key = KeyOf(q.vault) /\ q.data \in Data
        /\ q.data.of = rows[q.id].of /\ r.kind \in {"save", "toggle"}
    BY <1>2, <1>3, <1>4 DEF RequestOK, Request, Verbs
  <1>6. rows[q.id] \in Row /\ rows[q.id].key = KeyOf(rows[q.id].vault) /\ rows[q.id].of # New
    BY <1>3, <1>5 DEF IInv, RowsInv, ReadableInVault, Has
  <1>7. PICK w : w = [rows[q.id] EXCEPT !.key = q.key, !.of = q.data.of, !.seen = q.data.seen,
                                        !.version = q.version + 1]
    OBVIOUS
  <1>8. rows' = [rows EXCEPT ![q.id] = w]
    BY <1>1, <1>2, <1>7 DEF Put
  <1>9. q.version + 1 \in Version
    <2>1. q.version \in 0..MaxVersion /\ MaxVersion \in Nat
      BY <1>4, WebItemsAssumption DEF Request, Version
    <2> QED BY <1>3, <2>1 DEF Version
  <1>10. /\ w \in Row /\ w.vault = rows[q.id].vault /\ w.key = rows[q.id].key
         /\ w.of = rows[q.id].of
    BY <1>3, <1>5, <1>6, <1>7, <1>9 DEF Row, Data
  <1>11. RowsInv'
    BY <1>5, <1>6, <1>8, <1>10 DEF IInv, RowsInv, ReadableInVault, Has
  <1>12. RowsEvolve
    BY <1>3, <1>5, <1>8, <1>10, SentinelsAssumption DEF RowsEvolve, Has, IInv, RowsInv
  <1> QED BY <1>1, <1>3, <1>5, <1>11, <1>12, AnswerKeeps

LEMMA PostKeeps == ASSUME UserWaits, IInv, NEW o \in Ops, Post(o) PROVE IInv'
  <1>1. PICK r : r = op[o]
    OBVIOUS
  <1>2. PICK q : q = r.req
    OBVIOUS
  <1>3. At(o, Kinds, "sent") /\ q.verb = "post" /\ UNCHANGED page
    BY <1>1, <1>2 DEF Post
  <1>4. r \in Operation /\ q \in Request /\ RequestOK(r) /\ MoveOK(r) /\ r.at = "sent"
    BY <1>1, <1>2, <1>3, Pending DEF At
  <1>5. /\ q.key = KeyOf(q.vault) /\ q.data \in Data /\ r.kind \notin {"history", "load"}
        /\ q.key \in Vaults \union {Own} /\ q.vault \in Vaults
    BY <1>2, <1>3, <1>4, WebItemsAssumption DEF RequestOK, Request, Verbs, KeyOf
  <1>6. PICK i \in Items :
          /\ rows[i] = None /\ Answer(o, {}, i)
          /\ rows' = [rows EXCEPT ![i] =
                       [vault |-> q.vault, key |-> q.key, version |-> 1, seen |-> 0,
                        of |-> IF q.data.of = New THEN i ELSE q.data.of]]
    BY <1>1, <1>2 DEF Post
  <1>7. PICK c : c = IF q.data.of = New THEN i ELSE q.data.of
    OBVIOUS
  <1>8. c \in Contents /\ c # New
    BY <1>5, <1>7, SentinelsAssumption DEF Contents, Data
  <1>9. PICK w : w = [vault |-> q.vault, key |-> q.key, version |-> 1, seen |-> 0, of |-> c]
    OBVIOUS
  <1>10. w \in Row /\ w.key = KeyOf(w.vault) /\ w.of = c
    <2>1. 0 \in Version /\ 1 \in Version
      BY WebItemsAssumption DEF Version
    <2> QED BY <1>5, <1>8, <1>9, <2>1 DEF Row
  <1>11. rows' = [rows EXCEPT ![i] = w] /\ w # None
    BY <1>6, <1>7, <1>9, <1>10, SentinelsAssumption
  <1>12. RowsInv'
    BY <1>8, <1>10, <1>11 DEF IInv, RowsInv, ReadableInVault, Has
  <1>13. RowsEvolve
    BY <1>6, <1>11 DEF RowsEvolve, Has, IInv, RowsInv
  <1>14. r.kind = "move" => Copied(i)'
    <2> SUFFICES ASSUME r.kind = "move" PROVE Copied(i)'
      OBVIOUS
    <2>1. Opened /\ q.data = currentItem.data
      BY <1>2, <1>3, <1>4 DEF MoveOK
    <2>2. currentItem.data = Decrypted(KeyOf(currentVault), currentItem) /\ currentItem.of # New
      BY <2>1 DEF Opened, IInv, PageInv, DetailOK, Known
    <2>3. q.data.of # New
      BY <2>1, <2>2, SentinelsAssumption DEF Decrypted
    <2>4. rows'[i] = w /\ i # None
      BY <1>11, SentinelsAssumption DEF IInv, RowsInv
    <2> QED BY <1>3, <1>7, <1>10, <1>11, <2>1, <2>3, <2>4 DEF Copied, page
  <1> QED BY <1>1, <1>2, <1>3, <1>5, <1>6, <1>12, <1>13, <1>14, AnswerKeeps

LEMMA DeleteKeeps == ASSUME UserWaits, IInv, NEW o \in Ops, Delete(o) PROVE IInv'
  <1>1. PICK r : r = op[o]
    OBVIOUS
  <1>2. PICK q : q = r.req
    OBVIOUS
  <1>3. /\ At(o, Kinds, "sent") /\ q.verb = "delete" /\ UNCHANGED page /\ Has(q.id)
        /\ rows' = [rows EXCEPT ![q.id] = Gone] /\ Answer(o, {}, r.opens)
    BY <1>1, <1>2 DEF Delete
  <1>4. r \in Operation /\ q \in Request /\ RequestOK(r)
    BY <1>1, <1>2, <1>3, Pending
  <1>5. q.id \in Items /\ r.opens \in Items \union {None}
    BY <1>2, <1>3, <1>4 DEF RequestOK, Request, Operation
  <1>6. RowsInv'
    BY <1>3, <1>5 DEF IInv, RowsInv, ReadableInVault, Has
  <1>7. RowsEvolve
    BY <1>3, <1>5, SentinelsAssumption DEF RowsEvolve, Has, IInv, RowsInv
  <1> QED BY <1>1, <1>2, <1>3, <1>5, <1>6, <1>7, AnswerKeeps

LEMMA OtherClientKeeps == ASSUME UserWaits, IInv, OtherClient PROVE IInv'
  <1>1. PICK i \in Items :
          /\ Has(i) /\ UNCHANGED <<page, op>>
          /\ \/ /\ rows[i].version < MaxVersion
                /\ rows' = [rows EXCEPT ![i] = [rows[i] EXCEPT !.seen = rows[i].version,
                                                               !.version = rows[i].version + 1]]
             \/ rows' = [rows EXCEPT ![i] = Gone]
    BY DEF OtherClient
  <1>2. rows[i] \in Row
    BY <1>1 DEF IInv, RowsInv, Has
  <1>3. PICK w \in Row \union {Gone} :
          /\ rows' = [rows EXCEPT ![i] = w]
          /\ w # Gone => w.of = rows[i].of /\ w.key = rows[i].key /\ w.vault = rows[i].vault
    <2>1. CASE rows' = [rows EXCEPT ![i] = Gone]
      BY <2>1
    <2>2. CASE rows[i].version < MaxVersion /\
               rows' = [rows EXCEPT ![i] = [rows[i] EXCEPT !.seen = rows[i].version,
                                                           !.version = rows[i].version + 1]]
      <3>1. PICK w : w = [rows[i] EXCEPT !.seen = rows[i].version,
                                         !.version = rows[i].version + 1]
        OBVIOUS
      <3>2. rows[i].version \in 0..MaxVersion /\ MaxVersion \in Nat
        BY <1>2, WebItemsAssumption DEF Row, Version
      <3>3. rows[i].version + 1 \in Version
        BY <2>2, <3>2 DEF Version
      <3>4. w \in Row /\ w.of = rows[i].of /\ w.key = rows[i].key /\ w.vault = rows[i].vault
        BY <1>2, <3>1, <3>3 DEF Row
      <3> QED BY <2>2, <3>1, <3>4
    <2> QED BY <1>1, <2>1, <2>2
  <1>4. RowsInv'
    BY <1>1, <1>2, <1>3 DEF IInv, RowsInv, ReadableInVault, Has
  <1>5. RowsEvolve
    BY <1>1, <1>3, SentinelsAssumption DEF RowsEvolve, Has, IInv, RowsInv
  <1>6. PageInv' /\ HistoryOK'
    BY <1>1, <1>5, PageEvolves DEF IInv, HistoryOK, page, Idle
  <1>7. CASE Ops = {}
    BY <1>1, <1>4, <1>6, <1>7 DEF IInv, OpsInv
  <1>8. ASSUME NEW o \in Ops PROVE IInv'
    <2>1. PICK r : r = op[o]
      OBVIOUS
    <2>2. Set(o, r)
      BY <1>1, <2>1 DEF Set, IInv, OpsInv
    <2>3. r # None => OpInv(r)
      BY <2>1 DEF IInv, OpsInv
    <2>4. r # None => OpInv(r)'
      BY <1>1, <1>5, <2>3, OpEvolves
    <2> QED BY <1>4, <1>6, <2>2, <2>4, OpStep DEF UserWaits
  <1> QED BY <1>7, <1>8

-----------------------------------------------------------------------------
(* The answers *)

LEMMA TakeListKeeps == ASSUME UserWaits, IInv, NEW o \in Ops, TakeList(o) PROVE IInv'
  <1>1. PICK r : r = op[o]
    OBVIOUS
  <1>2. /\ r \in Operation /\ OpInv(r) /\ r # None /\ r.kind = "load" /\ historyItem = None
        /\ items' = r.answer
        /\ UNCHANGED <<rows, currentVault, currentItem, editingItem, historyItem, cached>>
    BY <1>1, NoHistory DEF TakeList, At, IInv, OpsInv
  <1>3. \A it \in r.answer : it \in Item /\ Known(it)
    BY <1>2 DEF OpInv, Operation
  <1>4. PageInv'
    BY <1>2, <1>3 DEF IInv, PageInv, PageTypes, DetailOK, FormOK, Known, Has
  <1>5. RowsInv' /\ HistoryOK'
    BY <1>2, PageStepRows DEF HistoryOK
  <1>6. ASSUME NEW s, Set(o, s), s # None => s \in Operation /\ s.kind = "load" /\ s.answer = r.answer
                                             /\ s.at \in {"key", "render"}
        PROVE  IInv'
    <2>1. s # None => OpInv(s)'
      BY <1>2, <1>3, <1>6 DEF OpInv, VaultOK, DataOK, Known, Has
    <2> QED BY <1>4, <1>5, <1>6, <2>1, OpStep DEF UserWaits
  <1>7. CASE r.answer # {} /\ currentVault = None
    BY <1>1, <1>6, <1>7 DEF TakeList, End
  <1>8. CASE r.answer # {} /\ currentVault # None
    <2>1. PICK s : s = [r EXCEPT !.at = "key", !.vault = currentVault]
      OBVIOUS
    <2>2. currentVault \in Vaults
      BY <1>8 DEF IInv, PageInv, PageTypes
    <2>3. s \in Operation /\ s.kind = "load" /\ s.answer = r.answer /\ s.at = "key"
      BY <1>2, <2>1, <2>2 DEF Operation, Steps
    <2> QED BY <1>1, <1>6, <1>8, <2>1, <2>3 DEF TakeList
  <1>9. CASE r.answer = {}
    <2>1. PICK s : s = [r EXCEPT !.at = "render"]
      OBVIOUS
    <2>2. s \in Operation /\ s.kind = "load" /\ s.answer = r.answer /\ s.at = "render"
      BY <1>2, <2>1 DEF Operation, Steps
    <2> QED BY <1>1, <1>6, <1>9, <2>1, <2>2 DEF TakeList
  <1> QED BY <1>7, <1>8, <1>9

LEMMA FinishRenderKeeps == ASSUME UserWaits, IInv, NEW o \in Ops, FinishRender(o) PROVE IInv'
  <1>1. /\ op[o] # None /\ historyItem = None
        /\ UNCHANGED <<rows, currentVault, items, editingItem, historyItem, cached>>
    BY NoHistory DEF FinishRender, At
  <1>2. \/ \E i : OpenItem(o, i)
        \/ (currentItem' = None \/ UNCHANGED currentItem) /\ End(o)
    <2>1. PICK r : r = op[o]
      OBVIOUS
    <2>2. CASE r.then = "empty"
      BY <2>1, <2>2 DEF FinishRender
    <2>3. CASE r.then = "reopen"
      BY <2>1, <2>3 DEF FinishRender
    <2>4. CASE r.then = "find"
      BY <2>1, <2>4 DEF FinishRender
    <2>5. CASE r.then = "open"
      BY <2>1, <2>5 DEF FinishRender
    <2>6. CASE r.then \notin {"empty", "reopen", "find", "open"}
      BY <2>1, <2>6 DEF FinishRender
    <2> QED BY <2>2, <2>3, <2>4, <2>5, <2>6
  <1>3. CASE \E i : OpenItem(o, i)
    BY <1>1, <1>3, OpenKeeps
  <1>4. CASE (currentItem' = None \/ UNCHANGED currentItem) /\ End(o)
    <2>1. PageInv'
      BY <1>1, <1>4 DEF IInv, PageInv, PageTypes, DetailOK, FormOK, Known, Has
    <2>2. RowsInv' /\ HistoryOK'
      BY <1>1, PageStepRows DEF HistoryOK
    <2> QED BY <1>4, <2>1, <2>2, OpStep DEF UserWaits, End
  <1> QED BY <1>2, <1>3, <1>4

LEMMA TakeEditKeeps ==
  ASSUME UserWaits, IInv, NEW o \in Ops, TakeEdit(o) \/ TakeDelete(o)
  PROVE  IInv'
  <1>1. /\ op[o] # None /\ historyItem = None /\ op[o] \in Operation
        /\ UNCHANGED <<rows, currentVault, items, historyItem, cached>>
    BY NoHistory DEF TakeEdit, TakeDelete, At, IInv, OpsInv
  <1>2. /\ currentItem' = None \/ UNCHANGED currentItem
        /\ editingItem' = None \/ UNCHANGED editingItem
    BY DEF TakeEdit, TakeDelete
  <1>3. PageInv'
    BY <1>1, <1>2 DEF IInv, PageInv, PageTypes, DetailOK, FormOK, Known, Has
  <1>4. PICK i \in Items \union {None}, e \in Ends : LoadItems(o, i, e)
    <2>1. op[o].opens \in Items \union {None}
      BY <1>1 DEF Operation
    <2> QED BY <2>1 DEF TakeEdit, TakeDelete, Ends
  <1> QED BY <1>1, <1>3, <1>4, LoadKeeps

LEMMA TakeCopyKeeps == ASSUME UserWaits, IInv, NEW o \in Ops, TakeCopy(o) PROVE IInv'
  <1>1. PICK r : r = op[o]
    OBVIOUS
  <1>2. /\ r \in Operation /\ OpInv(r) /\ r # None /\ r.at = "answered" /\ r.req.verb = "post"
        /\ r.kind \in {"move", "copy"} /\ historyItem = None /\ UNCHANGED <<rows, page>>
    BY <1>1, NoHistory DEF TakeCopy, At, IInv, OpsInv
  <1>3. CASE End(o)
    BY <1>1, <1>2, <1>3, EndStep
  <1>4. CASE ~End(o)
    <2>1. PICK q : q = Ask("delete", currentVault, currentItem.id)
      OBVIOUS
    <2>2. PICK s : s = Send(r, q)
      OBVIOUS
    <2>3. /\ Set(o, s) /\ r.kind = "move"
          /\ currentItem \in Item /\ currentItem # None /\ currentVault \in Vaults
      BY <1>1, <1>2, <1>4, <2>1, <2>2 DEF TakeCopy, IInv, PageInv, PageTypes
    <2>4. currentItem.id \in Items
      BY <2>3 DEF Item
    <2>5. q \in Request /\ q.verb = "delete" /\ q.vault = currentVault /\ q.id = currentItem.id
      BY <2>1, <2>3, <2>4, AskTyped DEF Ask
    <2>6. /\ s \in Operation /\ s.kind = "move" /\ s.at = "sent" /\ s.req = q
          /\ s.answer = r.answer /\ s.opens = r.opens
      BY <1>2, <2>2, <2>3, <2>5, SendTyped DEF Send, Operation
    <2>7. Opened /\ Copied(r.opens)
      BY <1>2, <2>3 DEF OpInv, MoveOK
    <2>8. RequestOK(s)
      BY <2>4, <2>5, <2>6, SentinelsAssumption DEF RequestOK, Verbs
    <2>9. MoveOK(s)
      BY <2>5, <2>6, <2>7 DEF MoveOK
    <2>10. OpInv(s)
      BY <1>2, <2>6, <2>8, <2>9 DEF OpInv, VaultOK, DataOK
    <2> QED BY <1>2, <2>3, <2>10, QuietStep DEF UserWaits
  <1> QED BY <1>3, <1>4

LEMMA TakeMoveKeeps == ASSUME UserWaits, IInv, NEW o \in Ops, TakeMove(o) PROVE IInv'
  <1>1. PICK r : r = op[o]
    OBVIOUS
  <1>2. /\ r \in Operation /\ r # None /\ historyItem = None
        /\ UNCHANGED <<rows, items, editingItem, historyItem, cached>>
    BY <1>1, NoHistory DEF TakeMove, At, IInv, OpsInv
  <1>3. r.vault \in Vaults /\ r.opens \in Items \union {None}
    BY <1>2 DEF Operation
  <1>4. CASE currentVault = r.vault
    BY <1>1, <1>2, <1>4, OpenKeeps DEF TakeMove
  <1>5. CASE currentVault # r.vault
    <2>1. currentItem' = None /\ currentVault' = r.vault /\ LoadItems(o, r.opens, "open")
      BY <1>1, <1>5 DEF TakeMove
    <2>2. PageInv'
      BY <1>2, <1>3, <2>1 DEF IInv, PageInv, PageTypes, DetailOK, FormOK, Known, Has
    <2> QED BY <1>2, <1>3, <2>1, <2>2, LoadKeeps DEF Ends
  <1> QED BY <1>4, <1>5

LEMMA TakeHistoryKeeps == ASSUME UserWaits, IInv, NEW o \in Ops, TakeHistory(o) PROVE IInv'
  <1>1. PICK r : r = op[o]
    OBVIOUS
  <1>2. /\ r \in Operation /\ OpInv(r) /\ r # None /\ r.kind = "history"
        /\ historyItem = None /\ UNCHANGED <<rows, page>>
    BY <1>1, NoHistory DEF TakeHistory, At, IInv, OpsInv
  <1>3. CASE currentVault = None
    BY <1>1, <1>2, <1>3, EndStep DEF TakeHistory
  <1>4. CASE currentVault # None
    <2>1. PICK s : s = [r EXCEPT !.at = "key", !.vault = currentVault]
      OBVIOUS
    <2>2. currentVault \in Vaults
      BY <1>4 DEF IInv, PageInv, PageTypes
    <2>3. s \in Operation
      BY <1>2, <2>1, <2>2 DEF Operation, Steps
    <2>4. OpInv(s)
      BY <1>2, <2>1, <2>3 DEF OpInv, VaultOK, DataOK, Operation
    <2>5. Set(o, s)
      BY <1>1, <1>4, <2>1 DEF TakeHistory
    <2> QED BY <1>2, <2>4, <2>5, QuietStep DEF UserWaits
  <1> QED BY <1>3, <1>4

LEMMA OtherAnswersKeep ==
  ASSUME UserWaits, IInv, NEW o \in Ops, TakeImport(o) \/ Fail(o)
  PROVE  IInv'
  BY NextImportKeeps, GiveUpKeeps DEF TakeImport, Fail, At

LEMMA NextIInv == ASSUME UserWaits PROVE IInv /\ [Next]_vars => IInv'
  <1> SUFFICES ASSUME IInv, [Next]_vars PROVE IInv'
    OBVIOUS
  <1>1. CASE UNCHANGED vars
    <2>1. RowsInv' /\ PageInv' /\ HistoryOK'
      BY <1>1 DEF IInv, RowsInv, ReadableInVault, Has, PageInv, PageTypes, DetailOK, FormOK, Known,
                  HistoryOK, Idle, vars, page
    <2>2. OpsInv'
      BY <1>1 DEF IInv, OpsInv, OpInv, VaultOK, DataOK, RequestOK, MoveOK, Copied, Opened, Known,
                  Has, vars, page
    <2> QED BY <2>1, <2>2 DEF IInv
  <1>2. ASSUME NEW o \in Ops, TakeKey(o) PROVE IInv'
    BY <1>2, TakeKeyKeeps
  <1>3. ASSUME NEW o \in Ops, UserStep(o) PROVE IInv'
    BY <1>3, NavigateKeeps, openItemKeeps, FormKeeps, BeginKeeps, AskKeeps DEF UserStep
  <1>4. ASSUME NEW o \in Ops, PageStep(o) PROVE IInv'
    BY <1>4, LoseKeyKeeps, FinishDecryptKeeps, EncryptedKeeps, TakeListKeeps, FinishRenderKeeps,
       TakeEditKeeps, TakeCopyKeeps, TakeMoveKeeps, TakeHistoryKeeps, OtherAnswersKeep DEF PageStep
  <1>5. ASSUME NEW o \in Ops, ServerStep(o) PROVE IInv'
    BY <1>5, ReadKeeps, PutKeeps, PostKeeps, DeleteKeeps DEF ServerStep
  <1> QED BY <1>1, <1>2, <1>3, <1>4, <1>5, OtherClientKeeps DEF Next

\* The inductive invariant holds in every state a user who waits can see.
THEOREM Invariance == ASSUME UserWaits PROVE Spec => []IInv
  BY InitIInv, NextIInv, PTL DEF Spec

\* The page, its operations and the rows of the server hold what they may hold.
THEOREM TypeCorrect == ASSUME UserWaits PROVE Spec => []TypeOK
  BY Invariance, Typed, PTL

\* What is in a vault is under the key of that vault: an item is saved, imported,
\* moved and copied under the key of the vault it is sent to (getVaultDecryptionKey,
\* saveItem, importItems and confirmMoveItem in web/app.js).
THEOREM ItemsAreReadable == ASSUME UserWaits PROVE Spec => []ReadableInVault
  <1>1. IInv => ReadableInVault
    BY DEF IInv, RowsInv
  <1> QED BY <1>1, Invariance, PTL

\* Only the server and another client change a row.
LEMMA RowsSteps ==
  Next => \/ UNCHANGED rows
          \/ \E o \in Ops : Put(o) \/ Post(o) \/ Delete(o)
          \/ OtherClient /\ UNCHANGED op
  <1> SUFFICES ASSUME Next PROVE \/ UNCHANGED rows
                                 \/ \E o \in Ops : Put(o) \/ Post(o) \/ Delete(o)
                                 \/ OtherClient /\ UNCHANGED op
    OBVIOUS
  <1>1. ASSUME NEW o \in Ops, TakeKey(o) PROVE UNCHANGED rows
    BY <1>1 DEF TakeKey
  <1>2. ASSUME NEW o \in Ops, UserStep(o) PROVE UNCHANGED rows
    BY <1>2 DEF UserStep, navigateToVault, navigateToTeam, openItem, fillItemForm, restoreItem,
         saveItem, toggleFavorite, deleteCurrentItem, confirmMoveItem, importItems,
         showItemHistory, closeHistory
  <1>3. ASSUME NEW o \in Ops, PageStep(o) PROVE UNCHANGED rows
    BY <1>3 DEF PageStep, LoseKey, FinishDecrypt, Encrypted, TakeList, FinishRender, TakeEdit,
         TakeDelete, TakeCopy, TakeMove, TakeImport, TakeHistory, Fail
  <1>4. ASSUME NEW o \in Ops, Read(o) PROVE UNCHANGED rows
    BY <1>4 DEF Read
  <1>5. OtherClient => UNCHANGED op
    BY DEF OtherClient
  <1> QED BY <1>1, <1>2, <1>3, <1>4, <1>5 DEF Next, ServerStep

\* An update replaces the version its author had before them, by a successor of the
\* same item, whatever was lost and whatever list was left on screen (saveItem,
\* toggleFavorite, restoreItem in web/app.js, and the version check of the server).
THEOREM EditsFollow == ASSUME UserWaits PROVE Spec => EditsFollowTheItem
  <1>1. IInv /\ [Next]_vars =>
          [\A i \in Items : rows[i] \notin {None, Gone} /\ rows'[i] \notin {None, Gone, rows[i]}
             => rows'[i].of = rows[i].of /\ rows'[i].seen = rows[i].version]_vars
    <2> SUFFICES ASSUME IInv, Next, NEW i \in Items,
                        rows[i] \notin {None, Gone}, rows'[i] \notin {None, Gone, rows[i]}
                 PROVE  rows'[i].of = rows[i].of /\ rows'[i].seen = rows[i].version
      OBVIOUS
    <2>1. rows[i] \in Row /\ rows \in [Items -> Row \union {None, Gone}]
      BY DEF IInv, RowsInv
    <2>2. ASSUME NEW o \in Ops, Put(o)
          PROVE  rows'[i].of = rows[i].of /\ rows'[i].seen = rows[i].version
      <3>1. PICK q : q = op[o].req
        OBVIOUS
      <3>2. PICK w : w = [rows[q.id] EXCEPT !.key = q.key, !.of = q.data.of,
                                            !.seen = q.data.seen, !.version = q.version + 1]
        OBVIOUS
      <3>3. /\ At(o, Kinds, "sent") /\ q.verb = "put" /\ Has(q.id)
            /\ rows[q.id].vault = q.vault /\ rows[q.id].version = q.version
            /\ rows' = [rows EXCEPT ![q.id] = w]
        BY <2>2, <3>1, <3>2 DEF Put
      <3>4. i = q.id /\ rows'[i] = w
        BY <2>1, <3>3, SMTT(30)
      <3>5. q.data.of = rows[i].of /\ q.data.seen = rows[i].version
        BY <3>1, <3>3, <3>4, Pending DEF RequestOK
      <3>6. w.of = q.data.of /\ w.seen = q.data.seen
        BY <2>1, <3>2, <3>4 DEF Row
      <3> QED BY <3>4, <3>5, <3>6
    <2>3. ASSUME NEW o \in Ops, Post(o) \/ Delete(o) PROVE FALSE
      BY <2>1, <2>3 DEF Post, Delete
    <2>4. CASE OtherClient
      <3>1. PICK w : w = [rows[i] EXCEPT !.seen = rows[i].version, !.version = rows[i].version + 1]
        OBVIOUS
      <3>2. rows'[i] = w
        BY <2>1, <2>4, <3>1 DEF OtherClient
      <3> QED BY <2>1, <3>1, <3>2 DEF Row
    <2> QED BY <2>2, <2>3, <2>4, RowsSteps
  <1> QED BY <1>1, Invariance, PTL DEF Spec, EditsFollowTheItem

\* A move deletes only an item of which it has created a copy, of whatever version
\* ("only delete the source once it exists", confirmMoveItem in web/app.js).
THEOREM MovesKeep == ASSUME UserWaits PROVE Spec => MoveKeepsItem
  <1>1. IInv /\ [Next]_vars =>
          [\A o \in Ops, i \in Items :
             At(o, {"move"}, "sent") /\ op'[o] # op[o] /\ Has(i) /\ rows'[i] = Gone
               => LET c == op[o].opens
                  IN  c # None /\ (Has(c) => rows[c].of = rows[i].of)]_vars
    <2> SUFFICES ASSUME IInv, Next, NEW o \in Ops, NEW i \in Items,
                        At(o, {"move"}, "sent"), op'[o] # op[o], Has(i), rows'[i] = Gone
                 PROVE  op[o].opens # None /\ (Has(op[o].opens) => rows[op[o].opens].of = rows[i].of)
      OBVIOUS
    <2>1. PICK q : q = op[o].req
      OBVIOUS
    <2>2. RequestOK(op[o]) /\ MoveOK(op[o]) /\ op[o].kind = "move"
      BY Pending DEF At, Kinds
    <2>3. rows[i] # Gone /\ rows \in [Items -> Row \union {None, Gone}]
      BY DEF Has, IInv, RowsInv
    <2>4. ~Put(o) /\ ~Post(o)
      <3>1. ASSUME Put(o) PROVE FALSE
        BY <2>2, <3>1 DEF Put, RequestOK, Verbs
      <3>2. ASSUME Post(o) PROVE FALSE
        <4>1. PICK j \in Items : rows[j] = None /\ (rows'[i] # rows[i] => i = j)
          BY <3>2 DEF Post
        <4> QED BY <2>3, <4>1 DEF Has
      <3> QED BY <3>1, <3>2
    <2>5. \A p \in Ops : p = o
      BY DEF UserWaits, OneAtATime
    <2>6. Delete(o)
      BY <2>3, <2>4, <2>5, RowsSteps
    <2>7. q.verb = "delete" /\ rows[q.id].vault = q.vault /\ q.id = i
      BY <2>1, <2>3, <2>6 DEF Delete
    <2>8. /\ Copied(op[o].opens) /\ q.vault = currentVault /\ i = currentItem.id /\ Opened
      BY <2>1, <2>2, <2>7 DEF MoveOK
    <2>9. /\ currentItem.data = Decrypted(KeyOf(currentVault), currentItem)
          /\ currentItem.of = rows[i].of /\ currentItem.key = rows[i].key
      BY <2>8 DEF Opened, IInv, PageInv, DetailOK, Known
    <2>10. rows[i].key = KeyOf(currentVault)
      BY <2>7, <2>8 DEF IInv, RowsInv, ReadableInVault
    <2>11. currentItem.data.of = rows[i].of
      BY <2>9, <2>10 DEF Decrypted
    <2> QED BY <2>8, <2>11 DEF Copied
  <1> QED BY <1>1, Invariance, PTL DEF Spec, MoveKeepsItem
=============================================================================

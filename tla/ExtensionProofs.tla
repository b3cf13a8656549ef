---------------------------- MODULE ExtensionProofs ----------------------------
(***************************************************************************)
(* The service worker keeps its promises, for any tabs, vaults, items and  *)
(* bounds.  The first part holds whatever messages overlap; the others for *)
(* messages that come one at a time, with the worker killed and requests   *)
(* lost at any point.                                                      *)
(*                                                                         *)
(*   1. Versions:  VInv, what is known of an item is a version of it.      *)
(*   2. Session:   SInv, the session and its copy in the storage.          *)
(*   3. Updates:   UInv, what is saved was made from its entry.            *)
(*   4. Staged:    DInv, who has which of the credentials submitted.       *)
(*                                                                         *)
(* Each part has first what a step of a message may be, then one lemma per *)
(* action that needs more than that, and its theorems.                     *)
(***************************************************************************)
EXTENDS Extension, TLAPS

-----------------------------------------------------------------------------
(* 1. Versions *)

Fields == {"kind", "tab", "at", "session", "saves", "cred", "req", "answer", "left", "load",
           "vault", "obj", "data"}

NoneIsNoRow == DOMAIN None # {"vault", "data", "version"}

\* What is known of an item is a version of it, the present one or one before.
Past(i, d, n) ==
  /\ i \in Items /\ Has(i) /\ n \in Nat /\ n <= rows[i].version
  /\ n = rows[i].version => d = rows[i].data

RowsOK ==
  /\ DOMAIN rows = Items
  /\ \A i \in Items : Has(i) => /\ DOMAIN rows[i] = {"vault", "data", "version"}
                                /\ rows[i].version \in Nat

EntriesOK ==
  \A e \in Objects : /\ DOMAIN e = {"ref", "vault", "data", "version"}
                     /\ Past(e.ref.item, e.data, e.version)

OpOK(r) ==
  /\ DOMAIN r = Fields
  /\ \A s \in r.answer : Past(s.item, s.data, s.version)
  /\ r.obj = None \/ r.obj.item \in Items
  /\ r.at \in {"sent", "answered"} /\ r.req.verb = "put"
       => r.obj # None /\ r.req.item = r.obj.item /\ r.req.data = r.data
  /\ r.at = "answered" /\ r.req.verb = "put" => Past(r.req.item, r.data, r.req.version + 1)

VInv ==
  /\ RowsOK /\ EntriesOK
  /\ DOMAIN op = Handlers
  /\ \A h \in Handlers : op[h] # None => OpOK(op[h])

\* A message that is in order after a step that leaves the rest.
LEMMA SetStep ==
  ASSUME VInv, NEW h \in Handlers, NEW r, op' = [op EXCEPT ![h] = r],
         r # None => OpOK(r), UNCHANGED <<rows, cache, kept>>
  PROVE  VInv'
BY DEF VInv, OpOK, RowsOK, EntriesOK, Past, Has, Objects

\* A step of a message that neither takes nor puts.
LEMMA NewStep ==
  ASSUME VInv, NEW h \in Handlers, op[h] # None, NEW r, op' = [op EXCEPT ![h] = r],
         DOMAIN r = Fields, r.answer \in {op[h].answer, {}}, r.obj \in {op[h].obj, None},
         r.at \notin {"sent", "answered"} \/ r.req.verb # "put",
         UNCHANGED <<rows, cache, kept>>
  PROVE  VInv'
<1>1. OpOK(r)
  BY DEF VInv, OpOK
<1> QED  BY <1>1, SetStep

\* A message goes on, ...
LEMMA GoStep ==
  ASSUME VInv, NEW h \in Handlers, op[h] # None, NEW s, s \notin {"sent", "answered"},
         Go(h, s), UNCHANGED <<rows, cache, kept>>
  PROVE VInv'
<1> PICK g : g = op[h]
  OBVIOUS
<1> PICK r : r = [g EXCEPT !.at = s]
  OBVIOUS
<1>1. op' = [op EXCEPT ![h] = r] /\ DOMAIN g = Fields
  BY DEF Go, Set, VInv, OpOK
<1>2. DOMAIN r = Fields /\ r.answer = g.answer /\ r.obj = g.obj /\ r.at = s
  BY <1>1 DEF Fields
<1> QED  BY <1>1, <1>2, NewStep

\* ... goes on with another session, another map or another credential, ...
LEMMA WithStep ==
  ASSUME VInv, NEW h \in Handlers, op[h] # None, NEW s, s \notin {"sent", "answered"}, NEW x,
         \/ Set(h, [op[h] EXCEPT !.at = s, !.session = x])
         \/ Set(h, [op[h] EXCEPT !.at = s, !.saves = x])
         \/ Set(h, [op[h] EXCEPT !.at = s, !.cred = x]),
         UNCHANGED <<rows, cache, kept>>
  PROVE VInv'
<1> PICK g : g = op[h]
  OBVIOUS
<1> PICK r : /\ \/ r = [g EXCEPT !.at = s, !.session = x]
                \/ r = [g EXCEPT !.at = s, !.saves = x]
                \/ r = [g EXCEPT !.at = s, !.cred = x]
             /\ op' = [op EXCEPT ![h] = r]
  BY DEF Set
<1>1. DOMAIN g = Fields
  BY DEF VInv, OpOK
<1>2. DOMAIN r = Fields /\ r.answer = g.answer /\ r.obj = g.obj /\ r.at = s
  BY <1>1 DEF Fields
<1> QED  BY <1>2, NewStep

\* ... ends, ...
LEMMA EndStep ==
  ASSUME VInv, NEW h \in Handlers, End(h), UNCHANGED <<rows, cache, kept>>
  PROVE VInv'
BY SetStep DEF End, Set

\* ... comes, ...
LEMMA MessageStep ==
  ASSUME VInv, NEW h \in Handlers, NEW k, NEW t, NEW r, Set(h, r),
         r = Message(k, t) \/ \E c : r = [Message(k, t) EXCEPT !.cred = c],
         UNCHANGED <<rows, cache, kept>>
  PROVE VInv'
<1>1. DOMAIN r = Fields /\ r.answer = {} /\ r.obj = None /\ r.at \in {"start", "get"}
  BY DEF Message, Fields
<1>2. OpOK(r)
  BY <1>1 DEF OpOK
<1> QED  BY <1>2, SetStep DEF Set

\* ... asks, ...
LEMMA AskStep ==
  ASSUME VInv, NEW h \in Handlers, op[h] # None, NEW v, NEW m \in {"login", "sso", "vaults", "key", "items"},
         NEW r, DOMAIN r = Fields, r.answer = op[h].answer, r.obj = op[h].obj,
         Set(h, Ask(r, m, v)), UNCHANGED <<rows, cache, kept>>
  PROVE VInv'
<1> PICK q : q = Ask(r, m, v)
  OBVIOUS
<1>1. DOMAIN q = Fields /\ q.answer = r.answer /\ q.obj = r.obj /\ q.req.verb = m
  BY DEF Ask, Fields
<1> QED  BY <1>1, NewStep DEF Set

\* What Ready leaves of a message.
LEMMA ReadyShape ==
  ASSUME NEW r, DOMAIN r = Fields
  PROVE  DOMAIN Ready(r) = Fields /\ Ready(r).answer = r.answer /\ Ready(r).obj = r.obj /\ Ready(r).at = "encrypt"
BY DEF Ready, Fields

\* ... goes on to a save with the key, ...
LEMMA WithKeyStep ==
  ASSUME VInv, NEW h \in Handlers, op[h] # None, NEW o, o = None \/ o.item \in Items,
         NEW r, DOMAIN r = Fields, r.answer = op[h].answer, r.obj = o,
         WithKey(h, r), UNCHANGED <<rows, cache, kept>>
  PROVE VInv'
<1>1. CASE Set(h, Ready(r))
  <2>1. OpOK(Ready(r))
    BY ReadyShape DEF VInv, OpOK
  <2> QED  BY <1>1, <2>1, SetStep DEF Set
<1>2. CASE Set(h, Ask(r, "key", r.vault))
  <2> PICK q : q = Ask(r, "key", r.vault)
    OBVIOUS
  <2>1. DOMAIN q = Fields /\ q.answer = r.answer /\ q.obj = o /\ q.req.verb = "key"
    BY DEF Ask, Fields
  <2>2. OpOK(q)
    BY <2>1 DEF VInv, OpOK
  <2> QED  BY <1>2, <2>2, SetStep DEF Set
<1> QED  BY <1>1, <1>2, EndStep DEF WithKey

\* What a message becomes without the key, ...
LEMMA NoKeyOp ==
  ASSUME VInv, NEW h \in Handlers, op[h] # None, NoKey(h)
  PROVE  \E r : op' = [op EXCEPT ![h] = r] /\ (r # None => OpOK(r))
<1> PICK g : g = op[h]
  OBVIOUS
<1> PICK r : r = [g EXCEPT !.at = "next", !.left = @ \ {g.vault}, !.req = None]
  OBVIOUS
<1>1. OpOK(g)
  BY DEF VInv
<1>2. DOMAIN r = Fields /\ r.answer = g.answer /\ r.obj = g.obj /\ r.at = "next"
  BY <1>1 DEF Fields, OpOK
<1>3. op' = [op EXCEPT ![h] = r] \/ op' = [op EXCEPT ![h] = None]
  BY DEF NoKey, Set, End
<1> QED  BY <1>1, <1>2, <1>3 DEF OpOK

\* ... and that versions are as they were.
LEMMA NoKeyStep ==
  ASSUME VInv, NEW h \in Handlers, op[h] # None, NoKey(h), UNCHANGED <<rows, cache, kept>>
  PROVE VInv'
BY NoKeyOp, SetStep

\* Popup keeps VInv.
LEMMA PopupV == ASSUME VInv, NEW h \in Handlers, Popup(h) PROVE VInv'
BY MessageStep DEF Popup, worker, server

\* Submit keeps VInv.
LEMMA SubmitV == ASSUME VInv, NEW h \in Handlers, Submit(h) PROVE VInv'
<1>1. PICK t, c : Set(h, [Message("stage", t) EXCEPT !.cred = c])
  BY DEF Submit
<1> QED BY <1>1, MessageStep DEF Submit, worker, server

\* Page keeps VInv.
LEMMA PageV == ASSUME VInv, NEW h \in Handlers, Page(h) PROVE VInv'
BY MessageStep DEF Page, worker, server

\* Close keeps VInv.
LEMMA CloseV == ASSUME VInv, NEW h \in Handlers, Close(h) PROVE VInv'
BY MessageStep DEF Close, worker, server

\* Run keeps VInv.
LEMMA RunV == ASSUME VInv, NEW h \in Handlers, Run(h) PROVE VInv'
<1>1. op[h] # None /\ DOMAIN op[h] = Fields /\ UNCHANGED <<rows, cache, kept>>
  BY DEF Run, At, VInv, OpOK, worker, server
<1>2. CASE op[h].kind = "login"
  BY <1>1, <1>2, AskStep DEF Run
<1>3. CASE op[h].kind = "ssoStart"
  BY <1>1, <1>3, AskStep DEF Run
<1>4. CASE op[h].kind = "ssoUnlock"
  BY <1>1, <1>4, EndStep, GoStep DEF Run
<1>5. CASE op[h].kind \in {"read", "refresh", "check", "commit", "dismiss"}
  BY <1>1, <1>5, GoStep DEF Run
<1>6. CASE op[h].kind \in {"stage", "passkey"}
  BY <1>1, <1>6, EndStep, GoStep DEF Run
<1> QED  BY <1>2, <1>3, <1>4, <1>5, <1>6 DEF Run, At, Kinds, PopupKinds, TabKinds

\* NextVault keeps VInv.
LEMMA NextVaultV == ASSUME VInv, NEW h \in Handlers, NextVault(h) PROVE VInv'
<1> PICK g : g = op[h]
  OBVIOUS
<1>1. g # None /\ DOMAIN g = Fields /\ UNCHANGED <<rows, cache, kept>>
  BY DEF NextVault, At, VInv, OpOK, worker, server
<1>2. CASE Set(h, [g EXCEPT !.at = "go", !.vault = None, !.load = 0])
  BY <1>1, <1>2, NewStep DEF Set, Fields
<1>3. ASSUME NEW v, NEW m \in {"items", "key"}, Set(h, Ask([g EXCEPT !.vault = v], m, v))
      PROVE  VInv'
  <2> PICK r : r = [g EXCEPT !.vault = v]
    OBVIOUS
  <2>1. DOMAIN r = Fields /\ r.answer = g.answer /\ r.obj = g.obj
    BY <1>1 DEF Fields
  <2> QED  BY <1>1, <1>3, <2>1, AskStep
<1>4. ASSUME NEW v, Set(h, [g EXCEPT !.left = @ \ {v}]), g.at = "next"
      PROVE  VInv'
  BY <1>1, <1>4, NewStep DEF Set, Fields
<1> QED  BY <1>2, <1>3, <1>4 DEF NextVault, At

\* TakeKey keeps VInv.
LEMMA TakeKeyV == ASSUME VInv, NEW h \in Handlers, TakeKey(h) PROVE VInv'
<1> PICK g : g = op[h]
  OBVIOUS
<1>1. g # None /\ DOMAIN g = Fields /\ UNCHANGED <<rows, cache, kept>>
  BY DEF TakeKey, At, VInv, OpOK, worker, server
<1>2. CASE Set(h, Ask(g, "items", g.vault))
  BY <1>1, <1>2, AskStep
<1>3. CASE Set(h, Ready(g))
  BY <1>1, <1>3, NewStep, ReadyShape DEF Set
<1> QED  BY <1>1, <1>2, <1>3, NoKeyStep DEF TakeKey

\* passkeyRegister keeps VInv.
LEMMA passkeyRegisterV == ASSUME VInv, NEW h \in Handlers, passkeyRegister(h) PROVE VInv'
<1> PICK g : g = op[h]
  OBVIOUS
<1>1. g # None /\ OpOK(g) /\ UNCHANGED <<rows, cache, kept>>
  BY DEF passkeyRegister, At, VInv, worker, server
<1>2. CASE End(h)
  BY <1>1, <1>2, EndStep
<1>3. ASSUME NEW o, o = None \/ \E e \in cache : o = e.ref,
             Set(h, [g EXCEPT !.at = "save", !.obj = o])
      PROVE  VInv'
  <2> PICK r : r = [g EXCEPT !.at = "save", !.obj = o]
    OBVIOUS
  <2>1. o = None \/ o.item \in Items
    BY <1>3 DEF VInv, EntriesOK, Objects, Past
  <2>2. DOMAIN r = Fields /\ r.answer = g.answer /\ r.obj = o /\ r.at = "save"
    BY <1>1 DEF OpOK, Fields
  <2>3. OpOK(r)
    BY <1>1, <2>1, <2>2 DEF OpOK
  <2> QED  BY <1>1, <1>3, <2>3, SetStep DEF Set
<1> QED  BY <1>2, <1>3 DEF passkeyRegister

\* updateItem keeps VInv.
LEMMA updateItemV == ASSUME VInv, NEW h \in Handlers, updateItem(h) PROVE VInv'
<1> PICK g : g = op[h]
  OBVIOUS
<1>1. g # None /\ OpOK(g) /\ UNCHANGED <<rows, cache, kept>>
  BY DEF updateItem, At, VInv, worker, server
<1>2. PICK o : /\ (o = g.obj /\ o # None) \/ \E e \in cache : o = e.ref
               /\ End(h) \/ WithKey(h, [g EXCEPT !.obj = o, !.vault = Object(o).vault])
  <2>1. CASE g.kind = "passkey"
    BY <2>1 DEF updateItem
  <2>2. CASE g.kind # "passkey"
    BY <2>2 DEF updateItem
  <2> QED  BY <2>1, <2>2
<1>3. o = None \/ o.item \in Items
  BY <1>1, <1>2 DEF VInv, EntriesOK, Objects, Past, OpOK
<1>4. CASE WithKey(h, [g EXCEPT !.obj = o, !.vault = Object(o).vault])
  <2> PICK v : v = Object(o).vault
    OBVIOUS
  <2> PICK r : r = [g EXCEPT !.obj = o, !.vault = v]
    OBVIOUS
  <2>2. DOMAIN r = Fields /\ r.answer = g.answer /\ r.obj = o
    BY <1>1 DEF OpOK, Fields
  <2> QED  BY <1>1, <1>3, <1>4, <2>2, WithKeyStep DEF Set
<1> QED  BY <1>1, <1>2, <1>4, EndStep

\* saveNewItem keeps VInv.
LEMMA saveNewItemV == ASSUME VInv, NEW h \in Handlers, saveNewItem(h) PROVE VInv'
<1> PICK g : g = op[h]
  OBVIOUS
<1>1. g # None /\ OpOK(g) /\ UNCHANGED <<rows, cache, kept>>
  BY DEF saveNewItem, At, VInv, worker, server
<1>2. PICK v \in Vaults : End(h) \/ WithKey(h, [g EXCEPT !.vault = v])
  BY DEF saveNewItem
<1>3. CASE WithKey(h, [g EXCEPT !.vault = v])
  <2> PICK r : r = [g EXCEPT !.vault = v]
    OBVIOUS
  <2>2. DOMAIN r = Fields /\ r.answer = g.answer /\ r.obj = g.obj /\ (g.obj = None \/ g.obj.item \in Items)
    BY <1>1 DEF OpOK, Fields
  <2> QED  BY <1>1, <1>3, <2>2, WithKeyStep DEF Set
<1> QED  BY <1>1, <1>2, <1>3, EndStep

\* Encrypted keeps VInv.
LEMMA EncryptedV == ASSUME VInv, NEW h \in Handlers, Encrypted(h) PROVE VInv'
<1> PICK g : g = op[h]
  OBVIOUS
<1>1. g # None /\ OpOK(g) /\ UNCHANGED <<rows, cache, kept>>
  BY DEF Encrypted, At, VInv, worker, server
<1> PICK q : q = IF g.obj = None
                 THEN [verb |-> "post", token |-> mem.token, vault |-> g.vault, item |-> None,
                       data |-> g.data, version |-> 0]
                 ELSE [verb |-> "put", token |-> mem.token, vault |-> g.vault,
                       item |-> g.obj.item, data |-> g.data, version |-> Object(g.obj).version]
  OBVIOUS
<1>2. /\ Set(h, [g EXCEPT !.at = "sent", !.req = q])
      /\ q.verb = "put" => q.item = g.obj.item /\ q.data = g.data /\ g.obj # None
  BY DEF Encrypted
<1> PICK r : r = [g EXCEPT !.at = "sent", !.req = q]
  OBVIOUS
<1>3. /\ DOMAIN r = Fields /\ r.answer = g.answer /\ r.obj = g.obj /\ r.at = "sent"
      /\ r.data = g.data /\ r.req = q
  BY <1>1 DEF OpOK, Fields
<1>4. OpOK(r)
  BY <1>1, <1>2, <1>3 DEF OpOK
<1> QED  BY <1>1, <1>2, <1>4, SetStep DEF Set

\* SignIn keeps VInv.
LEMMA SignInV == ASSUME VInv, NEW h \in Handlers, SignIn(h) PROVE VInv'
<1> PICK g : g = op[h]
  OBVIOUS
<1>1. g # None /\ OpOK(g) /\ UNCHANGED <<rows, cache, kept>> /\ g.req.verb # "put"
  BY DEF SignIn, At, VInv, worker, server
<1> PICK r : r = [g EXCEPT !.at = "answered", !.session.token = tokens']
  OBVIOUS
<1>2. DOMAIN r = Fields /\ r.answer = g.answer /\ r.obj = g.obj /\ r.req = g.req
  BY <1>1 DEF OpOK, Fields
<1>3. op' = [op EXCEPT ![h] = r]
  BY DEF SignIn, Set
<1> QED  BY <1>1, <1>2, <1>3, NewStep

\* Fail keeps VInv.
LEMMA FailV == ASSUME VInv, NEW h \in Handlers, Fail(h) PROVE VInv'
<1>1. op[h] # None /\ UNCHANGED <<rows, cache, kept>> /\ (NoKey(h) \/ End(h))
  BY DEF Fail, At, worker, server
<1> QED  BY <1>1, NoKeyStep, EndStep

\* What enters the cache is a version of its item.
LEMMA CacheStep ==
  ASSUME VInv, NEW h \in Handlers, NEW r, op' = [op EXCEPT ![h] = r], r # None => OpOK(r),
         UNCHANGED rows,
         \A e \in Objects' : \/ e \in Objects
                             \/ /\ DOMAIN e = {"ref", "vault", "data", "version"}
                                /\ Past(e.ref.item, e.data, e.version)
  PROVE  VInv'
BY DEF VInv, OpOK, RowsOK, EntriesOK, Past, Has

\* A logout brings nothing into the cache.
LEMMA LoggedOutObjects ==
  ASSUME NEW o, LoggedOut(o)
  PROVE  Objects' \subseteq Objects
BY DEF LoggedOut, Objects

\* logout keeps VInv.
LEMMA logoutV == ASSUME VInv, NEW h \in Handlers, logout(h) PROVE VInv'
BY LoggedOutObjects, CacheStep DEF logout, End, Set, server

\* Unauthorized keeps VInv.
LEMMA UnauthorizedV == ASSUME VInv, NEW h \in Handlers, Unauthorized(h) PROVE VInv'
<1>1. UNCHANGED rows /\ op[h] # None /\ Objects' \subseteq Objects
  BY LoggedOutObjects DEF Unauthorized, server, worker, Objects, At
<1>2. NoKey(h) \/ End(h)
  BY DEF Unauthorized
<1>3. PICK r : op' = [op EXCEPT ![h] = r] /\ (r # None => OpOK(r))
  BY <1>1, <1>2, NoKeyOp DEF End, Set
<1> QED  BY <1>1, <1>3, CacheStep

\* TakeVaults keeps VInv.
LEMMA TakeVaultsV == ASSUME VInv, NEW h \in Handlers, TakeVaults(h) PROVE VInv'
<1> PICK g : g = op[h]
  OBVIOUS
<1>1. g # None /\ OpOK(g) /\ UNCHANGED rows /\ Objects' \subseteq Objects
  BY DEF TakeVaults, At, VInv, server, Objects, Emptied
<1> PICK n : n = NewLoad(h)
  OBVIOUS
<1> PICK r : r = [g EXCEPT !.at = "next", !.left = Vaults, !.load = n, !.obj = None, !.req = None]
  OBVIOUS
<1>2. op' = [op EXCEPT ![h] = r]
  BY DEF TakeVaults, Set
<1>3. DOMAIN r = Fields /\ r.answer = g.answer /\ r.obj = None /\ r.at = "next"
  BY <1>1 DEF OpOK, Fields
<1>4. OpOK(r)
  BY <1>1, <1>3 DEF OpOK
<1> QED  BY <1>1, <1>2, <1>4, CacheStep

\* TakeItems keeps VInv.
LEMMA TakeItemsV == ASSUME VInv, NEW h \in Handlers, TakeItems(h) PROVE VInv'
<1> PICK g : g = op[h]
  OBVIOUS
<1>1. g # None /\ OpOK(g) /\ UNCHANGED <<rows, kept>>
  BY DEF TakeItems, At, VInv, server
<1> PICK r : r = [g EXCEPT !.at = "next", !.left = @ \ {g.vault}, !.answer = {}, !.req = None]
  OBVIOUS
<1>2. op' = [op EXCEPT ![h] = r]
  BY DEF TakeItems, Set
<1>3. DOMAIN r = Fields /\ r.answer = {} /\ r.obj = g.obj /\ r.at = "next"
  BY <1>1 DEF OpOK, Fields
<1>4. OpOK(r)
  BY <1>1, <1>3 DEF OpOK
<1>5. ASSUME NEW e \in Objects', e \notin Objects
      PROVE  DOMAIN e = {"ref", "vault", "data", "version"} /\ Past(e.ref.item, e.data, e.version)
  <2>1. PICK s \in g.answer : e = [ref |-> [item |-> s.item, load |-> g.load], vault |-> g.vault,
                                   data |-> s.data, version |-> s.version]
    BY <1>1, <1>5 DEF TakeItems, Objects
  <2> QED  BY <1>1, <2>1 DEF OpOK
<1> QED  BY <1>1, <1>2, <1>4, <1>5, CacheStep

\* TakePost keeps VInv.
LEMMA TakePostV == ASSUME VInv, NEW h \in Handlers, TakePost(h) PROVE VInv'
<1> PICK g : g = op[h]
  OBVIOUS
<1>1. g # None /\ OpOK(g) /\ UNCHANGED <<rows, kept>>
  BY DEF TakePost, At, VInv, server
<1>2. op' = [op EXCEPT ![h] = None]
  BY DEF TakePost, End, Set
<1>5. ASSUME NEW e \in Objects', e \notin Objects
      PROVE  DOMAIN e = {"ref", "vault", "data", "version"} /\ Past(e.ref.item, e.data, e.version)
  <2>1. PICK s \in g.answer : e = [ref |-> [item |-> s.item, load |-> 0], vault |-> g.vault,
                                   data |-> s.data, version |-> s.version]
    BY <1>1, <1>5 DEF TakePost, Objects
  <2> QED  BY <1>1, <2>1 DEF OpOK
<1> QED  BY <1>1, <1>2, <1>5, CacheStep

\* TakePut keeps VInv.
LEMMA TakePutV == ASSUME VInv, NEW h \in Handlers, TakePut(h) PROVE VInv'
<1> PICK g : g = op[h]
  OBVIOUS
<1>1. /\ g # None /\ OpOK(g) /\ UNCHANGED rows
      /\ g.obj # None /\ g.req.item = g.obj.item /\ Past(g.req.item, g.data, g.req.version + 1)
  BY DEF TakePut, At, VInv, server, OpOK
<1>2. CASE g.kind = "passkey"
  <2> PICK r : r = [g EXCEPT !.kind = "refresh", !.at = "refresh", !.obj = None]
    OBVIOUS
  <2>1. op' = [op EXCEPT ![h] = r] /\ UNCHANGED <<cache, kept>>
    BY <1>2 DEF TakePut, Updated, Set
  <2>2. DOMAIN r = Fields /\ r.answer = g.answer /\ r.obj = None /\ r.at = "refresh"
    BY <1>1 DEF OpOK, Fields
  <2> QED  BY <1>1, <2>1, <2>2, NewStep
<1>3. CASE g.kind # "passkey"
  <2>1. op' = [op EXCEPT ![h] = None]
    BY <1>3 DEF TakePut, Updated, End, Set
  <2>2. ASSUME NEW e \in Objects', e \notin Objects
        PROVE  DOMAIN e = {"ref", "vault", "data", "version"} /\ Past(e.ref.item, e.data, e.version)
    <3>1. PICK f \in Objects :
            e = IF f.ref = g.obj THEN [f EXCEPT !.data = g.data, !.version = g.req.version + 1] ELSE f
      <4> DEFINE new(x) == IF x.ref = g.obj
                           THEN [x EXCEPT !.data = g.data, !.version = g.req.version + 1] ELSE x
      <4>1. cache' = {new(x) : x \in cache} /\ kept' = {new(x) : x \in kept}
        BY <1>3 DEF TakePut, Updated
      <4> HIDE DEF new
      <4>2. PICK f \in Objects : e = new(f)
        BY <4>1, <2>2 DEF Objects
      <4> QED  BY <4>2 DEF new
    <3>2. DOMAIN f = {"ref", "vault", "data", "version"}
      BY DEF VInv, EntriesOK
    <3>3. /\ DOMAIN e = {"ref", "vault", "data", "version"} /\ e.ref = g.obj
          /\ e.data = g.data /\ e.version = g.req.version + 1
      BY <2>2, <3>1, <3>2
    <3> QED  BY <1>1, <3>3
  <2> QED  BY <1>1, <2>1, <2>2, CacheStep
<1> QED  BY <1>2, <1>3

RowsGrow ==
  /\ DOMAIN rows' = DOMAIN rows
  /\ \A i \in Items : Has(i) =>
       /\ Has(i)' /\ DOMAIN rows'[i] = {"vault", "data", "version"} /\ rows'[i].version \in Nat
       /\ rows'[i] = rows[i] \/ rows'[i].version > rows[i].version

\* A version stays one when the server goes on.
LEMMA PastStep ==
  ASSUME VInv, RowsGrow, NEW i, NEW d, NEW n, Past(i, d, n)
  PROVE  Past(i, d, n)'
BY DEF VInv, RowsOK, RowsGrow, Past, Has

\* A step of the server.
LEMMA ServerStep ==
  ASSUME VInv, RowsGrow, RowsOK', NEW h \in Handlers, NEW r, op' = [op EXCEPT ![h] = r],
         r # None => OpOK(r)', UNCHANGED <<cache, kept>>
  PROVE  VInv'
<1>1. EntriesOK'
  BY PastStep DEF VInv, EntriesOK, Objects
<1>2. ASSUME NEW g \in Handlers, op'[g] # None PROVE OpOK(op[g])'
  <2>1. CASE g = h
    BY <1>2, <2>1 DEF VInv, OpOK
  <2>2. CASE g # h
    <3>1. op'[g] = op[g] /\ OpOK(op[g])
      BY <1>2, <2>2 DEF VInv
    <3> PICK q : q = op[g]
      OBVIOUS
    <3>2. OpOK(q)'
      BY <3>1, PastStep DEF OpOK
    <3> QED  BY <3>1, <3>2
  <2> QED  BY <2>1, <2>2
<1> QED  BY <1>1, <1>2 DEF VInv

\* Read keeps VInv.
LEMMA ReadV == ASSUME VInv, NEW h \in Handlers, Read(h) PROVE VInv'
<1> PICK g : g = op[h]
  OBVIOUS
<1>1. /\ g # None /\ OpOK(g) /\ UNCHANGED <<rows, cache, kept>>
      /\ g.req.verb # "put"
  BY DEF Read, At, VInv, server, worker
<1> PICK A : A = IF g.req.verb = "items" THEN {Show(i) : i \in {j \in Items : Has(j) /\ rows[j].vault = g.req.vault}}
                ELSE {}
  OBVIOUS
<1> PICK r : r = [g EXCEPT !.at = "answered", !.answer = A]
  OBVIOUS
<1>2. op' = [op EXCEPT ![h] = r]
  BY DEF Read, Answered, Set
<1>3. DOMAIN r = Fields /\ r.answer = A /\ r.obj = g.obj /\ r.req = g.req
  BY <1>1 DEF OpOK, Fields
<1>4. ASSUME NEW s \in A PROVE Past(s.item, s.data, s.version)
  <2>1. PICK i \in Items : Has(i) /\ s = Show(i)
    OBVIOUS
  <2> QED  BY <2>1 DEF Show, Past, VInv, RowsOK
<1>5. OpOK(r)
  BY <1>1, <1>3, <1>4, SMTT(30) DEF OpOK
<1> QED  BY <1>1, <1>2, <1>5, SetStep

\* Put keeps VInv.
LEMMA PutV == ASSUME VInv, NoneIsNoRow, NEW h \in Handlers, Put(h) PROVE VInv'
<1> PICK g : g = op[h]
  OBVIOUS
<1> PICK q : q = g.req
  OBVIOUS
<1>1. /\ g # None /\ OpOK(g) /\ UNCHANGED <<cache, kept>>
      /\ g.at = "sent" /\ q.verb = "put" /\ Has(q.item) /\ rows[q.item].version = q.version
      /\ rows' = [rows EXCEPT ![q.item].data = q.data, ![q.item].version = @ + 1]
  BY DEF Put, At, VInv, worker
<1>2. q.item \in Items /\ q.data = g.data
  BY <1>1 DEF OpOK
<1>3. /\ DOMAIN rows = Items /\ DOMAIN rows[q.item] = {"vault", "data", "version"}
      /\ rows[q.item].version \in Nat
  BY <1>1, <1>2, SMTT(30) DEF VInv, RowsOK
<1>4. /\ DOMAIN rows' = Items /\ \A i \in Items : i # q.item => rows'[i] = rows[i]
      /\ DOMAIN rows'[q.item] = {"vault", "data", "version"}
      /\ rows'[q.item].data = q.data /\ rows'[q.item].version = q.version + 1
  BY <1>1, <1>2, <1>3
<1>5. rows'[q.item] # None
  BY <1>4 DEF NoneIsNoRow
<1>11. rows'[q.item].version > rows[q.item].version /\ rows'[q.item].version \in Nat
  <2>1. \A n \in Nat : n + 1 > n /\ n + 1 \in Nat
    OBVIOUS
  <2>2. rows[q.item].version = q.version /\ q.version \in Nat
    BY <1>1, <1>3
  <2> QED  BY <1>4, <2>1, <2>2
<1>12. RowsOK'
  BY <1>2, <1>3, <1>4, <1>11 DEF VInv, RowsOK, Has
<1>6. RowsGrow
  BY <1>2, <1>3, <1>4, <1>5, <1>11 DEF RowsGrow, VInv, RowsOK, Has
<1> PICK r : r = [g EXCEPT !.at = "answered", !.answer = {}]
  OBVIOUS
<1>7. op' = [op EXCEPT ![h] = r]
  BY DEF Put, Answered, Set
<1>8. /\ DOMAIN r = Fields /\ r.answer = {} /\ r.obj = g.obj /\ r.req = q /\ r.data = g.data
      /\ r.at = "answered"
  BY <1>1 DEF OpOK, Fields
<1>9. Past(q.item, g.data, q.version + 1)'
  BY <1>2, <1>4, <1>5, <1>11 DEF Past, Has
<1>10. OpOK(r)'
  BY <1>1, <1>8, <1>9 DEF OpOK
<1> QED  BY <1>1, <1>6, <1>7, <1>10, <1>12, ServerStep

\* Post keeps VInv.
LEMMA PostV == ASSUME VInv, NoneIsNoRow, NEW h \in Handlers, Post(h) PROVE VInv'
<1> PICK g : g = op[h]
  OBVIOUS
<1> PICK q : q = g.req
  OBVIOUS
<1> PICK y : y = [vault |-> q.vault, data |-> q.data, version |-> 1]
  OBVIOUS
<1>1. PICK i \in Items :
        /\ rows[i] = None /\ rows' = [rows EXCEPT ![i] = y]
        /\ Answered(h, {[item |-> i, data |-> q.data, version |-> 1]})
  BY DEF Post
<1>2. /\ g # None /\ OpOK(g) /\ UNCHANGED <<cache, kept>>
      /\ g.at = "sent" /\ q.verb = "post" /\ DOMAIN rows = Items
  BY DEF Post, At, VInv, worker, RowsOK
<1>3. y # None /\ DOMAIN y = {"vault", "data", "version"} /\ y.data = q.data /\ y.version = 1
  BY DEF NoneIsNoRow
<1>4. RowsGrow /\ RowsOK'
  BY <1>1, <1>2, <1>3 DEF RowsGrow, VInv, RowsOK, Has
<1> PICK r : r = [g EXCEPT !.at = "answered", !.answer = {[item |-> i, data |-> q.data, version |-> 1]}]
  OBVIOUS
<1>5. op' = [op EXCEPT ![h] = r]
  BY <1>1 DEF Answered, Set
<1>6. /\ DOMAIN r = Fields /\ r.answer = {[item |-> i, data |-> q.data, version |-> 1]}
      /\ r.obj = g.obj /\ r.req = q
  BY <1>2 DEF OpOK, Fields
<1>7. Past(i, q.data, 1)'
  BY <1>1, <1>2, <1>3 DEF Past, Has
<1>8. OpOK(r)'
  BY <1>2, <1>6, <1>7 DEF OpOK
<1> QED  BY <1>2, <1>4, <1>5, <1>8, ServerStep

\* OtherClient keeps VInv.
LEMMA OtherClientV == ASSUME VInv, NoneIsNoRow, OtherClient PROVE VInv'
<1>1. PICK i \in Items :
        Has(i) /\ rows' = [rows EXCEPT ![i].data.from = rows[i].version, ![i].version = @ + 1]
  BY DEF OtherClient
<1>2. /\ DOMAIN rows = Items /\ DOMAIN rows[i] = {"vault", "data", "version"}
      /\ rows[i].version \in Nat
  BY <1>1 DEF VInv, RowsOK
<1>3. /\ DOMAIN rows' = Items /\ \A j \in Items : j # i => rows'[j] = rows[j]
      /\ DOMAIN rows'[i] = {"vault", "data", "version"} /\ rows'[i].version = rows[i].version + 1
  BY <1>1, <1>2
<1>4. rows'[i] # None
  BY <1>3 DEF NoneIsNoRow
<1>5. RowsGrow /\ RowsOK' /\ UNCHANGED <<cache, kept, op>>
  BY <1>1, <1>2, <1>3, <1>4 DEF RowsGrow, VInv, RowsOK, Has, OtherClient, worker
<1>6. EntriesOK'
  BY <1>5, PastStep DEF VInv, EntriesOK, Objects
<1>7. ASSUME NEW h \in Handlers, op[h] # None PROVE OpOK(op[h])'
  <2> PICK q : q = op[h]
    OBVIOUS
  <2>1. OpOK(q)
    BY <1>7 DEF VInv
  <2>2. OpOK(q)'
    BY <1>5, <2>1, PastStep DEF OpOK
  <2> QED  BY <1>5, <2>2
<1> QED  BY <1>5, <1>6, <1>7 DEF VInv

\* A step that leaves the items, the cache and the messages.
LEMMA StillV == ASSUME VInv, UNCHANGED <<rows, cache, kept, op>> PROVE VInv'
BY DEF VInv, OpOK, RowsOK, EntriesOK, Past, Has, Objects

\* Kill keeps VInv.
LEMMA KillV == ASSUME VInv, Kill PROVE VInv'
BY DEF Kill, VInv, OpOK, RowsOK, EntriesOK, Past, Has, Objects, server

\* The invariant and the session and its keys.
LEMMA SessionsV == ASSUME VInv, NoneIsNoRow, NEW h \in Handlers, Sessions(h) PROVE VInv'
<1>1. CASE ReadSession(h)
  <2>1. /\ op[h] # None /\ UNCHANGED <<rows, cache, kept>>
      /\ Set(h, [op[h] EXCEPT !.at = "restore", !.session = store])
    BY <1>1, Zenon DEF ReadSession, At, server, worker
  <2> QED  BY <2>1, WithStep, Zenon
<1>2. CASE RestoreToken(h)
  <2>1. /\ op[h] # None /\ UNCHANGED <<rows, cache, kept>>
      /\ Go(h, IF op[h].session.encKey \/ op[h].session.privateKey THEN "import" ELSE "run")
    BY <1>2, Zenon DEF RestoreToken, At, server, worker
  <2> QED  BY <2>1, GoStep, Zenon
<1>3. CASE ImportKeys(h)
  <2>1. /\ op[h] # None /\ UNCHANGED <<rows, cache, kept>>
      /\ Set(h, [op[h] EXCEPT !.at = "run", !.session = NoSession])
    BY <1>3, Zenon DEF ImportKeys, At, server, worker
  <2> QED  BY <2>1, WithStep, Zenon
<1>4. CASE TakeToken(h)
  <2>1. /\ op[h] # None /\ UNCHANGED <<rows, cache, kept>>
      /\ (Go(h, "derive") \/ End(h))
    BY <1>4, Zenon DEF TakeToken, At, server, worker
  <2> QED  BY <2>1, GoStep, EndStep, Zenon
<1>5. CASE DeriveKey(h)
  <2>1. /\ op[h] # None /\ UNCHANGED <<rows, cache, kept>>
      /\ Go(h, "unwrap")
    BY <1>5, Zenon DEF DeriveKey, At, server, worker
  <2> QED  BY <2>1, GoStep, Zenon
<1>6. CASE UnwrapKey(h)
  <2>1. /\ op[h] # None /\ UNCHANGED <<rows, cache, kept>>
      /\ \/ Set(h, [op[h] EXCEPT !.at = "write",
                           !.session = [NoSession EXCEPT !.token = mem.token, !.encKey = mem.encKey]])
         \/ End(h)
    BY <1>6, Zenon DEF UnwrapKey, At, server, worker
  <2> QED  BY <2>1, WithStep, EndStep, Zenon
<1>7. CASE ssoUnlock(h)
  <2>1. /\ op[h] # None /\ UNCHANGED <<rows, cache, kept>>
      /\ (Go(h, "save") \/ End(h))
    BY <1>7, Zenon DEF ssoUnlock, At, server, worker
  <2> QED  BY <2>1, GoStep, EndStep, Zenon
<1>8. CASE saveSession(h)
  <2>1. /\ op[h] # None /\ UNCHANGED <<rows, cache, kept>>
      /\ Set(h, [op[h] EXCEPT !.at = "write",
                           !.session = [NoSession EXCEPT !.token = mem.token, !.encKey = mem.encKey]])
    BY <1>8, Zenon DEF saveSession, At, server, worker
  <2> QED  BY <2>1, WithStep, Zenon
<1>9. CASE WriteSession(h)
  <2>1. /\ op[h] # None /\ UNCHANGED <<rows, cache, kept>>
      /\ Set(h, [op[h] EXCEPT !.at = "refresh", !.session = NoSession])
    BY <1>9, Zenon DEF WriteSession, At, server, worker
  <2> QED  BY <2>1, WithStep, Zenon
<1> QED  BY <1>1, <1>2, <1>3, <1>4, <1>5, <1>6, <1>7, <1>8, <1>9, RunV, logoutV DEF Sessions

\* The invariant and a refresh of the cache.
LEMMA RefreshesV == ASSUME VInv, NoneIsNoRow, NEW h \in Handlers, Refreshes(h) PROVE VInv'
<1>1. CASE ensureItemsCache(h)
  <2>1. /\ op[h] # None /\ UNCHANGED <<rows, cache, kept>>
      /\ Go(h, IF LoggedIn /\ ~ mem.primed THEN "refresh" ELSE "go")
    BY <1>1, Zenon DEF ensureItemsCache, At, server, worker
  <2> QED  BY <2>1, GoStep, Zenon
<1>2. CASE refreshAllItems(h)
  <2>1. /\ op[h] # None /\ UNCHANGED <<rows, cache, kept>>
      /\ (Go(h, "go") \/ Set(h, Ask(op[h], "vaults", None)))
    BY <1>2, Zenon DEF refreshAllItems, At, server, worker
  <2> QED  BY <2>1, GoStep, AskStep DEF VInv, OpOK
<1>3. CASE Answer(h)
  <2>1. /\ op[h] # None /\ UNCHANGED <<rows, cache, kept>>
      /\ End(h)
    BY <1>3, Zenon DEF Answer, At, server, worker
  <2> QED  BY <2>1, EndStep, Zenon
<1> QED  BY <1>1, <1>2, <1>3, TakeVaultsV, NextVaultV, TakeKeyV, TakeItemsV DEF Refreshes

\* The invariant and staged credentials and saves.
LEMMA SavesV == ASSUME VInv, NoneIsNoRow, NEW h \in Handlers, Saves(h) PROVE VInv'
<1>1. CASE getPendingSaves(h)
  <2>1. /\ op[h] # None /\ UNCHANGED <<rows, cache, kept>>
      /\ Set(h, [op[h] EXCEPT !.at = "got", !.saves = pendingSaves])
    BY <1>1, Zenon DEF getPendingSaves, At, server, worker
  <2> QED  BY <2>1, WithStep, Zenon
<1>2. CASE stagePendingSave(h)
  <2>1. /\ op[h] # None /\ UNCHANGED <<rows, cache, kept>>
      /\ End(h)
    BY <1>2, Zenon DEF stagePendingSave, At, server, worker
  <2> QED  BY <2>1, EndStep, Zenon
<1>3. CASE checkPendingSave(h)
  <2>1. /\ op[h] # None /\ UNCHANGED <<rows, cache, kept>>
      /\ End(h)
    BY <1>3, Zenon DEF checkPendingSave, At, server, worker
  <2> QED  BY <2>1, EndStep, Zenon
<1>4. CASE dismissPendingSave(h)
  <2>1. /\ op[h] # None /\ UNCHANGED <<rows, cache, kept>>
      /\ End(h)
    BY <1>4, Zenon DEF dismissPendingSave, At, server, worker
  <2> QED  BY <2>1, EndStep, Zenon
<1>5. CASE commitPendingSave(h)
  <2>1. /\ op[h] # None /\ UNCHANGED <<rows, cache, kept>>
      /\ (End(h) \/ Set(h, [op[h] EXCEPT !.at = "ensure", !.cred = op[h].saves[op[h].tab]]))
    BY <1>5, Zenon DEF commitPendingSave, At, server, worker
  <2> QED  BY <2>1, WithStep, EndStep, Zenon
<1>6. CASE Unstage(h)
  <2>1. /\ op[h] # None /\ UNCHANGED <<rows, cache, kept>>
      /\ Set(h, [op[h] EXCEPT !.at = "save", !.saves = None])
    BY <1>6, Zenon DEF Unstage, At, server, worker
  <2> QED  BY <2>1, WithStep, Zenon
<1>7. CASE ItemNotFound(h)
  <2>1. /\ op[h] # None /\ UNCHANGED <<rows, cache, kept>>
      /\ End(h)
    BY <1>7, Zenon DEF ItemNotFound, At, server, worker
  <2> QED  BY <2>1, EndStep, Zenon
<1> QED  BY <1>1, <1>2, <1>3, <1>4, <1>5, <1>6, <1>7, passkeyRegisterV, updateItemV, saveNewItemV, EncryptedV, TakePutV, TakePostV DEF Saves

\* The invariant and the messages.
LEMMA MessagesV == ASSUME VInv, NoneIsNoRow, NEW h \in Handlers, Messages(h) PROVE VInv'
<1> QED  BY PopupV, SubmitV, PageV, CloseV DEF Messages

\* The invariant and the requests.
LEMMA RequestsV == ASSUME VInv, NoneIsNoRow, NEW h \in Handlers, Requests(h) PROVE VInv'
<1>1. CASE Refuse(h)
  <2>1. /\ op[h] # None /\ UNCHANGED <<rows, cache, kept>>
      /\ Go(h, "unauthorized")
    BY <1>1, Zenon DEF Refuse, At, server, worker
  <2> QED  BY <2>1, GoStep, Zenon
<1> QED  BY <1>1, SignInV, ReadV, PutV, PostV, UnauthorizedV, FailV DEF Requests

\* The invariant at first, ...
LEMMA InitV == ASSUME Init, NoneIsNoRow PROVE VInv
<1>1. RowsOK
  BY DEF Init, RowsOK, Has
<1> QED  BY <1>1 DEF Init, VInv, EntriesOK, Objects

\* ... and after each step.
LEMMA NextV == ASSUME VInv, NoneIsNoRow, [Next]_vars PROVE VInv'
<1>1. CASE \E h \in Handlers : Messages(h) \/ Sessions(h) \/ Refreshes(h) \/ Saves(h) \/ Requests(h)
  BY <1>1, MessagesV, SessionsV, RefreshesV, SavesV, RequestsV
<1>2. CASE Navigate \/ Expire \/ Age \/ UNCHANGED vars
  BY <1>2, StillV DEF Navigate, Expire, Age, vars, server, worker
<1> QED  BY <1>1, <1>2, OtherClientV, KillV DEF Next

\* What is known of an item is known of a version of it, whatever messages overlap.
THEOREM Versions == ASSUME NoneIsNoRow PROVE Spec => []VInv
BY InitV, NextV, PTL DEF Spec

\* An entry of the cache that has the version of the server has its data: a save
\* under that version undoes nothing, whatever messages overlap (updateItemPassword).
THEOREM CacheIsCurrent == ASSUME NoneIsNoRow PROVE Spec => []CacheIsOfItsVersion
<1>1. VInv => CacheIsOfItsVersion
  BY DEF VInv, EntriesOK, Past, CacheIsOfItsVersion
<1> QED  BY <1>1, Versions, PTL

-----------------------------------------------------------------------------
(* 2. The session, one message at a time *)

OneAtATime == Handlers # {} /\ \A h, g \in Handlers : h = g

Saved ==
  /\ store.token = mem.token /\ store.encKey = mem.encKey
  /\ store.privateKey = mem.privateKey /\ store.pendingSSO = mem.pendingSSO

\* A login has failed half way: nothing is saved, and there is no private key.
Half ==
  /\ store.token = 0 /\ mem.encKey /\ ~ mem.privateKey
  /\ store.pendingSSO = mem.pendingSSO

Kept == Saved \/ Half

\* A login that has not failed yet: it is sent when no session is saved.
Begun(r) ==
  /\ r.kind = "login"
  /\ \/ r.at \in {"start", "restore", "import", "run", "derive", "unwrap"}
     \/ r.at \in {"sent", "answered"} /\ r.req.verb \in {"login", "sso"}

\* The message has changed the session and not saved it yet.
Entering(r) ==
  \/ r.at = "import"
  \/ r.kind = "login" /\ r.at \in {"derive", "unwrap", "write"}
  \/ r.kind = "ssoUnlock" /\ r.at \in {"save", "write"}

HeldOK ==
  /\ mem \in Memory /\ store \in Session /\ tokens \in 0..MaxToken
  /\ store.token = 0 => ~ store.encKey /\ ~ store.privateKey
  /\ mem.token = 0 => /\ ~ mem.encKey /\ ~ mem.privateKey /\ ~ mem.primed
                      /\ mem.vaults = {} /\ mem.keys = {} /\ cache = {}
  /\ mem.pendingSSO \in {0, store.pendingSSO}

SOp(r) ==
  /\ DOMAIN r = Fields /\ r.session \in Session /\ r.left \subseteq Vaults
  /\ r.kind = "close" => r.at \in {"get", "got"}
  /\ r.at \in {"restore", "import"} => r.session = store
  /\ r.kind # "close" /\ r.at \notin {"start", "restore"} => mem.pendingSSO = store.pendingSSO
  /\ Entering(r) => mem.token # 0
  /\ r.at = "import" => /\ mem.token = store.token
                        /\ mem.encKey => store.encKey
                        /\ mem.privateKey => store.privateKey
  /\ r.kind = "login" /\ r.at \in {"unwrap", "write"} => mem.encKey
  /\ r.kind = "login" /\ r.at = "write" => mem.privateKey
  /\ r.kind = "ssoUnlock" /\ r.at \in {"save", "write"} => mem.encKey /\ mem.privateKey
  /\ r.kind \in {"login", "ssoUnlock"} /\ r.at = "write"
       => r.session.token = mem.token /\ r.session.encKey = TRUE
  /\ r.at \in {"sent", "answered"} /\ r.req.verb \notin {"login", "sso"} => mem.token # 0
  /\ r.at \in {"sent", "answered"} /\ r.req.verb = "key" => r.vault \in Vaults
  /\ r.at = "answered" /\ r.req.verb \in {"login", "sso"} => r.session.token # 0
  /\ r.at = "encrypt" => mem.token # 0
  /\ Begun(r) => store.token = 0
  /\ Begun(r) /\ r.at \in {"derive", "unwrap"} => ~ mem.privateKey

SInv ==
  /\ HeldOK /\ DOMAIN op = Handlers
  /\ \A h \in Handlers : op[h] # None => SOp(op[h])
  /\ \A h \in Handlers : (op[h] # None /\ Entering(op[h])) \/ mem.token = 0 \/ Kept

NoneIsNoOperation == DOMAIN None # Fields

\* A message that is in order after a step, with the session and its copy.
LEMMA SStep ==
  ASSUME SInv, OneAtATime, NoneIsNoOperation, NEW h \in Handlers, NEW r, op' = [op EXCEPT ![h] = r],
         HeldOK', r # None => SOp(r)',
         (DOMAIN r = Fields /\ Entering(r)) \/ mem'.token = 0 \/ Kept'
  PROVE  SInv'
BY DEF SInv, OneAtATime, SOp, Begun, Entering, Kept, Saved, Half, HeldOK, NoneIsNoOperation

\* The session and its copy stay, and no item comes into the cache of no session.
SessionStays == UNCHANGED <<mem, store, tokens>> /\ (cache' \in {cache, {}} \/ mem.token # 0)

\* A step that leaves the session.
LEMMA PlainStep ==
  ASSUME SInv, OneAtATime, NoneIsNoOperation, NEW h \in Handlers, op[h] # None, ~ Entering(op[h]),
         NEW r, op' = [op EXCEPT ![h] = r], r # None => SOp(r), SessionStays
  PROVE  SInv'
<1>1. HeldOK' /\ (mem'.token = 0 \/ Kept')
  BY DEF SInv, HeldOK, Kept, Saved, Half, SessionStays
<1>2. r # None => SOp(r)'
  BY DEF SOp, Begun, Entering, SessionStays
<1> QED  BY <1>1, <1>2, SStep

\* A message that has the session and does not change it.
Settled(g) == g # None /\ ~ Entering(g) /\ g.kind # "close" /\ g.at \notin {"start", "restore"}

\* What it may become.
Moved(r, g) ==
  /\ DOMAIN r = Fields /\ r.kind \in {g.kind, "refresh"} /\ r.session = g.session
  /\ r.left \subseteq Vaults
  /\ \/ r.at \in {"unauthorized", "ensure", "refresh", "next", "go", "get", "got"}
     \/ r.at = "save" /\ r.kind \in {"commit", "passkey"}
     \/ r.at = "derive" /\ r.kind = "ssoUnlock"
     \/ r.at = "encrypt" /\ mem.token # 0
     \/ /\ r.at = "sent" /\ (r.req.verb \in {"login", "sso"} \/ mem.token # 0)
        /\ r.req.verb = "key" => r.vault \in Vaults
        /\ r.kind = "login" /\ r.req.verb \in {"login", "sso"} => store.token = 0

\* A step of a message that is not about to change the session.
LEMMA MovedStep ==
  ASSUME SInv, OneAtATime, NoneIsNoOperation, NEW h \in Handlers, Settled(op[h]),
         NEW r, op' = [op EXCEPT ![h] = r], Moved(r, op[h]), SessionStays
  PROVE  SInv'
<1>1. SOp(op[h])
  BY DEF SInv, Settled
<1>2. SOp(r)
  BY <1>1 DEF SOp, Begun, Entering, Moved, Settled
<1> QED  BY <1>2, PlainStep DEF Settled

\* It goes on, ...
LEMMA GoS ==
  ASSUME SInv, OneAtATime, NoneIsNoOperation, NEW h \in Handlers, Settled(op[h]),
         NEW s \in {"unauthorized", "ensure", "refresh", "next", "go", "get", "got", "derive"},
         s = "derive" => op[h].kind = "ssoUnlock", Go(h, s), SessionStays
  PROVE  SInv'
<1> PICK g : g = op[h]
  OBVIOUS
<1> PICK r : r = [g EXCEPT !.at = s]
  OBVIOUS
<1>1. SOp(g) /\ op' = [op EXCEPT ![h] = r]
  BY DEF SInv, Go, Set, Settled
<1>2. DOMAIN r = Fields /\ r.kind = g.kind /\ r.session = g.session /\ r.left = g.left /\ r.at = s
  BY <1>1 DEF SOp, Begun, Fields
<1>3. Moved(r, g)
  BY <1>1, <1>2 DEF SOp, Begun, Moved
<1> QED  BY <1>1, <1>3, MovedStep

\* ... ends, ...
LEMMA EndS ==
  ASSUME SInv, OneAtATime, NoneIsNoOperation, NEW h \in Handlers, op[h] # None, ~ Entering(op[h]),
         End(h), SessionStays
  PROVE  SInv'
BY PlainStep DEF End, Set

\* ... asks, ...
LEMMA AskS ==
  ASSUME SInv, OneAtATime, NoneIsNoOperation, NEW h \in Handlers, Settled(op[h]),
         NEW q, DOMAIN q = Fields, q.kind = op[h].kind, q.session = op[h].session, q.left \subseteq Vaults,
         NEW m, NEW v, m \in {"login", "sso"} \/ mem.token # 0, m = "key" => q.vault \in Vaults,
         q.kind = "login" /\ m \in {"login", "sso"} => store.token = 0,
         Set(h, Ask(q, m, v)), SessionStays
  PROVE  SInv'
<1> PICK r : r = Ask(q, m, v)
  OBVIOUS
<1>1. op' = [op EXCEPT ![h] = r]
  BY DEF Set
<1>2. DOMAIN r = Fields /\ r.kind = q.kind /\ r.session = q.session /\ r.left = q.left /\ r.at = "sent"
      /\ r.req.verb = m /\ r.vault = q.vault
  BY DEF Ask, Fields
<1>3. Moved(r, op[h])
  BY <1>2 DEF Moved
<1> QED  BY <1>1, <1>3, MovedStep

\* ... is ready to save, ...
LEMMA ReadyS ==
  ASSUME SInv, OneAtATime, NoneIsNoOperation, NEW h \in Handlers, Settled(op[h]),
         NEW q, DOMAIN q = Fields, q.kind = op[h].kind, q.session = op[h].session, q.left \subseteq Vaults,
         mem.token # 0, Set(h, Ready(q)), SessionStays
  PROVE  SInv'
<1> PICK r : r = Ready(q)
  OBVIOUS
<1>1. op' = [op EXCEPT ![h] = r]
  BY DEF Set
<1>2. DOMAIN r = Fields /\ r.kind = q.kind /\ r.session = q.session /\ r.left = q.left /\ r.at = "encrypt"
  BY DEF Ready, Fields
<1>3. Moved(r, op[h])
  BY <1>2 DEF Moved
<1> QED  BY <1>1, <1>3, MovedStep

\* ... looks for the key of a save, ...
LEMMA WithKeyS ==
  ASSUME SInv, OneAtATime, NoneIsNoOperation, NEW h \in Handlers, Settled(op[h]),
         NEW q, DOMAIN q = Fields, q.kind = op[h].kind, q.session = op[h].session, q.left \subseteq Vaults,
         q.vault \in Vaults, WithKey(h, q), SessionStays
  PROVE  SInv'
<1>1. HasKey(q.vault) \/ CanOpen(q.vault) => mem.token # 0
  BY DEF SInv, HeldOK, HasKey, CanOpen
<1> QED  BY <1>1, ReadyS, AskS, EndS DEF WithKey, Settled

\* ... has no key, ...
LEMMA NoKeyS ==
  ASSUME SInv, OneAtATime, NoneIsNoOperation, NEW h \in Handlers, Settled(op[h]), NoKey(h), SessionStays
  PROVE  SInv'
<1> PICK g : g = op[h]
  OBVIOUS
<1> PICK r : r = [g EXCEPT !.at = "next", !.left = @ \ {g.vault}, !.req = None]
  OBVIOUS
<1>1. SOp(g)
  BY DEF SInv, Settled
<1>2. DOMAIN r = Fields /\ r.kind = g.kind /\ r.session = g.session /\ r.left \subseteq Vaults /\ r.at = "next"
  BY <1>1 DEF SOp, Begun, Fields
<1>3. Moved(r, g)
  BY <1>2 DEF Moved
<1>4. op' = [op EXCEPT ![h] = r] \/ End(h)
  BY DEF NoKey, Set
<1> QED  BY <1>3, <1>4, MovedStep, EndS DEF Settled

\* ... or comes.
LEMMA MessageS ==
  ASSUME SInv, OneAtATime, NoneIsNoOperation, NEW h \in Handlers, op[h] = None, NEW k, NEW t, NEW c,
         NEW r, op' = [op EXCEPT ![h] = r],
         r = Message(k, t) \/ r = [Message(k, t) EXCEPT !.cred = c],
         k # "login" \/ store.token = 0,
         UNCHANGED <<mem, store, tokens, cache>>
  PROVE  SInv'
<1>1. HeldOK' /\ (mem'.token = 0 \/ Kept')
  BY DEF SInv, HeldOK, Kept, Saved, Half
<1>2. NoSession \in Session
  <2>1. 0 \in 0..MaxToken
    BY ExtensionAssumption
  <2> QED  BY <2>1 DEF NoSession, Session
<1>3. /\ DOMAIN r = Fields /\ r.kind = k /\ r.at = (IF k = "close" THEN "get" ELSE "start")
      /\ r.session = NoSession /\ r.left = {}
  BY DEF Message, Fields
<1>4. SOp(r)'
  BY <1>2, <1>3 DEF SOp, Begun, Entering
<1> QED BY <1>1, <1>4, SStep

\* The popup and the tabs send a message: nothing has happened yet.
LEMMA MessagesS ==
  ASSUME SInv, OneAtATime, NoneIsNoOperation, NEW h \in Handlers, Messages(h)
  PROVE  SInv'
<1>1. CASE Popup(h)
  BY <1>1, MessageS DEF Popup, Set, worker, server, Idle
<1>2. CASE Submit(h)
  <2>1. PICK t, c, r : r = [Message("stage", t) EXCEPT !.cred = c] /\ Set(h, r)
    BY <1>2 DEF Submit
  <2>2. op[h] = None /\ UNCHANGED <<mem, store, tokens, cache>> /\ op' = [op EXCEPT ![h] = r]
    BY <1>2, <2>1 DEF Submit, Set, worker, server, Idle
  <2>3. "stage" # "login"
    OBVIOUS
  <2> QED  BY <2>1, <2>2, <2>3, MessageS
<1>3. CASE Page(h) \/ Close(h)
  <2>1. PICK k, t : Set(h, Message(k, t)) /\ k # "login"
    BY <1>3 DEF Page, Close
  <2> PICK r : r = Message(k, t)
    OBVIOUS
  <2>2. op[h] = None /\ UNCHANGED <<mem, store, tokens, cache>> /\ op' = [op EXCEPT ![h] = r]
    BY <1>3, <2>1 DEF Page, Close, Set, worker, server, Idle
  <2> QED  BY <2>1, <2>2, MessageS
<1> QED  BY <1>1, <1>2, <1>3 DEF Messages

\* For the keys, that are there or not.
LEMMA Implied ==
  ASSUME NEW a \in BOOLEAN, NEW b \in BOOLEAN, a => b
  PROVE  (a \/ b) = b
OBVIOUS

\* What a restore imports is what the copy has.
LEMMA KeysOf ==
  ASSUME mem \in Memory, store \in Session,
         mem.encKey => store.encKey, mem.privateKey => store.privateKey
  PROVE  /\ (mem.encKey \/ store.encKey) = store.encKey
         /\ (mem.privateKey \/ store.privateKey) = store.privateKey
<1>1. /\ store.encKey \in BOOLEAN /\ store.privateKey \in BOOLEAN
      /\ mem.encKey \in BOOLEAN /\ mem.privateKey \in BOOLEAN
  BY DEF Memory, Session
<1>2. (mem.encKey \/ store.encKey) = store.encKey
  BY <1>1, Implied, Zenon
<1>3. (mem.privateKey \/ store.privateKey) = store.privateKey
  BY <1>1, Implied, Zenon
<1> QED  BY <1>2, <1>3

\* A restored session is the one that is stored: it is the one the worker has.
LEMMA RestoreS ==
  ASSUME SInv, OneAtATime, NoneIsNoOperation, NEW h \in Handlers,
         ReadSession(h) \/ RestoreToken(h) \/ ImportKeys(h)
  PROVE  SInv'
<1> PICK g : g = op[h]
  OBVIOUS
<1>1. g # None /\ SOp(g) /\ HeldOK /\ (Entering(g) \/ mem.token = 0 \/ Kept) /\ g.kind # "close"
  BY DEF ReadSession, RestoreToken, ImportKeys, At, SInv, SOp, Begun
<1>2. CASE ReadSession(h)
  <2> PICK r : r = [g EXCEPT !.at = "restore", !.session = store]
    OBVIOUS
  <2>1. op' = [op EXCEPT ![h] = r] /\ UNCHANGED <<mem, store, tokens, cache>> /\ g.at = "start"
    BY <1>2 DEF ReadSession, Set, server, worker, At
  <2>2. /\ DOMAIN r = Fields /\ r.kind = g.kind /\ r.session = store /\ r.left = g.left
        /\ r.at = "restore"
    BY <1>1 DEF SOp, Begun, Fields
  <2>3. SOp(r) /\ ~ Entering(g)
    BY <1>1, <2>1, <2>2 DEF SOp, Begun, Entering, HeldOK
  <2> QED  BY <1>1, <2>1, <2>3, PlainStep DEF SessionStays
<1>3. CASE RestoreToken(h)
  <2> PICK r : r = [g EXCEPT !.at = IF g.session.encKey \/ g.session.privateKey
                                    THEN "import" ELSE "run"]
    OBVIOUS
  <2>1. /\ op' = [op EXCEPT ![h] = r] /\ UNCHANGED <<store, tokens, cache>>
        /\ g.at = "restore" /\ g.session = store
    BY <1>1, <1>3 DEF RestoreToken, Go, Set, server, At, SOp, Begun
  <2>2. /\ DOMAIN r = Fields /\ r.kind = g.kind /\ r.session = store /\ r.left = g.left
        /\ r.at = IF store.encKey \/ store.privateKey THEN "import" ELSE "run"
    BY <1>1, <2>1 DEF SOp, Begun, Fields
  <2>3. mem.token # 0 => Kept
    BY <1>1, <2>1 DEF Entering
  <2>4. /\ mem' \in Memory /\ mem'.token = (IF store.token = 0 THEN mem.token ELSE store.token)
        /\ mem'.encKey = mem.encKey /\ mem'.privateKey = mem.privateKey
        /\ mem'.primed = mem.primed /\ mem'.vaults = mem.vaults /\ mem'.keys = mem.keys
        /\ mem'.pendingSSO = store.pendingSSO
    BY <1>1, <1>3, <2>1, <2>3 DEF RestoreToken, HeldOK, Memory, Session, Kept, Saved, Half
  <2>5. HeldOK'
    BY <1>1, <2>1, <2>3, <2>4 DEF HeldOK, Kept, Saved, Half
  <2>6. SOp(r)'
    BY <1>1, <2>1, <2>2, <2>3, <2>4 DEF SOp, Begun, Entering, HeldOK, Kept, Saved, Half
  <2>7. Entering(r) \/ mem'.token = 0 \/ Kept'
    BY <1>1, <2>1, <2>2, <2>3, <2>4 DEF Entering, HeldOK, Kept, Saved, Half, Memory, Session
  <2> QED  BY <2>1, <2>2, <2>5, <2>6, <2>7, SStep
<1>4. CASE ImportKeys(h)
  <2> PICK r : r = [g EXCEPT !.at = "run", !.session = NoSession]
    OBVIOUS
  <2>1. /\ op' = [op EXCEPT ![h] = r] /\ UNCHANGED <<store, tokens, cache>> /\ g.at = "import"
        /\ g.session = store /\ mem.token = store.token /\ mem.token # 0
        /\ mem.pendingSSO = store.pendingSSO
        /\ (mem.encKey => store.encKey) /\ (mem.privateKey => store.privateKey)
    BY <1>1, <1>4 DEF ImportKeys, Set, server, At, SOp, Begun, Entering
  <2>2. DOMAIN r = Fields /\ r.kind = g.kind /\ r.session = NoSession /\ r.left = g.left /\ r.at = "run"
    BY <1>1 DEF SOp, Begun, Fields
  <2>3. /\ mem' \in Memory /\ mem'.token = mem.token /\ mem'.pendingSSO = mem.pendingSSO
        /\ mem'.encKey = (mem.encKey \/ store.encKey)
        /\ mem'.privateKey = (mem.privateKey \/ store.privateKey)
    BY <1>1, <1>4, <2>1 DEF ImportKeys, HeldOK, Memory
  <2>4. mem'.encKey = store.encKey /\ mem'.privateKey = store.privateKey
    BY <1>1, <2>1, <2>3, KeysOf DEF HeldOK
  <2>5. Kept' /\ HeldOK'
    BY <1>1, <2>1, <2>3, <2>4 DEF Kept, Saved, Half, HeldOK
  <2>6. SOp(r)'
    <3>1. NoSession \in Session
      <4>1. 0 \in 0..MaxToken
        BY ExtensionAssumption
      <4> QED  BY <4>1 DEF NoSession, Session
    <3> QED  BY <1>1, <2>1, <2>2, <2>3, <3>1 DEF SOp, Begun, Entering
  <2> QED  BY <2>1, <2>5, <2>6, SStep
<1> QED  BY <1>2, <1>3, <1>4

\* A logout empties the session and its copy.
LEMMA LogoutS ==
  ASSUME SInv, NEW o, LoggedOut(o), UNCHANGED tokens
  PROVE  HeldOK' /\ mem'.token = 0 /\ mem'.pendingSSO = store'.pendingSSO
<1>1. 0 \in 0..MaxToken
  BY ExtensionAssumption
<1> QED  BY <1>1 DEF SInv, HeldOK, LoggedOut, NoMemory, NoSession, Memory, Session

\* Run keeps SInv.
LEMMA RunS ==
  ASSUME SInv, OneAtATime, NoneIsNoOperation, NEW h \in Handlers, Run(h)
  PROVE  SInv'
<1> PICK g : g = op[h]
  OBVIOUS
<1>1. /\ Settled(g) /\ SOp(g) /\ g.kind \in Kinds /\ SessionStays
  BY DEF Run, At, SInv, SOp, Begun, Settled, Entering, server, worker, SessionStays
<1>2. CASE \/ g.kind = "login" /\ Set(h, Ask(g, "login", None))
           \/ g.kind = "ssoStart" /\ Set(h, Ask(g, "sso", None))
  <2>1. g.kind = "login" => store.token = 0
    BY <1>1 DEF Run, At, SOp, Begun
  <2> QED  BY <1>1, <1>2, <2>1, AskS DEF SOp
<1>3. CASE End(h)
  BY <1>1, <1>3, EndS DEF Settled
<1>4. CASE g.kind = "ssoUnlock" /\ Go(h, "derive")
  BY <1>1, <1>4, GoS
<1>5. CASE Go(h, "ensure") \/ Go(h, "refresh") \/ Go(h, "get")
  BY <1>1, <1>5, GoS
<1> QED  BY <1>2, <1>3, <1>4, <1>5 DEF Run

\* The token of a sign-in is not saved yet, one that waits for the password is.
LEMMA TakeTokenS ==
  ASSUME SInv, OneAtATime, NoneIsNoOperation, NEW h \in Handlers, TakeToken(h)
  PROVE  SInv'
<1> PICK g : g = op[h]
  OBVIOUS
<1> PICK t : t = g.session.token
  OBVIOUS
<1>1. /\ Settled(g) /\ SOp(g) /\ HeldOK /\ (mem.token = 0 \/ Kept) /\ t \in (0..MaxToken) \ {0}
      /\ mem.pendingSSO = store.pendingSSO /\ UNCHANGED <<tokens, cache>>
  BY DEF TakeToken, At, SInv, SOp, Begun, Settled, Entering, server, Session
<1>2. CASE g.kind = "login"
  <2> PICK r : r = [g EXCEPT !.at = "derive"]
    OBVIOUS
  <2>1. op' = [op EXCEPT ![h] = r] /\ UNCHANGED store
    BY <1>2 DEF TakeToken, Go, Set
  <2>2. /\ DOMAIN r = Fields /\ r.kind = "login" /\ r.session = g.session /\ r.left = g.left
        /\ r.at = "derive"
    BY <1>1, <1>2 DEF SOp, Begun, Fields
  <2>3. /\ mem' \in Memory /\ mem'.token = t /\ mem'.pendingSSO = mem.pendingSSO
        /\ mem'.privateKey = mem.privateKey
    BY <1>1, <1>2 DEF TakeToken, HeldOK, Memory
  <2>5. store.token = 0 /\ ~ mem.privateKey
    <3>1. Begun(g)
      BY <1>2 DEF TakeToken, At, Begun
    <3> QED  BY <1>1, <3>1 DEF SOp, HeldOK, Kept, Saved, Half
  <2>4. HeldOK' /\ SOp(r)' /\ Entering(r)
    BY <1>1, <2>1, <2>2, <2>3, <2>5 DEF HeldOK, SOp, Begun, Entering
  <2> QED  BY <2>1, <2>2, <2>4, SStep
<1>3. CASE g.kind # "login"
  <2>1. op' = [op EXCEPT ![h] = None]
    BY <1>3 DEF TakeToken, End, Set
  <2>2. /\ mem' \in Memory /\ mem'.pendingSSO = t /\ mem'.token = mem.token
        /\ mem'.encKey = mem.encKey /\ mem'.privateKey = mem.privateKey
        /\ mem'.primed = mem.primed /\ mem'.vaults = mem.vaults /\ mem'.keys = mem.keys
    BY <1>1, <1>3 DEF TakeToken, HeldOK, Memory
  <2>3. /\ store' \in Session /\ store'.pendingSSO = t /\ store'.token = store.token
        /\ store'.encKey = store.encKey /\ store'.privateKey = store.privateKey
    BY <1>1, <1>3 DEF TakeToken, HeldOK, Session
  <2>4. HeldOK' /\ (mem'.token = 0 \/ Kept')
    BY <1>1, <2>2, <2>3 DEF HeldOK, Kept, Saved, Half
  <2> QED  BY <2>1, <2>4, SStep
<1> QED  BY <1>2, <1>3

\* The keys of a sign-in come one after the other, with the token in memory.
LEMMA SignedInS ==
  ASSUME SInv, OneAtATime, NoneIsNoOperation, NEW h \in Handlers,
         DeriveKey(h) \/ UnwrapKey(h) \/ saveSession(h)
  PROVE  SInv'
<1> PICK g : g = op[h]
  OBVIOUS
<1> PICK s : s = [NoSession EXCEPT !.token = mem.token, !.encKey = mem.encKey]
  OBVIOUS
<1>1. /\ SOp(g) /\ HeldOK /\ Entering(g) /\ mem.token # 0 /\ mem.pendingSSO = store.pendingSSO
      /\ UNCHANGED <<tokens, cache, store>>
  BY DEF DeriveKey, UnwrapKey, saveSession, At, SInv, SOp, Begun, Entering, server, worker
<1>2. s \in Session /\ s.token = mem.token /\ s.encKey = mem.encKey
  <2>1. 0 \in 0..MaxToken
    BY ExtensionAssumption
  <2> QED  BY <1>1, <2>1 DEF NoSession, Session, HeldOK, Memory
<1>3. CASE DeriveKey(h)
  <2> PICK r : r = [g EXCEPT !.at = "unwrap"]
    OBVIOUS
  <2>1. op' = [op EXCEPT ![h] = r] /\ g.kind = "login"
    BY <1>3 DEF DeriveKey, Go, Set, At
  <2>2. /\ DOMAIN r = Fields /\ r.kind = "login" /\ r.session = g.session /\ r.left = g.left
        /\ r.at = "unwrap"
    BY <1>1, <2>1 DEF SOp, Begun, Fields
  <2>3. /\ mem' \in Memory /\ mem'.token = mem.token /\ mem'.pendingSSO = mem.pendingSSO
        /\ mem'.encKey /\ mem'.privateKey = mem.privateKey
    BY <1>1, <1>3 DEF DeriveKey, HeldOK, Memory
  <2>5. Begun(g) /\ g.at = "derive"
    BY <1>3 DEF DeriveKey, At, Begun
  <2>4. HeldOK' /\ SOp(r)' /\ Entering(r)
    BY <1>1, <2>1, <2>2, <2>3, <2>5 DEF HeldOK, SOp, Begun, Entering
  <2> QED  BY <2>1, <2>2, <2>4, SStep
<1>4. CASE UnwrapKey(h) /\ End(h) /\ UNCHANGED mem
  <2>1. Begun(g) /\ g.at = "unwrap" /\ op' = [op EXCEPT ![h] = None]
    BY <1>4 DEF UnwrapKey, At, Begun, End, Set
  <2>2. HeldOK' /\ Kept'
    BY <1>1, <1>4, <2>1 DEF HeldOK, SOp, Begun, Kept, Half
  <2> QED  BY <2>1, <2>2, SStep
<1>5. CASE /\ op' = [op EXCEPT ![h] = [g EXCEPT !.at = "write", !.session = s]]
           /\ \/ UnwrapKey(h) /\ mem' = [mem EXCEPT !.privateKey = TRUE, !.keys = {}]
              \/ saveSession(h)
  <2> PICK r : r = [g EXCEPT !.at = "write", !.session = s]
    OBVIOUS
  <2>1. op' = [op EXCEPT ![h] = r] /\ g.kind \in {"login", "ssoUnlock"}
        /\ mem.encKey = TRUE /\ (g.kind = "login" \/ mem.privateKey)
    BY <1>1, <1>5 DEF UnwrapKey, saveSession, Set, At, SOp, Begun, HeldOK, Memory
  <2>2. /\ DOMAIN r = Fields /\ r.kind = g.kind /\ r.session = s /\ r.left = g.left
        /\ r.at = "write"
    BY <1>1, <2>1 DEF SOp, Begun, Fields
  <2>3. /\ mem' \in Memory /\ mem'.token = mem.token /\ mem'.pendingSSO = mem.pendingSSO
        /\ mem'.encKey = mem.encKey /\ mem'.privateKey
    BY <1>1, <1>5, <2>1 DEF UnwrapKey, saveSession, HeldOK, Memory, At, worker
  <2>4. HeldOK' /\ SOp(r)' /\ Entering(r)
    BY <1>1, <1>2, <2>1, <2>2, <2>3 DEF HeldOK, SOp, Begun, Entering
  <2> QED  BY <2>1, <2>2, <2>4, SStep
<1> QED  BY <1>3, <1>4, <1>5 DEF UnwrapKey, saveSession, Set

\* After an SSO, the token that waited and the keys are there at once.
LEMMA ssoUnlockS ==
  ASSUME SInv, OneAtATime, NoneIsNoOperation, NEW h \in Handlers, ssoUnlock(h)
  PROVE  SInv'
<1> PICK g : g = op[h]
  OBVIOUS
<1>1. /\ Settled(g) /\ SOp(g) /\ HeldOK /\ g.kind = "ssoUnlock"
      /\ mem.pendingSSO = store.pendingSSO /\ UNCHANGED <<tokens, cache>>
  BY DEF ssoUnlock, At, SInv, SOp, Begun, Settled, Entering, server
<1>2. CASE End(h) /\ UNCHANGED <<mem, store>>
  BY <1>1, <1>2, EndS DEF Settled, SessionStays
<1>3. CASE Go(h, "save") /\ mem.pendingSSO # 0
           /\ mem' = [mem EXCEPT !.token = mem.pendingSSO, !.encKey = TRUE,
                                 !.privateKey = TRUE, !.keys = {}, !.pendingSSO = 0]
           /\ store' = [store EXCEPT !.pendingSSO = 0]
  <2> PICK r : r = [g EXCEPT !.at = "save"]
    OBVIOUS
  <2>1. op' = [op EXCEPT ![h] = r]
    BY <1>3 DEF Go, Set
  <2>2. /\ DOMAIN r = Fields /\ r.kind = "ssoUnlock" /\ r.session = g.session /\ r.left = g.left
        /\ r.at = "save"
    BY <1>1 DEF SOp, Begun, Fields
  <2>0. 0 \in 0..MaxToken
    BY ExtensionAssumption
  <2>3. /\ mem' \in Memory /\ mem'.token # 0 /\ mem'.pendingSSO = 0
        /\ mem'.encKey /\ mem'.privateKey
    BY <1>1, <1>3, <2>0 DEF HeldOK, Memory
  <2>4. /\ store' \in Session /\ store'.pendingSSO = 0 /\ store'.token = store.token
        /\ store'.encKey = store.encKey /\ store'.privateKey = store.privateKey
    BY <1>1, <1>3, <2>0 DEF HeldOK, Session
  <2>5. HeldOK' /\ SOp(r)' /\ Entering(r)
    BY <1>1, <2>1, <2>2, <2>3, <2>4 DEF HeldOK, SOp, Begun, Entering
  <2> QED  BY <2>1, <2>2, <2>5, SStep
<1> QED  BY <1>2, <1>3 DEF ssoUnlock

\* What is written is the session: the sign-in is over.
LEMMA WriteSessionS ==
  ASSUME SInv, OneAtATime, NoneIsNoOperation, NEW h \in Handlers, WriteSession(h)
  PROVE  SInv'
<1> PICK g : g = op[h]
  OBVIOUS
<1> PICK s : s = g.session
  OBVIOUS
<1> PICK r : r = [g EXCEPT !.at = "refresh", !.session = NoSession]
  OBVIOUS
<1>1. /\ SOp(g) /\ HeldOK /\ mem.token # 0 /\ mem.pendingSSO = store.pendingSSO
      /\ mem.encKey /\ mem.privateKey /\ s.token = mem.token /\ s.encKey = TRUE
      /\ UNCHANGED <<tokens, cache, mem>> /\ op' = [op EXCEPT ![h] = r] /\ g.kind # "close"
  BY DEF WriteSession, Set, At, SInv, SOp, Begun, Entering, server, worker
<1>2. /\ store' \in Session /\ store'.token = mem.token /\ store'.encKey = TRUE
      /\ store'.privateKey = TRUE /\ store'.pendingSSO = store.pendingSSO
  BY <1>1 DEF WriteSession, HeldOK, Session, Memory
<1>3. /\ DOMAIN r = Fields /\ r.kind = g.kind /\ r.session = NoSession /\ r.left = g.left
      /\ r.at = "refresh"
  BY <1>1 DEF SOp, Begun, Fields
<1>4. NoSession \in Session
  <2>1. 0 \in 0..MaxToken
    BY ExtensionAssumption
  <2> QED  BY <2>1 DEF NoSession, Session
<1>5. HeldOK' /\ Kept'
  BY <1>1, <1>2 DEF HeldOK, Kept, Saved, Half, Memory
<1>6. SOp(r)'
  BY <1>1, <1>2, <1>3, <1>4 DEF SOp, Begun, Entering
<1> QED  BY <1>1, <1>5, <1>6, SStep

\* The worker takes the vaults up that it has been told of.
LEMMA refreshAllItemsS ==
  ASSUME SInv, OneAtATime, NoneIsNoOperation, NEW h \in Handlers, refreshAllItems(h)
  PROVE  SInv'
<1> PICK g : g = op[h]
  OBVIOUS
<1>1. Settled(g) /\ SOp(g) /\ HeldOK /\ UNCHANGED <<store, tokens, cache>>
      /\ (mem.token = 0 \/ Kept)
  BY DEF refreshAllItems, At, SInv, SOp, Begun, Settled, Entering, server
<1>2. CASE LoggedIn
  <2> PICK r : r = Ask(g, "vaults", None)
    OBVIOUS
  <2>1. op' = [op EXCEPT ![h] = r]
    BY <1>2 DEF refreshAllItems, Set
  <2>2. /\ DOMAIN r = Fields /\ r.kind = g.kind /\ r.session = g.session /\ r.left = g.left
        /\ r.at = "sent" /\ r.req.verb = "vaults"
    BY <1>1 DEF SOp, Begun, Ask, Fields
  <2>3. /\ mem' \in Memory /\ mem'.token = mem.token /\ mem'.pendingSSO = mem.pendingSSO
        /\ mem'.encKey = mem.encKey /\ mem'.privateKey = mem.privateKey /\ mem.token # 0
    BY <1>1, <1>2 DEF refreshAllItems, HeldOK, Memory, LoggedIn
  <2>4. HeldOK' /\ SOp(r)' /\ Kept'
    BY <1>1, <2>2, <2>3 DEF HeldOK, SOp, Begun, Entering, Kept, Saved, Half, Settled
  <2> QED  BY <2>1, <2>4, SStep
<1>3. CASE ~ LoggedIn
  BY <1>1, <1>3, GoS DEF refreshAllItems, SessionStays
<1> QED  BY <1>2, <1>3

\* Without a session there is no vault to ask about.
LEMMA TakeVaultsS ==
  ASSUME SInv, OneAtATime, NoneIsNoOperation, NEW h \in Handlers, TakeVaults(h)
  PROVE  SInv'
<1> PICK g : g = op[h]
  OBVIOUS
<1> PICK n : n = NewLoad(h)
  OBVIOUS
<1> PICK r : r = [g EXCEPT !.at = "next", !.left = Vaults, !.load = n, !.obj = None, !.req = None]
  OBVIOUS
<1>1. /\ Settled(g) /\ SOp(g) /\ HeldOK /\ UNCHANGED <<store, tokens>> /\ cache' = {}
      /\ Kept /\ mem.token # 0 /\ op' = [op EXCEPT ![h] = r]
  BY DEF TakeVaults, At, SInv, SOp, Begun, Settled, Entering, server, Emptied, Set
<1>2. DOMAIN r = Fields /\ r.kind = g.kind /\ r.session = g.session /\ r.left = Vaults /\ r.at = "next"
  BY <1>1 DEF SOp, Begun, Fields
<1>3. /\ mem' \in Memory /\ mem'.token = mem.token /\ mem'.pendingSSO = mem.pendingSSO
      /\ mem'.encKey = mem.encKey /\ mem'.privateKey = mem.privateKey
  BY <1>1 DEF TakeVaults, HeldOK, Memory
<1>4. HeldOK' /\ SOp(r)' /\ Kept'
  BY <1>1, <1>2, <1>3 DEF HeldOK, SOp, Begun, Entering, Kept, Saved, Half, Settled
<1> QED  BY <1>1, <1>4, SStep

\* NextVault keeps SInv.
LEMMA NextVaultS ==
  ASSUME SInv, OneAtATime, NoneIsNoOperation, NEW h \in Handlers, NextVault(h)
  PROVE  SInv'
<1> PICK g : g = op[h]
  OBVIOUS
<1>1. Settled(g) /\ SOp(g) /\ HeldOK /\ SessionStays
  BY DEF NextVault, At, SInv, SOp, Begun, Settled, Entering, server, worker, SessionStays
<1>2. CASE Set(h, [g EXCEPT !.at = "go", !.vault = None, !.load = 0])
  <2> PICK r : r = [g EXCEPT !.at = "go", !.vault = None, !.load = 0]
    OBVIOUS
  <2>1. Moved(r, g)
    BY <1>1 DEF SOp, Begun, Fields, Moved
  <2> QED  BY <1>1, <1>2, <2>1, MovedStep DEF Set
<1>3. ASSUME NEW v \in g.left, NEW m \in {"items", "key"}, HasKey(v) \/ CanOpen(v),
             Set(h, Ask([g EXCEPT !.vault = v], m, v))
      PROVE  SInv'
  <2> PICK q : q = [g EXCEPT !.vault = v]
    OBVIOUS
  <2>1. /\ DOMAIN q = Fields /\ q.kind = g.kind /\ q.session = g.session /\ q.left \subseteq Vaults
        /\ q.vault = v /\ v \in Vaults
    BY <1>1 DEF SOp, Begun, Fields
  <2>2. mem.token # 0
    BY <1>1, <1>3 DEF HeldOK, HasKey, CanOpen
  <2> QED  BY <1>1, <1>3, <2>1, <2>2, AskS
<1>4. ASSUME NEW v \in g.left, Set(h, [g EXCEPT !.left = @ \ {v}]), g.at = "next"
      PROVE  SInv'
  <2> PICK r : r = [g EXCEPT !.left = @ \ {v}]
    OBVIOUS
  <2>1. Moved(r, g)
    BY <1>1, <1>4 DEF SOp, Begun, Fields, Moved
  <2> QED  BY <1>1, <1>4, <2>1, MovedStep DEF Set
<1> QED  BY <1>2, <1>3, <1>4 DEF NextVault, At

\* TakeKey keeps SInv.
LEMMA TakeKeyS ==
  ASSUME SInv, OneAtATime, NoneIsNoOperation, NEW h \in Handlers, TakeKey(h)
  PROVE  SInv'
<1> PICK g : g = op[h]
  OBVIOUS
<1>1. /\ Settled(g) /\ SOp(g) /\ HeldOK /\ Kept /\ mem.token # 0
      /\ UNCHANGED <<store, tokens, cache>> /\ g.vault \in Vaults
  BY DEF TakeKey, At, SInv, SOp, Begun, Settled, Entering, server
<1>2. CASE mem.privateKey
  <2>1. PICK r : /\ op' = [op EXCEPT ![h] = r] /\ DOMAIN r = Fields /\ r.kind = g.kind
                 /\ r.session = g.session /\ r.left = g.left
                 /\ \/ r.at = "sent" /\ r.req.verb = "items"
                    \/ r.at = "encrypt"
    <3> PICK q : q = Ask(g, "items", g.vault)
      OBVIOUS
    <3> PICK y : y = Ready(g)
      OBVIOUS
    <3>1. op' = [op EXCEPT ![h] = q] \/ op' = [op EXCEPT ![h] = y]
      BY <1>2 DEF TakeKey, Set
    <3>2. /\ DOMAIN q = Fields /\ q.kind = g.kind /\ q.session = g.session /\ q.left = g.left
          /\ q.at = "sent" /\ q.req.verb = "items"
      BY <1>1 DEF Ask, Fields, SOp, Begun
    <3>3. /\ DOMAIN y = Fields /\ y.kind = g.kind /\ y.session = g.session /\ y.left = g.left
          /\ y.at = "encrypt"
      BY <1>1 DEF Ready, Fields, SOp, Begun
    <3> QED  BY <3>1, <3>2, <3>3
  <2>2. /\ mem' \in Memory /\ mem'.token = mem.token /\ mem'.pendingSSO = mem.pendingSSO
        /\ mem'.encKey = mem.encKey /\ mem'.privateKey = mem.privateKey
    <3>1. mem' = [mem EXCEPT !.keys = @ \union {g.vault}]
      BY <1>2 DEF TakeKey
    <3> QED  BY <1>1, <3>1 DEF HeldOK, Memory
  <2>3. HeldOK' /\ SOp(r)' /\ Kept'
    BY <1>1, <2>1, <2>2 DEF HeldOK, SOp, Begun, Entering, Kept, Saved, Half, Settled
  <2> QED  BY <2>1, <2>3, SStep
<1>3. CASE ~ mem.privateKey
  BY <1>1, <1>3, NoKeyS DEF TakeKey, SessionStays
<1> QED  BY <1>2, <1>3

\* commitPendingSave keeps SInv.
LEMMA commitPendingSaveS ==
  ASSUME SInv, OneAtATime, NoneIsNoOperation, NEW h \in Handlers, commitPendingSave(h)
  PROVE  SInv'
<1> PICK g : g = op[h]
  OBVIOUS
<1>1. Settled(g) /\ SOp(g) /\ SessionStays
  BY DEF commitPendingSave, At, SInv, SOp, Begun, Settled, Entering, server, worker, SessionStays
<1>2. CASE End(h)
  BY <1>1, <1>2, EndS DEF Settled
<1>3. ASSUME NEW p, Set(h, [g EXCEPT !.at = "ensure", !.cred = p])
      PROVE  SInv'
  <2> PICK r : r = [g EXCEPT !.at = "ensure", !.cred = p]
    OBVIOUS
  <2>1. Moved(r, g)
    BY <1>1 DEF SOp, Begun, Fields, Moved
  <2> QED  BY <1>1, <1>3, <2>1, MovedStep DEF Set
<1> QED  BY <1>2, <1>3 DEF commitPendingSave

\* passkeyRegister keeps SInv.
LEMMA passkeyRegisterS ==
  ASSUME SInv, OneAtATime, NoneIsNoOperation, NEW h \in Handlers, passkeyRegister(h)
  PROVE  SInv'
<1> PICK g : g = op[h]
  OBVIOUS
<1>1. Settled(g) /\ SOp(g) /\ SessionStays /\ g.kind = "passkey"
  BY DEF passkeyRegister, At, SInv, SOp, Begun, Settled, Entering, server, worker, SessionStays
<1>2. CASE End(h)
  BY <1>1, <1>2, EndS DEF Settled
<1>3. ASSUME NEW o, Set(h, [g EXCEPT !.at = "save", !.obj = o])
      PROVE  SInv'
  <2> PICK r : r = [g EXCEPT !.at = "save", !.obj = o]
    OBVIOUS
  <2>1. Moved(r, g)
    BY <1>1 DEF SOp, Begun, Fields, Moved
  <2> QED  BY <1>1, <1>3, <2>1, MovedStep DEF Set
<1> QED  BY <1>2, <1>3 DEF passkeyRegister

\* updateItem keeps SInv.
LEMMA updateItemS ==
  ASSUME SInv, OneAtATime, NoneIsNoOperation, NEW h \in Handlers, updateItem(h)
  PROVE  SInv'
<1> PICK g : g = op[h]
  OBVIOUS
<1>1. Settled(g) /\ SOp(g) /\ HeldOK /\ SessionStays
  BY DEF updateItem, At, SInv, SOp, Begun, Settled, Entering, server, worker, SessionStays
<1>2. CASE End(h)
  BY <1>1, <1>2, EndS DEF Settled
<1>3. ASSUME NEW o, NEW v \in mem.vaults, WithKey(h, [g EXCEPT !.obj = o, !.vault = v])
      PROVE  SInv'
  <2> PICK q : q = [g EXCEPT !.obj = o, !.vault = v]
    OBVIOUS
  <2>1. /\ DOMAIN q = Fields /\ q.kind = g.kind /\ q.session = g.session /\ q.left \subseteq Vaults
        /\ q.vault = v /\ v \in Vaults
    BY <1>1 DEF SOp, Begun, Fields, HeldOK, Memory
  <2> QED  BY <1>1, <1>3, <2>1, WithKeyS
<1> QED  BY <1>2, <1>3 DEF updateItem

\* saveNewItem keeps SInv.
LEMMA saveNewItemS ==
  ASSUME SInv, OneAtATime, NoneIsNoOperation, NEW h \in Handlers, saveNewItem(h)
  PROVE  SInv'
<1> PICK g : g = op[h]
  OBVIOUS
<1>1. Settled(g) /\ SOp(g) /\ HeldOK /\ SessionStays
  BY DEF saveNewItem, At, SInv, SOp, Begun, Settled, Entering, server, worker, SessionStays
<1>2. CASE End(h)
  BY <1>1, <1>2, EndS DEF Settled
<1>3. ASSUME NEW v \in Vaults, WithKey(h, [g EXCEPT !.vault = v])
      PROVE  SInv'
  <2> PICK q : q = [g EXCEPT !.vault = v]
    OBVIOUS
  <2>1. /\ DOMAIN q = Fields /\ q.kind = g.kind /\ q.session = g.session /\ q.left \subseteq Vaults
        /\ q.vault = v
    BY <1>1 DEF SOp, Begun, Fields
  <2> QED  BY <1>1, <1>3, <2>1, WithKeyS
<1> QED  BY <1>2, <1>3 DEF saveNewItem

\* TakePut keeps SInv.
LEMMA TakePutS ==
  ASSUME SInv, OneAtATime, NoneIsNoOperation, NEW h \in Handlers, TakePut(h)
  PROVE  SInv'
<1> PICK g : g = op[h]
  OBVIOUS
<1>1. Settled(g) /\ SOp(g) /\ SessionStays
  BY DEF TakePut, At, SInv, SOp, Begun, Settled, Entering, server, SessionStays
<1>2. CASE End(h)
  BY <1>1, <1>2, EndS DEF Settled
<1>3. CASE Set(h, [g EXCEPT !.kind = "refresh", !.at = "refresh", !.obj = None])
  <2> PICK r : r = [g EXCEPT !.kind = "refresh", !.at = "refresh", !.obj = None]
    OBVIOUS
  <2>1. Moved(r, g)
    BY <1>1 DEF SOp, Begun, Fields, Moved
  <2> QED  BY <1>1, <1>3, <2>1, MovedStep DEF Set
<1> QED  BY <1>2, <1>3 DEF TakePut, Updated

\* Fail keeps SInv.
LEMMA FailS ==
  ASSUME SInv, OneAtATime, NoneIsNoOperation, NEW h \in Handlers, Fail(h)
  PROVE  SInv'
<1>1. Settled(op[h]) /\ SessionStays
  BY DEF Fail, At, SInv, SOp, Begun, Settled, Entering, server, worker, SessionStays
<1> QED  BY <1>1, EndS, NoKeyS DEF Fail, Settled

\* A 401 ends the session, whatever it was for.
LEMMA UnauthorizedS ==
  ASSUME SInv, OneAtATime, NoneIsNoOperation, NEW h \in Handlers, Unauthorized(h)
  PROVE  SInv'
<1> PICK g : g = op[h]
  OBVIOUS
<1>1. Settled(g) /\ SOp(g) /\ g.at = "unauthorized"
  BY DEF Unauthorized, At, SInv, SOp, Begun, Settled, Entering
<1>2. CASE UNCHANGED <<worker, store>>
  BY <1>1, <1>2, EndS, NoKeyS DEF Unauthorized, Settled, SessionStays, server, worker
<1>3. CASE LoggedOut(Handlers \ {h})
  <2>1. UNCHANGED tokens
    BY DEF Unauthorized, server
  <2>2. HeldOK' /\ mem'.token = 0 /\ mem'.pendingSSO = store'.pendingSSO
    BY <1>3, <2>1, LogoutS
  <2>3. CASE End(h)
    BY <2>2, <2>3, SStep DEF End, Set
  <2>4. CASE Set(h, [g EXCEPT !.at = "next", !.left = @ \ {g.vault}, !.req = None])
    <3> PICK r : r = [g EXCEPT !.at = "next", !.left = @ \ {g.vault}, !.req = None]
      OBVIOUS
    <3>1. /\ DOMAIN r = Fields /\ r.kind = g.kind /\ r.session = g.session /\ r.left \subseteq Vaults
          /\ r.at = "next"
      BY <1>1 DEF SOp, Begun, Fields
    <3>2. SOp(r)'
      BY <1>1, <2>2, <3>1 DEF SOp, Begun, Entering, Settled
    <3> QED  BY <2>2, <2>4, <3>2, SStep DEF Set
  <2> QED  BY <2>3, <2>4 DEF Unauthorized, NoKey
<1> QED  BY <1>2, <1>3 DEF Unauthorized

\* logout keeps SInv.
LEMMA logoutS ==
  ASSUME SInv, OneAtATime, NoneIsNoOperation, NEW h \in Handlers, logout(h)
  PROVE  SInv'
<1>1. LoggedOut(Handlers \ {h}) /\ UNCHANGED tokens /\ op' = [op EXCEPT ![h] = None]
  BY DEF logout, End, Set, server
<1> QED  BY <1>1, LogoutS, SStep

\* Sessions keeps SInv.
LEMMA SessionsS ==
  ASSUME SInv, OneAtATime, NoneIsNoOperation, NEW h \in Handlers, Sessions(h)
  PROVE  SInv'
<1> QED  BY RestoreS, RunS, logoutS, TakeTokenS, SignedInS, ssoUnlockS, WriteSessionS DEF Sessions

\* Refreshes keeps SInv.
LEMMA RefreshesS ==
  ASSUME SInv, OneAtATime, NoneIsNoOperation, NEW h \in Handlers, Refreshes(h)
  PROVE  SInv'
<1>1. CASE ensureItemsCache(h)
  BY <1>1 DEF ensureItemsCache, SInv, HeldOK, SOp, Begun, Kept, Saved, Half, Entering, OneAtATime, Memory, Session, server, worker, Fields, At, Set, Go, End, Answered, NoneIsNoOperation, Kinds, PopupKinds, TabKinds
<1>2. CASE TakeItems(h)
  BY <1>2 DEF TakeItems, SInv, HeldOK, SOp, Begun, Kept, Saved, Half, Entering, OneAtATime, Memory, Session, server, worker, Fields, At, Set, Go, End, Answered, NoneIsNoOperation, Kinds, PopupKinds, TabKinds
<1>3. CASE Answer(h)
  BY <1>3 DEF Answer, SInv, HeldOK, SOp, Begun, Kept, Saved, Half, Entering, OneAtATime, Memory, Session, server, worker, Fields, At, Set, Go, End, Answered, NoneIsNoOperation, Kinds, PopupKinds, TabKinds
<1> QED  BY <1>1, <1>2, <1>3, refreshAllItemsS, TakeVaultsS, NextVaultS, TakeKeyS DEF Refreshes

\* Saves keeps SInv.
LEMMA SavesS ==
  ASSUME SInv, OneAtATime, NoneIsNoOperation, NEW h \in Handlers, Saves(h)
  PROVE  SInv'
<1>1. CASE getPendingSaves(h)
  BY <1>1 DEF getPendingSaves, SInv, HeldOK, SOp, Begun, Kept, Saved, Half, Entering, OneAtATime, Memory, Session, server, worker, Fields, At, Set, Go, End, Answered, NoneIsNoOperation, Kinds, PopupKinds, TabKinds
<1>2. CASE stagePendingSave(h)
  BY <1>2 DEF stagePendingSave, SInv, HeldOK, SOp, Begun, Kept, Saved, Half, Entering, OneAtATime, Memory, Session, server, worker, Fields, At, Set, Go, End, Answered, NoneIsNoOperation, Kinds, PopupKinds, TabKinds
<1>3. CASE checkPendingSave(h)
  BY <1>3 DEF checkPendingSave, SInv, HeldOK, SOp, Begun, Kept, Saved, Half, Entering, OneAtATime, Memory, Session, server, worker, Fields, At, Set, Go, End, Answered, NoneIsNoOperation, Kinds, PopupKinds, TabKinds
<1>4. CASE dismissPendingSave(h)
  BY <1>4 DEF dismissPendingSave, SInv, HeldOK, SOp, Begun, Kept, Saved, Half, Entering, OneAtATime, Memory, Session, server, worker, Fields, At, Set, Go, End, Answered, NoneIsNoOperation, Kinds, PopupKinds, TabKinds
<1>5. CASE Unstage(h)
  BY <1>5 DEF Unstage, SInv, HeldOK, SOp, Begun, Kept, Saved, Half, Entering, OneAtATime, Memory, Session, server, worker, Fields, At, Set, Go, End, Answered, NoneIsNoOperation, Kinds, PopupKinds, TabKinds
<1>6. CASE ItemNotFound(h)
  BY <1>6 DEF ItemNotFound, SInv, HeldOK, SOp, Begun, Kept, Saved, Half, Entering, OneAtATime, Memory, Session, server, worker, Fields, At, Set, Go, End, Answered, NoneIsNoOperation, Kinds, PopupKinds, TabKinds
<1>7. CASE Encrypted(h)
  BY <1>7 DEF Encrypted, SInv, HeldOK, SOp, Begun, Kept, Saved, Half, Entering, OneAtATime, Memory, Session, server, worker, Fields, At, Set, Go, End, Answered, NoneIsNoOperation, Kinds, PopupKinds, TabKinds
<1>8. CASE TakePost(h)
  BY <1>8 DEF TakePost, SInv, HeldOK, SOp, Begun, Kept, Saved, Half, Entering, OneAtATime, Memory, Session, server, worker, Fields, At, Set, Go, End, Answered, NoneIsNoOperation, Kinds, PopupKinds, TabKinds
<1> QED  BY <1>1, <1>2, <1>3, <1>4, <1>5, <1>6, <1>7, <1>8, commitPendingSaveS, passkeyRegisterS, updateItemS, saveNewItemS, TakePutS DEF Saves

\* A request is answered: the session is as it was.
LEMMA AnsweredS ==
  ASSUME SInv, OneAtATime, NoneIsNoOperation, NEW h \in Handlers, Read(h) \/ Put(h) \/ Post(h)
  PROVE  SInv'
<1> PICK g : g = op[h]
  OBVIOUS
<1>1. /\ Settled(g) /\ SOp(g) /\ HeldOK /\ (mem.token = 0 \/ Kept) /\ g.at = "sent"
      /\ UNCHANGED <<mem, store, tokens, cache>> /\ g.req.verb \notin {"login", "sso"}
  BY SMTT(30) DEF Read, Put, Post, At, SInv, SOp, Begun, Settled, Entering, worker, server
<1>2. PICK its : Answered(h, its)
  BY DEF Read, Put, Post
<1> PICK r : r = [g EXCEPT !.at = "answered", !.answer = its]
  OBVIOUS
<1>3. /\ DOMAIN r = Fields /\ r.kind = g.kind /\ r.session = g.session /\ r.left = g.left
      /\ r.at = "answered" /\ r.req = g.req /\ r.vault = g.vault /\ op' = [op EXCEPT ![h] = r]
  BY <1>1, <1>2 DEF SOp, Begun, Fields, Answered, Set
<1>4. SOp(r)
  BY <1>1, <1>3 DEF SOp, Begun, Entering, Settled
<1> QED  BY <1>1, <1>3, <1>4, PlainStep DEF Settled, SessionStays

\* SignIn keeps SInv.
LEMMA SignInS ==
  ASSUME SInv, OneAtATime, NoneIsNoOperation, NEW h \in Handlers, SignIn(h)
  PROVE  SInv'
<1> PICK g : g = op[h]
  OBVIOUS
<1> PICK r : r = [g EXCEPT !.at = "answered", !.session.token = tokens']
  OBVIOUS
<1>1. /\ Settled(g) /\ SOp(g) /\ HeldOK /\ (mem.token = 0 \/ Kept) /\ g.at = "sent"
      /\ UNCHANGED <<mem, store, cache>> /\ g.req.verb \in {"login", "sso"}
      /\ op' = [op EXCEPT ![h] = r] /\ tokens < MaxToken /\ tokens' = tokens + 1
  BY DEF SignIn, At, SInv, SOp, Begun, Settled, Entering, worker, Set
<1>2. tokens' \in (0..MaxToken) \ {0}
  BY <1>1, ExtensionAssumption DEF HeldOK
<1>3. /\ DOMAIN r = Fields /\ r.kind = g.kind /\ r.left = g.left
      /\ r.session \in Session /\ r.session.token = tokens'
      /\ r.at = "answered" /\ r.req = g.req
  BY <1>1, <1>2 DEF SOp, Begun, Fields, Session
<1>4. SOp(r)' /\ HeldOK' /\ (mem'.token = 0 \/ Kept')
  BY <1>1, <1>2, <1>3 DEF SOp, Begun, Entering, Settled, HeldOK, Kept, Saved, Half
<1> QED  BY <1>1, <1>4, SStep

\* Requests keeps SInv.
LEMMA RequestsS ==
  ASSUME SInv, OneAtATime, NoneIsNoOperation, NEW h \in Handlers, Requests(h)
  PROVE  SInv'
<1>1. CASE SignIn(h)
  BY <1>1, SignInS
<1>5. CASE Refuse(h)
  BY <1>5 DEF Refuse, SInv, HeldOK, SOp, Begun, Kept, Saved, Half, Entering, OneAtATime, Memory, Session, server, worker, Fields, At, Set, Go, End, Answered, NoneIsNoOperation, Kinds, PopupKinds, TabKinds
<1> QED  BY <1>1, <1>5, AnsweredS, UnauthorizedS, FailS DEF Requests

\* SInv holds at first, ...
LEMMA InitS ==
  ASSUME Init
  PROVE  SInv
<1>1. 0 \in 0..MaxToken
  BY ExtensionAssumption
<1> QED  BY <1>1 DEF Init, SInv, HeldOK, NoMemory, NoSession, Memory, Session

\* ... and every step keeps it.
LEMMA NextS ==
  ASSUME SInv, OneAtATime, NoneIsNoOperation, [Next]_vars
  PROVE  SInv'
<1>1. CASE \E h \in Handlers : Messages(h) \/ Sessions(h) \/ Refreshes(h) \/ Saves(h) \/ Requests(h)
  BY <1>1, MessagesS, SessionsS, RefreshesS, SavesS, RequestsS
<1>2. CASE Navigate \/ Expire \/ OtherClient \/ Age \/ UNCHANGED vars
  <2>1. UNCHANGED <<mem, store, tokens, cache, op>>
    BY <1>2 DEF Navigate, Expire, OtherClient, Age, vars, server, worker
  <2> QED  BY <2>1 DEF SInv, HeldOK, SOp, Begun, Entering, Kept, Saved, Half
<1>3. CASE Kill
  <2>1. 0 \in 0..MaxToken
    BY ExtensionAssumption
  <2> QED  BY <1>3, <2>1 DEF Kill, SInv, HeldOK, NoMemory, Memory, server
<1> QED  BY <1>1, <1>2, <1>3 DEF Next

\* The invariant of the session.
THEOREM SessionInvariance == ASSUME OneAtATime, NoneIsNoOperation PROVE Spec => []SInv
BY InitS, NextS, PTL DEF Spec

\* With no session and no message in hand, the worker holds neither keys nor items
\* (logout, and the 401 of api).
THEOREM LogoutEmpties ==
  ASSUME OneAtATime, NoneIsNoOperation
  PROVE  Spec => []LoggedOutHoldsNothing
<1>1. ASSUME SInv, mem.token = 0
      PROVE  mem = [NoMemory EXCEPT !.pendingSSO = mem.pendingSSO] /\ cache = {}
  <2>1. /\ mem \in Memory /\ cache = {} /\ mem.vaults = {} /\ mem.keys = {}
        /\ ~ mem.encKey /\ ~ mem.privateKey /\ ~ mem.primed
    BY <1>1 DEF SInv, HeldOK
  <2>2. mem.encKey = FALSE /\ mem.privateKey = FALSE /\ mem.primed = FALSE
    BY <2>1 DEF Memory
  <2>3. mem = [token |-> mem.token, encKey |-> mem.encKey, privateKey |-> mem.privateKey,
               pendingSSO |-> mem.pendingSSO, primed |-> mem.primed, vaults |-> mem.vaults,
               keys |-> mem.keys]
    BY <2>1 DEF Memory
  <2>4. mem = [token |-> 0, encKey |-> FALSE, privateKey |-> FALSE,
               pendingSSO |-> mem.pendingSSO, primed |-> FALSE, vaults |-> {}, keys |-> {}]
    BY <1>1, <2>1, <2>2, <2>3
  <2>5. [NoMemory EXCEPT !.pendingSSO = mem.pendingSSO]
          = [token |-> 0, encKey |-> FALSE, privateKey |-> FALSE,
             pendingSSO |-> mem.pendingSSO, primed |-> FALSE, vaults |-> {}, keys |-> {}]
    <3> PICK r : r = [NoMemory EXCEPT !.pendingSSO = mem.pendingSSO]
      OBVIOUS
    <3>1. /\ r = [f \in {"token", "encKey", "privateKey", "pendingSSO", "primed", "vaults", "keys"} |-> r[f]]
          /\ r.token = 0 /\ r.encKey = FALSE /\ r.privateKey = FALSE /\ r.pendingSSO = mem.pendingSSO
          /\ r.primed = FALSE /\ r.vaults = {} /\ r.keys = {}
      BY DEF NoMemory
    <3> QED  BY <3>1
  <2> QED  BY <2>1, <2>4, <2>5
<1>2. SInv => LoggedOutHoldsNothing
  BY <1>1 DEF LoggedOutHoldsNothing
<1> QED  BY <1>2, SessionInvariance, PTL

\* With a session and no message in hand, the storage has it whole, for the next worker,
\* or there is no private key, and nothing is stored but a token that waits for the
\* password: a login has failed half way (saveSession, restoreSession, handleMessage).
THEOREM SessionSurvives ==
  ASSUME OneAtATime, NoneIsNoOperation
  PROVE  Spec => []SessionIsSaved
<1>1. ASSUME SInv, Half
      PROVE  HalfLoggedIn
  <2> PICK s : s = [NoSession EXCEPT !.pendingSSO = mem.pendingSSO]
    OBVIOUS
  <2>1. /\ s = [f \in {"token", "encKey", "privateKey", "pendingSSO"} |-> s[f]]
        /\ s.token = 0 /\ s.encKey = FALSE /\ s.privateKey = FALSE /\ s.pendingSSO = mem.pendingSSO
    BY DEF NoSession
  <2>2. /\ store \in Session /\ store.token = 0 /\ store.pendingSSO = mem.pendingSSO
        /\ store.encKey = FALSE /\ store.privateKey = FALSE
    BY <1>1 DEF SInv, HeldOK, Half, Session
  <2>3. store = s
    BY <2>1, <2>2 DEF Session
  <2> QED  BY <1>1, <2>3 DEF Half, HalfLoggedIn
<1>2. ASSUME SInv, Quiet, mem.token # 0, ~ HalfLoggedIn
      PROVE  Saved /\ store \in Session
  BY <1>1, <1>2 DEF SInv, HeldOK, Kept, Quiet, Idle, OneAtATime
<1>3. SInv => SessionIsSaved
  BY <1>2 DEF SessionIsSaved, Saved, Session
<1> QED  BY <1>3, SessionInvariance, PTL

-----------------------------------------------------------------------------
(* 3. Updates, one message at a time *)

DataOK(d) == DOMAIN d = {"name", "pw", "passkey", "by", "from"}

Cached(o) == \E e \in Objects : e.ref = o

UOp(r) ==
  /\ \A s \in r.answer : DataOK(s.data)
  /\ r.obj # None => Cached(r.obj)
  /\ r.left # {} => /\ r.obj = None
                    /\ \/ r.at = "next"
                       \/ /\ r.at \in {"sent", "answered", "unauthorized"}
                          /\ r.req.verb \in {"key", "items"} /\ r.vault \in r.left
  /\ r.at = "encrypt" => DataOK(r.data)
  /\ r.at = "encrypt" /\ r.obj # None => r.data.from = Object(r.obj).version
  /\ r.at \in {"sent", "answered"} /\ r.req.verb \in {"put", "post"} => DataOK(r.req.data)
  /\ r.at = "sent" /\ r.req.verb = "put" => r.req.data.from = r.req.version

ContentOK ==
  /\ \A e \in Objects : DataOK(e.data)
  /\ \A i \in Items : Has(i) => DataOK(rows[i].data)

UInv == ContentOK /\ \A h \in Handlers : op[h] # None => UOp(op[h])

Known == VInv /\ UInv /\ OneAtATime /\ NoneIsNoRow

\* A message that is in order after a step, with what the entries hold.
LEMMA UStep ==
  ASSUME Known, NEW h \in Handlers, NEW r, op' = [op EXCEPT ![h] = r],
         r # None => UOp(r)', ContentOK'
  PROVE  UInv'
BY DEF Known, VInv, UInv, OneAtATime

\* The same, when items and cache stay.
LEMMA USet ==
  ASSUME Known, NEW h \in Handlers, NEW r, op' = [op EXCEPT ![h] = r],
         r # None => UOp(r), UNCHANGED <<rows, cache, kept>>
  PROVE  UInv'
<1>1. ContentOK' /\ (r # None => UOp(r)')
  BY DEF Known, UInv, ContentOK, UOp, Cached, Objects, Object, Has
<1> QED  BY <1>1, UStep

\* What a message becomes when it neither writes nor has an answer.
Onward(r, g) ==
  /\ DOMAIN r = Fields /\ r.answer \in {g.answer, {}} /\ r.obj \in {g.obj, None}
  /\ r.left = {} \/ (r.at = "next" /\ r.left \subseteq g.left)
  /\ r.at # "encrypt" /\ (r.at \notin {"sent", "answered"} \/ r.req.verb \notin {"put", "post"})

\* A message that neither writes nor has an answer.
LEMMA OnwardU ==
  ASSUME Known, NEW h \in Handlers, op[h] # None, NEW r, op' = [op EXCEPT ![h] = r],
         Onward(r, op[h]), UNCHANGED <<rows, cache, kept>>
  PROVE  UInv'
<1>1. UOp(op[h])
  BY DEF Known, UInv
<1>2. UOp(r)
  BY <1>1 DEF UOp, Onward
<1> QED  BY <1>2, USet

\* It ends, ...
LEMMA EndU ==
  ASSUME Known, NEW h \in Handlers, End(h), UNCHANGED <<rows, cache, kept>>
  PROVE  UInv'
BY USet DEF End, Set

\* ... goes on, ...
LEMMA GoU ==
  ASSUME Known, NEW h \in Handlers, op[h] # None, op[h].left = {}, NEW s,
         s \notin {"encrypt", "sent", "answered"}, Go(h, s), UNCHANGED <<rows, cache, kept>>
  PROVE  UInv'
<1> PICK g : g = op[h]
  OBVIOUS
<1> PICK r : r = [g EXCEPT !.at = s]
  OBVIOUS
<1>1. op' = [op EXCEPT ![h] = r] /\ DOMAIN g = Fields
  BY DEF Go, Set, Known, VInv, OpOK
<1>2. Onward(r, g)
  BY <1>1 DEF Fields, Onward
<1> QED  BY <1>1, <1>2, OnwardU

\* ... or asks.
LEMMA AskU ==
  ASSUME Known, NEW h \in Handlers, op[h] # None, NEW q, NEW v,
         NEW m \in {"login", "sso", "vaults", "items", "key"},
         DOMAIN q = Fields, q.answer = op[h].answer, q.left = op[h].left,
         q.obj = op[h].obj \/ (Cached(q.obj) /\ q.left = {}),
         q.left = {} \/ (m \in {"items", "key"} /\ q.vault \in q.left),
         Set(h, Ask(q, m, v)), UNCHANGED <<rows, cache, kept>>
  PROVE  UInv'
<1> PICK r : r = Ask(q, m, v)
  OBVIOUS
<1>1. /\ op' = [op EXCEPT ![h] = r] /\ DOMAIN r = Fields /\ r.answer = q.answer /\ r.obj = q.obj
      /\ r.left = q.left /\ r.at = "sent" /\ r.req.verb = m /\ r.vault = q.vault
  BY DEF Set, Ask, Fields
<1>2. UOp(op[h])
  BY DEF Known, UInv
<1>3. UOp(r)
  BY <1>1, <1>2 DEF UOp
<1> QED  BY <1>1, <1>3, USet

\* The entry that a reference is of.
LEMMA ObjectOf ==
  ASSUME Known, NEW o, Cached(o)
  PROVE  Object(o) \in Objects /\ Object(o).ref = o /\ DataOK(Object(o).data)
BY DEF Known, UInv, ContentOK, Cached, Object

\* What is ready to be saved was made from the version of its entry.
LEMMA ReadyOf ==
  ASSUME Known, NEW q, DOMAIN q = Fields, q.obj = None \/ Cached(q.obj)
  PROVE  /\ DOMAIN Ready(q) = Fields /\ Ready(q).answer = q.answer /\ Ready(q).obj = q.obj
         /\ Ready(q).left = q.left /\ Ready(q).at = "encrypt"
         /\ Ready(q).kind = q.kind /\ Ready(q).cred = q.cred /\ Ready(q).saves = q.saves
         /\ Ready(q).tab = q.tab
         /\ DataOK(Ready(q).data)
         /\ q.obj # None => Ready(q).data.from = Object(q.obj).version
         /\ q.kind # "passkey" => Ready(q).data.by = q.cred.n
         /\ q.kind = "passkey" => Ready(q).data.by = IF q.obj = None THEN 0 ELSE Object(q.obj).data.by
<1> PICK old : old = IF q.obj = None
                     THEN [name |-> None, pw |-> 0, passkey |-> FALSE, by |-> 0, from |-> 0]
                     ELSE [Object(q.obj).data EXCEPT !.from = Object(q.obj).version]
  OBVIOUS
<1>1. /\ DataOK(old) /\ (q.obj # None => old.from = Object(q.obj).version)
      /\ old.by = IF q.obj = None THEN 0 ELSE Object(q.obj).data.by
  <2>1. CASE q.obj = None
    BY <2>1 DEF DataOK
  <2>2. CASE q.obj # None
    <3> PICK d : d = Object(q.obj).data
      OBVIOUS
    <3>1. DataOK(d)
      BY <2>2, ObjectOf
    <3> QED  BY <2>2, <3>1 DEF DataOK
  <2> QED  BY <2>1, <2>2
<1> PICK d : d = IF q.kind = "passkey" THEN [old EXCEPT !.passkey = TRUE]
                 ELSE [old EXCEPT !.name = IF q.obj = None THEN q.cred.name ELSE @,
                                  !.pw = q.cred.pw, !.by = q.cred.n]
  OBVIOUS
<1>2. /\ DataOK(d) /\ d.from = old.from /\ (q.kind # "passkey" => d.by = q.cred.n)
      /\ (q.kind = "passkey" => d.by = old.by)
  BY <1>1 DEF DataOK
<1>3. Ready(q) = [q EXCEPT !.at = "encrypt", !.data = d]
  BY DEF Ready
<1>4. /\ DOMAIN Ready(q) = Fields /\ Ready(q).answer = q.answer /\ Ready(q).obj = q.obj
      /\ Ready(q).left = q.left /\ Ready(q).at = "encrypt" /\ Ready(q).data = d
      /\ Ready(q).kind = q.kind /\ Ready(q).cred = q.cred /\ Ready(q).saves = q.saves
      /\ Ready(q).tab = q.tab
  BY <1>3 DEF Fields
<1> QED  BY <1>1, <1>2, <1>4

\* It is ready to save, ...
LEMMA ReadyU ==
  ASSUME Known, NEW h \in Handlers, op[h] # None, NEW q,
         DOMAIN q = Fields, q.answer = op[h].answer, q.left = {},
         q.obj = None \/ Cached(q.obj), Set(h, Ready(q)), UNCHANGED <<rows, cache, kept>>
  PROVE  UInv'
<1>1. UOp(op[h])
  BY DEF Known, UInv
<1>2. UOp(Ready(q))
  BY <1>1, ReadyOf DEF UOp
<1> QED  BY <1>2, USet DEF Set

\* ... looks for the key of a save, ...
LEMMA WithKeyU ==
  ASSUME Known, NEW h \in Handlers, op[h] # None, NEW q,
         DOMAIN q = Fields, q.answer = op[h].answer, q.left = {}, op[h].left = {},
         q.obj = op[h].obj \/ Cached(q.obj), WithKey(h, q), UNCHANGED <<rows, cache, kept>>
  PROVE  UInv'
<1>1. q.obj = None \/ Cached(q.obj)
  BY DEF Known, UInv, UOp
<1> QED  BY <1>1, ReadyU, AskU, EndU DEF WithKey

\* ... has no key, ...
LEMMA NoKeyU ==
  ASSUME Known, NEW h \in Handlers, op[h] # None, NoKey(h), UNCHANGED <<rows, cache, kept>>
  PROVE  UInv'
<1> PICK g : g = op[h]
  OBVIOUS
<1> PICK r : r = [g EXCEPT !.at = "next", !.left = @ \ {g.vault}, !.req = None]
  OBVIOUS
<1>1. DOMAIN g = Fields
  BY DEF Known, VInv, OpOK
<1>2. Onward(r, g)
  BY <1>1 DEF Fields, Onward
<1>3. op' = [op EXCEPT ![h] = r] \/ End(h)
  BY DEF NoKey, Set
<1> QED  BY <1>2, <1>3, OnwardU, EndU

\* Run keeps UInv.
LEMMA RunU ==
  ASSUME Known, NEW h \in Handlers, Run(h)
  PROVE  UInv'
<1>1. op[h] # None /\ DOMAIN op[h] = Fields /\ UNCHANGED <<rows, cache, kept>> /\ op[h].left = {}
  BY DEF Run, At, Known, VInv, OpOK, UInv, UOp, worker, server
<1>2. CASE Set(h, Ask(op[h], "login", None)) \/ Set(h, Ask(op[h], "sso", None))
  BY <1>1, <1>2, AskU
<1>3. CASE End(h) \/ Go(h, "derive") \/ Go(h, "ensure") \/ Go(h, "refresh") \/ Go(h, "get")
  BY <1>1, <1>3, EndU, GoU
<1> QED  BY <1>2, <1>3 DEF Run

\* refreshAllItems keeps UInv.
LEMMA refreshAllItemsU ==
  ASSUME Known, NEW h \in Handlers, refreshAllItems(h)
  PROVE  UInv'
<1>1. op[h] # None /\ DOMAIN op[h] = Fields /\ UNCHANGED <<rows, cache, kept>> /\ op[h].left = {}
  BY DEF refreshAllItems, At, Known, VInv, OpOK, UInv, UOp, server
<1> QED  BY <1>1, AskU, GoU DEF refreshAllItems

\* An item of an answer has the content it had at the server.
LEMMA TakeVaultsU ==
  ASSUME Known, NEW h \in Handlers, TakeVaults(h)
  PROVE  UInv'
<1> PICK g : g = op[h]
  OBVIOUS
<1> PICK n : n = NewLoad(h)
  OBVIOUS
<1> PICK r : r = [g EXCEPT !.at = "next", !.left = Vaults, !.load = n, !.obj = None, !.req = None]
  OBVIOUS
<1>1. g # None /\ DOMAIN g = Fields /\ UOp(g) /\ UNCHANGED rows /\ Objects' \subseteq Objects
      /\ op' = [op EXCEPT ![h] = r]
  BY DEF TakeVaults, At, Known, VInv, OpOK, UInv, server, Emptied, Objects, Set
<1>2. DOMAIN r = Fields /\ r.answer = g.answer /\ r.obj = None /\ r.at = "next"
  BY <1>1 DEF Fields
<1>3. UOp(r)' /\ ContentOK'
  BY <1>1, <1>2 DEF UOp, ContentOK, Known, UInv, Has
<1> QED  BY <1>1, <1>3, UStep

\* NextVault keeps UInv.
LEMMA NextVaultU ==
  ASSUME Known, NEW h \in Handlers, NextVault(h)
  PROVE  UInv'
<1> PICK g : g = op[h]
  OBVIOUS
<1>1. g # None /\ DOMAIN g = Fields /\ UNCHANGED <<rows, cache, kept>>
  BY DEF NextVault, At, Known, VInv, OpOK, server, worker
<1>2. CASE g.left = {} /\ Set(h, [g EXCEPT !.at = "go", !.vault = None, !.load = 0])
  <2> PICK r : r = [g EXCEPT !.at = "go", !.vault = None, !.load = 0]
    OBVIOUS
  <2>1. Onward(r, g)
    BY <1>1, <1>2 DEF Fields, Onward
  <2> QED  BY <1>1, <1>2, <2>1, OnwardU DEF Set
<1>3. ASSUME NEW v \in g.left, NEW m \in {"items", "key"},
             Set(h, Ask([g EXCEPT !.vault = v], m, v))
      PROVE  UInv'
  <2> PICK q : q = [g EXCEPT !.vault = v]
    OBVIOUS
  <2>1. DOMAIN q = Fields /\ q.answer = g.answer /\ q.obj = g.obj /\ q.left = g.left /\ q.vault = v
    BY <1>1 DEF Fields
  <2> QED  BY <1>1, <1>3, <2>1, AskU
<1>4. ASSUME NEW v \in g.left, Set(h, [g EXCEPT !.left = @ \ {v}]), g.at = "next"
      PROVE  UInv'
  <2> PICK r : r = [g EXCEPT !.left = @ \ {v}]
    OBVIOUS
  <2>1. Onward(r, g)
    BY <1>1, <1>4 DEF Fields, Onward
  <2> QED  BY <1>1, <1>4, <2>1, OnwardU DEF Set
<1> QED  BY <1>2, <1>3, <1>4 DEF NextVault, At

\* TakeItems keeps UInv.
LEMMA TakeItemsU ==
  ASSUME Known, NEW h \in Handlers, TakeItems(h)
  PROVE  UInv'
<1> PICK g : g = op[h]
  OBVIOUS
<1> PICK r : r = [g EXCEPT !.at = "next", !.left = @ \ {g.vault}, !.answer = {}, !.req = None]
  OBVIOUS
<1>1. g # None /\ DOMAIN g = Fields /\ UOp(g) /\ UNCHANGED <<rows, kept>>
      /\ op' = [op EXCEPT ![h] = r] /\ cache \subseteq cache'
  BY DEF TakeItems, At, Known, VInv, OpOK, UInv, server, Set
<1>2. DOMAIN r = Fields /\ r.answer = {} /\ r.obj = g.obj /\ r.at = "next" /\ r.left \subseteq g.left
  BY <1>1 DEF Fields
<1>3. ASSUME NEW e \in Objects'
      PROVE  DataOK(e.data)
  <2>1. CASE e \in Objects
    BY <2>1 DEF Known, UInv, ContentOK
  <2>2. CASE e \notin Objects
    <3>1. PICK s \in g.answer : e = [ref |-> [item |-> s.item, load |-> g.load], vault |-> g.vault,
                                     data |-> s.data, version |-> s.version]
      BY <1>1, <1>3, <2>2 DEF TakeItems, Objects
    <3> QED  BY <1>1, <3>1 DEF UOp
  <2> QED  BY <2>1, <2>2
<1>4. UOp(r)' /\ ContentOK'
  BY <1>1, <1>2, <1>3 DEF UOp, ContentOK, Known, UInv, Has, Cached, Objects
<1> QED  BY <1>1, <1>4, UStep

\* TakePost keeps UInv.
LEMMA TakePostU ==
  ASSUME Known, NEW h \in Handlers, TakePost(h)
  PROVE  UInv'
<1> PICK g : g = op[h]
  OBVIOUS
<1>1. UOp(g) /\ UNCHANGED <<rows, kept>> /\ op' = [op EXCEPT ![h] = None]
  BY DEF TakePost, At, Known, UInv, server, Set, End
<1>3. ASSUME NEW e \in Objects'
      PROVE  DataOK(e.data)
  <2>1. CASE e \in Objects
    BY <2>1 DEF Known, UInv, ContentOK
  <2>2. CASE e \notin Objects
    <3>1. PICK s \in g.answer : e = [ref |-> [item |-> s.item, load |-> 0], vault |-> g.vault,
                                     data |-> s.data, version |-> s.version]
      BY <1>1, <1>3, <2>2 DEF TakePost, Objects
    <3> QED  BY <1>1, <3>1 DEF UOp
  <2> QED  BY <2>1, <2>2
<1>4. ContentOK'
  BY <1>1, <1>3 DEF ContentOK, Known, UInv, Has
<1> QED  BY <1>1, <1>4, UStep

\* TakeKey keeps UInv.
LEMMA TakeKeyU ==
  ASSUME Known, NEW h \in Handlers, TakeKey(h)
  PROVE  UInv'
<1> PICK g : g = op[h]
  OBVIOUS
<1>1. /\ g # None /\ DOMAIN g = Fields /\ UOp(g) /\ UNCHANGED <<rows, cache, kept>>
      /\ g.at = "answered"
  BY DEF TakeKey, At, Known, VInv, OpOK, UInv, server
<1>2. CASE Loading(g) /\ Set(h, Ask(g, "items", g.vault))
  BY <1>1, <1>2, AskU DEF Loading
<1>3. CASE ~ Loading(g) /\ Set(h, Ready(g))
  <2>1. g.left = {} /\ (g.obj = None \/ Cached(g.obj))
    BY <1>1, <1>3 DEF UOp, Loading
  <2> QED  BY <1>1, <1>3, <2>1, ReadyU
<1> QED  BY <1>1, <1>2, <1>3, NoKeyU DEF TakeKey

\* commitPendingSave keeps UInv.
LEMMA commitPendingSaveU ==
  ASSUME Known, NEW h \in Handlers, commitPendingSave(h)
  PROVE  UInv'
<1> PICK g : g = op[h]
  OBVIOUS
<1>1. g # None /\ DOMAIN g = Fields /\ UNCHANGED <<rows, cache, kept>> /\ g.left = {}
  BY DEF commitPendingSave, At, Known, VInv, OpOK, UInv, UOp, server, worker
<1>3. ASSUME NEW p, Set(h, [g EXCEPT !.at = "ensure", !.cred = p])
      PROVE  UInv'
  <2> PICK r : r = [g EXCEPT !.at = "ensure", !.cred = p]
    OBVIOUS
  <2>1. Onward(r, g)
    BY <1>1 DEF Fields, Onward
  <2> QED  BY <1>1, <1>3, <2>1, OnwardU DEF Set
<1> QED  BY <1>1, <1>3, EndU DEF commitPendingSave

\* passkeyRegister keeps UInv.
LEMMA passkeyRegisterU ==
  ASSUME Known, NEW h \in Handlers, passkeyRegister(h)
  PROVE  UInv'
<1> PICK g : g = op[h]
  OBVIOUS
<1>1. g # None /\ DOMAIN g = Fields /\ UNCHANGED <<rows, cache, kept>> /\ g.left = {} /\ UOp(g)
  BY DEF passkeyRegister, At, Known, VInv, OpOK, UInv, UOp, server, worker
<1>3. ASSUME NEW o, o = None \/ Cached(o), Set(h, [g EXCEPT !.at = "save", !.obj = o])
      PROVE  UInv'
  <2> PICK r : r = [g EXCEPT !.at = "save", !.obj = o]
    OBVIOUS
  <2>1. DOMAIN r = Fields /\ r.answer = g.answer /\ r.left = {} /\ r.obj = o /\ r.at = "save"
    BY <1>1 DEF Fields
  <2>2. UOp(r)
    BY <1>1, <1>3, <2>1 DEF UOp
  <2> QED  BY <1>3, <1>1, <2>2, USet DEF Set
<1>4. \A e \in cache : Cached(e.ref)
  BY DEF Cached, Objects
<1> QED  BY <1>1, <1>3, <1>4, EndU, ZenonT(60) DEF passkeyRegister

\* updateItem keeps UInv.
LEMMA updateItemU ==
  ASSUME Known, NEW h \in Handlers, updateItem(h)
  PROVE  UInv'
<1> PICK g : g = op[h]
  OBVIOUS
<1>1. g # None /\ DOMAIN g = Fields /\ UNCHANGED <<rows, cache, kept>> /\ g.left = {} /\ UOp(g)
  BY DEF updateItem, At, Known, VInv, OpOK, UInv, UOp, server, worker
<1>2. PICK o : /\ Cached(o)
               /\ End(h) \/ WithKey(h, [g EXCEPT !.obj = o, !.vault = Object(o).vault])
  <2>1. CASE g.kind = "passkey"
    BY <1>1, <2>1 DEF updateItem, UOp
  <2>2. CASE g.kind # "passkey"
    BY <2>2 DEF updateItem, Cached, Objects
  <2> QED  BY <2>1, <2>2
<1>3. CASE WithKey(h, [g EXCEPT !.obj = o, !.vault = Object(o).vault])
  <2> PICK v : v = Object(o).vault
    OBVIOUS
  <2> PICK q : q = [g EXCEPT !.obj = o, !.vault = v]
    OBVIOUS
  <2>1. DOMAIN q = Fields /\ q.answer = g.answer /\ q.obj = o /\ q.left = {}
    BY <1>1 DEF Fields
  <2> QED  BY <1>1, <1>2, <1>3, <2>1, WithKeyU
<1> QED  BY <1>1, <1>2, <1>3, EndU

\* saveNewItem keeps UInv.
LEMMA saveNewItemU ==
  ASSUME Known, NEW h \in Handlers, saveNewItem(h)
  PROVE  UInv'
<1> PICK g : g = op[h]
  OBVIOUS
<1>1. g # None /\ DOMAIN g = Fields /\ UNCHANGED <<rows, cache, kept>> /\ g.left = {}
  BY DEF saveNewItem, At, Known, VInv, OpOK, UInv, UOp, server, worker
<1>2. PICK v \in Vaults : End(h) \/ WithKey(h, [g EXCEPT !.vault = v])
  BY DEF saveNewItem
<1>3. CASE WithKey(h, [g EXCEPT !.vault = v])
  <2> PICK q : q = [g EXCEPT !.vault = v]
    OBVIOUS
  <2>1. DOMAIN q = Fields /\ q.answer = g.answer /\ q.obj = g.obj /\ q.left = {}
    BY <1>1 DEF Fields
  <2> QED  BY <1>1, <1>3, <2>1, WithKeyU
<1> QED  BY <1>1, <1>2, <1>3, EndU

\* The request has the version that its content was made from.
LEMMA EncryptedU ==
  ASSUME Known, NEW h \in Handlers, Encrypted(h)
  PROVE  UInv'
<1> PICK g : g = op[h]
  OBVIOUS
<1>1. /\ g # None /\ DOMAIN g = Fields /\ UNCHANGED <<rows, cache, kept>> /\ UOp(g)
      /\ g.at = "encrypt"
  BY DEF Encrypted, At, Known, VInv, OpOK, UInv, server, worker
<1> PICK q : q = IF g.obj = None
                 THEN [verb |-> "post", token |-> mem.token, vault |-> g.vault, item |-> None,
                       data |-> g.data, version |-> 0]
                 ELSE [verb |-> "put", token |-> mem.token, vault |-> g.vault,
                       item |-> g.obj.item, data |-> g.data, version |-> Object(g.obj).version]
  OBVIOUS
<1>2. /\ Set(h, [g EXCEPT !.at = "sent", !.req = q]) /\ q.data = g.data
      /\ q.verb = "put" => q.version = Object(g.obj).version /\ g.obj # None
  BY DEF Encrypted
<1> PICK r : r = [g EXCEPT !.at = "sent", !.req = q]
  OBVIOUS
<1>3. /\ DOMAIN r = Fields /\ r.answer = g.answer /\ r.obj = g.obj /\ r.at = "sent"
      /\ r.left = g.left /\ r.req = q
  BY <1>1 DEF Fields
<1>4. UOp(r)
  BY <1>1, <1>2, <1>3 DEF UOp
<1> QED  BY <1>1, <1>2, <1>4, USet DEF Set

\* TakePut keeps UInv.
LEMMA TakePutU ==
  ASSUME Known, NEW h \in Handlers, TakePut(h)
  PROVE  UInv'
<1> PICK g : g = op[h]
  OBVIOUS
<1>1. /\ g # None /\ DOMAIN g = Fields /\ UNCHANGED rows /\ UOp(g) /\ OpOK(g) /\ g.at = "answered"
      /\ g.req.verb = "put" /\ g.left = {} /\ g.req.data = g.data
  BY DEF TakePut, At, Known, VInv, OpOK, UInv, UOp, server
<1>2. CASE g.kind = "passkey"
  <2> PICK r : r = [g EXCEPT !.kind = "refresh", !.at = "refresh", !.obj = None]
    OBVIOUS
  <2>1. op' = [op EXCEPT ![h] = r] /\ UNCHANGED <<cache, kept>>
    BY <1>2 DEF TakePut, Updated, Set
  <2>2. Onward(r, g)
    BY <1>1 DEF Fields, Onward
  <2> QED  BY <1>1, <2>1, <2>2, OnwardU
<1>3. CASE g.kind # "passkey"
  <2>1. op' = [op EXCEPT ![h] = None]
    BY <1>3 DEF TakePut, Updated, End, Set
  <2>2. ASSUME NEW e \in Objects'
        PROVE  DataOK(e.data)
    <3> DEFINE new(x) == IF x.ref = g.obj
                         THEN [x EXCEPT !.data = g.data, !.version = g.req.version + 1] ELSE x
    <3>1. cache' = {new(x) : x \in cache} /\ kept' = {new(x) : x \in kept}
      BY <1>3 DEF TakePut, Updated
    <3> HIDE DEF new
    <3>2. PICK f \in Objects : e = new(f)
      BY <3>1, <2>2 DEF Objects
    <3>3. DataOK(f.data) /\ DataOK(g.data) /\ DOMAIN f = {"ref", "vault", "data", "version"}
      BY <1>1 DEF Known, UInv, ContentOK, UOp, VInv, EntriesOK
    <3> QED  BY <3>2, <3>3 DEF new
  <2>3. ContentOK'
    BY <1>1, <2>2 DEF ContentOK, Known, UInv, Has
  <2> QED  BY <2>1, <2>3, UStep
<1> QED  BY <1>2, <1>3

\* Fail keeps UInv.
LEMMA FailU ==
  ASSUME Known, NEW h \in Handlers, Fail(h)
  PROVE  UInv'
<1>1. op[h] # None /\ UNCHANGED <<rows, cache, kept>> /\ (NoKey(h) \/ End(h))
  BY DEF Fail, At, worker, server
<1> QED  BY <1>1, NoKeyU, EndU

\* The entry of a save is lost with the session, the save too.
LEMMA UnauthorizedU ==
  ASSUME Known, NEW h \in Handlers, Unauthorized(h)
  PROVE  UInv'
<1> PICK g : g = op[h]
  OBVIOUS
<1>1. /\ g # None /\ DOMAIN g = Fields /\ UNCHANGED rows /\ UOp(g) /\ Objects' \subseteq Objects
      /\ g.at = "unauthorized"
  BY LoggedOutObjects DEF Unauthorized, At, Known, VInv, OpOK, UInv, server, worker, Objects
<1>2. ContentOK'
  BY <1>1 DEF ContentOK, Known, UInv, Has
<1>3. CASE End(h)
  BY <1>2, <1>3, UStep DEF End, Set
<1>4. CASE Loading(g) /\ Set(h, [g EXCEPT !.at = "next", !.left = @ \ {g.vault}, !.req = None])
  <2> PICK r : r = [g EXCEPT !.at = "next", !.left = @ \ {g.vault}, !.req = None]
    OBVIOUS
  <2>1. DOMAIN r = Fields /\ r.answer = g.answer /\ r.obj = g.obj /\ r.at = "next" /\ g.obj = None
    BY <1>1, <1>4 DEF Fields, UOp, Loading
  <2>2. UOp(r)'
    BY <1>1, <2>1 DEF UOp
  <2> QED  BY <1>2, <1>4, <2>2, UStep DEF Set
<1> QED  BY <1>3, <1>4 DEF Unauthorized, NoKey

\* logout keeps UInv.
LEMMA logoutU ==
  ASSUME Known, NEW h \in Handlers, logout(h)
  PROVE  UInv'
<1>1. /\ UNCHANGED rows /\ Objects' \subseteq Objects /\ op' = [op EXCEPT ![h] = None]
  BY LoggedOutObjects DEF logout, End, Set, server
<1>2. ContentOK'
  BY <1>1 DEF ContentOK, Known, UInv, Has
<1> QED  BY <1>1, <1>2, UStep

\* ... or comes.
LEMMA MessageU ==
  ASSUME Known, NEW h \in Handlers, NEW k, NEW t, NEW c, NEW r, Set(h, r),
         r = Message(k, t) \/ r = [Message(k, t) EXCEPT !.cred = c],
         UNCHANGED <<rows, cache, kept>>
  PROVE  UInv'
<1>1. DOMAIN r = Fields /\ r.answer = {} /\ r.obj = None /\ r.left = {} /\ r.at \in {"start", "get"}
  BY DEF Message, Fields
<1>2. UOp(r)
  BY <1>1 DEF UOp
<1> QED  BY <1>2, USet DEF Set

\* Messages keeps UInv.
LEMMA MessagesU ==
  ASSUME Known, NEW h \in Handlers, Messages(h)
  PROVE  UInv'
<1>1. CASE Popup(h)
  BY <1>1, MessageU DEF Popup, worker, server
<1>2. CASE Submit(h)
  <2>1. PICK t, c : Set(h, [Message("stage", t) EXCEPT !.cred = c])
    BY <1>2 DEF Submit
  <2> QED  BY <1>2, <2>1, MessageU DEF Submit, worker, server
<1>3. CASE Page(h)
  BY <1>3, MessageU DEF Page, worker, server
<1>4. CASE Close(h)
  BY <1>4, MessageU DEF Close, worker, server
<1> QED  BY <1>1, <1>2, <1>3, <1>4 DEF Messages

\* An answer shows items as they are at the server.
LEMMA ReadU ==
  ASSUME Known, NEW h \in Handlers, Read(h)
  PROVE  UInv'
<1> PICK g : g = op[h]
  OBVIOUS
<1> PICK A : A = IF g.req.verb = "items" THEN {Show(i) : i \in {j \in Items : Has(j) /\ rows[j].vault = g.req.vault}}
                ELSE {}
  OBVIOUS
<1> PICK r : r = [g EXCEPT !.at = "answered", !.answer = A]
  OBVIOUS
<1>1. /\ g # None /\ DOMAIN g = Fields /\ UOp(g) /\ UNCHANGED <<rows, cache, kept>>
      /\ g.at = "sent" /\ g.req.verb \notin {"put", "post"} /\ op' = [op EXCEPT ![h] = r]
  BY DEF Read, Answered, Set, At, Known, VInv, OpOK, UInv, server, worker
<1>2. DOMAIN r = Fields /\ r.answer = A /\ r.obj = g.obj /\ r.left = g.left /\ r.at = "answered"
      /\ r.req = g.req /\ r.vault = g.vault
  BY <1>1 DEF Fields
<1>3. ASSUME NEW s \in A PROVE DataOK(s.data)
  <2>1. PICK i \in Items : Has(i) /\ s = Show(i)
    OBVIOUS
  <2> QED  BY <2>1 DEF Show, Known, UInv, ContentOK
<1>4. UOp(r)
  BY <1>1, <1>2, <1>3 DEF UOp
<1> QED  BY <1>1, <1>4, USet

\* A put replaces the content by one that was made from its version.
LEMMA PutU ==
  ASSUME Known, NEW h \in Handlers, Put(h)
  PROVE  UInv' /\ \A i \in Items : Has(i) /\ rows'[i] # rows[i] => rows'[i].data.from = rows[i].version
<1> PICK g : g = op[h]
  OBVIOUS
<1> PICK q : q = g.req
  OBVIOUS
<1> PICK r : r = [g EXCEPT !.at = "answered", !.answer = {}]
  OBVIOUS
<1>1. /\ g # None /\ OpOK(g) /\ UOp(g) /\ UNCHANGED <<cache, kept>>
      /\ g.at = "sent" /\ q.verb = "put" /\ Has(q.item) /\ rows[q.item].version = q.version
      /\ rows' = [rows EXCEPT ![q.item].data = q.data, ![q.item].version = @ + 1]
      /\ op' = [op EXCEPT ![h] = r]
  BY DEF Put, At, Known, VInv, UInv, worker, Answered, Set
<1>2. q.item \in Items /\ DataOK(q.data) /\ q.data.from = q.version
  BY <1>1 DEF OpOK, UOp
<1>3. DOMAIN rows = Items /\ DOMAIN rows[q.item] = {"vault", "data", "version"}
  BY <1>1, <1>2, SMTT(30) DEF Known, VInv, RowsOK
<1>4. /\ DOMAIN rows' = Items /\ \A i \in Items : i # q.item => rows'[i] = rows[i]
      /\ rows'[q.item].data = q.data
  BY <1>1, <1>2, <1>3, SMTT(30)
<1>5. ContentOK'
  BY <1>1, <1>2, <1>4 DEF ContentOK, Known, UInv, Has, Objects
<1>6. /\ DOMAIN r = Fields /\ r.answer = {} /\ r.obj = g.obj /\ r.left = g.left /\ r.at = "answered"
      /\ r.req = g.req /\ r.vault = g.vault
  BY <1>1 DEF Fields, OpOK
<1>7. UOp(r)'
  BY <1>1, <1>2, <1>6 DEF UOp, Cached, Objects
<1>8. UInv'
  BY <1>1, <1>5, <1>7, UStep
<1>9. rows'[q.item].data.from = rows[q.item].version
  <2>1. rows'[q.item].data.from = q.data.from
    BY <1>4
  <2> QED  BY <2>1, <1>1, <1>2
<1>10. ASSUME NEW i \in Items, rows'[i] # rows[i] PROVE rows'[i].data.from = rows[i].version
  BY <1>4, <1>9, <1>10
<1> QED  BY <1>8, <1>10

\* Post keeps UInv.
LEMMA PostU ==
  ASSUME Known, NEW h \in Handlers, Post(h)
  PROVE  UInv' /\ \A i \in Items : Has(i) => rows'[i] = rows[i]
<1> PICK g : g = op[h]
  OBVIOUS
<1> PICK q : q = g.req
  OBVIOUS
<1> PICK y : y = [vault |-> q.vault, data |-> q.data, version |-> 1]
  OBVIOUS
<1>1. PICK i \in Items :
        /\ rows[i] = None /\ rows' = [rows EXCEPT ![i] = y]
        /\ Answered(h, {[item |-> i, data |-> q.data, version |-> 1]})
  BY DEF Post
<1> PICK r : r = [g EXCEPT !.at = "answered", !.answer = {[item |-> i, data |-> q.data, version |-> 1]}]
  OBVIOUS
<1>2. /\ g # None /\ OpOK(g) /\ UOp(g) /\ UNCHANGED <<cache, kept>> /\ DOMAIN rows = Items
      /\ g.at = "sent" /\ q.verb = "post" /\ op' = [op EXCEPT ![h] = r]
  BY <1>1 DEF Post, At, Known, VInv, RowsOK, UInv, worker, Answered, Set
<1>3. DataOK(q.data) /\ y.data = q.data
  BY <1>2 DEF UOp
<1>5. ContentOK'
  BY <1>1, <1>2, <1>3 DEF ContentOK, Known, UInv, Has, Objects
<1>6. /\ DOMAIN r = Fields /\ r.answer = {[item |-> i, data |-> q.data, version |-> 1]}
      /\ r.obj = g.obj /\ r.left = g.left /\ r.at = "answered"
      /\ r.req = g.req /\ r.vault = g.vault
  BY <1>2 DEF Fields, OpOK
<1>7. UOp(r)'
  BY <1>2, <1>3, <1>6 DEF UOp, Cached, Objects
<1>8. UInv'
  BY <1>2, <1>5, <1>7, UStep
<1> QED  BY <1>1, <1>2, <1>8 DEF Has

\* Another client makes its version from the one that is there.
LEMMA OtherClientU ==
  ASSUME Known, OtherClient
  PROVE  UInv' /\ \A i \in Items : Has(i) /\ rows'[i] # rows[i] => rows'[i].data.from = rows[i].version
<1>1. PICK i \in Items :
        Has(i) /\ rows' = [rows EXCEPT ![i].data.from = rows[i].version, ![i].version = @ + 1]
  BY DEF OtherClient
<1>2. /\ DOMAIN rows = Items /\ DOMAIN rows[i] = {"vault", "data", "version"}
      /\ DataOK(rows[i].data) /\ UNCHANGED <<cache, kept, op>>
  BY <1>1 DEF Known, VInv, RowsOK, UInv, ContentOK, OtherClient, worker
<1>3. /\ DOMAIN rows' = Items /\ \A j \in Items : j # i => rows'[j] = rows[j]
      /\ rows'[i].data = [rows[i].data EXCEPT !.from = rows[i].version]
  BY <1>1, <1>2
<1>4. DataOK(rows'[i].data) /\ rows'[i].data.from = rows[i].version
  BY <1>2, <1>3 DEF DataOK
<1>5. UInv'
  BY <1>1, <1>2, <1>3, <1>4 DEF Known, UInv, ContentOK, UOp, Cached, Objects, Object, Has
<1> QED  BY <1>3, <1>4, <1>5

\* Sessions keeps UInv.
LEMMA SessionsU ==
  ASSUME Known, NEW h \in Handlers, Sessions(h)
  PROVE  UInv'
<1>1. CASE ReadSession(h)
  <2>1. op[h] # None /\ op[h].left = {} /\ UNCHANGED <<rows, cache, kept>>
    BY <1>1 DEF ReadSession, At, Known, UInv, UOp, server, worker
  <2> PICK r : r = [op[h] EXCEPT !.at = "restore", !.session = store]
    OBVIOUS
  <2>2. op' = [op EXCEPT ![h] = r] /\ DOMAIN op[h] = Fields
    BY <1>1, <2>1 DEF ReadSession, Set, Known, VInv, OpOK
  <2>3. Onward(r, op[h])
    BY <2>1, <2>2 DEF Fields, Onward
  <2> QED  BY <2>1, <2>2, <2>3, OnwardU
<1>2. CASE RestoreToken(h)
  <2>1. op[h] # None /\ op[h].left = {} /\ UNCHANGED <<rows, cache, kept>>
    BY <1>2 DEF RestoreToken, At, Known, UInv, UOp, server, worker
  <2> QED  BY <1>2, <2>1, GoU, EndU DEF RestoreToken
<1>3. CASE ImportKeys(h)
  <2>1. op[h] # None /\ op[h].left = {} /\ UNCHANGED <<rows, cache, kept>>
    BY <1>3 DEF ImportKeys, At, Known, UInv, UOp, server, worker
  <2> PICK r : r = [op[h] EXCEPT !.at = "run", !.session = NoSession]
    OBVIOUS
  <2>2. op' = [op EXCEPT ![h] = r] /\ DOMAIN op[h] = Fields
    BY <1>3, <2>1 DEF ImportKeys, Set, Known, VInv, OpOK
  <2>3. Onward(r, op[h])
    BY <2>1, <2>2 DEF Fields, Onward
  <2> QED  BY <2>1, <2>2, <2>3, OnwardU
<1>4. CASE TakeToken(h)
  <2>1. op[h] # None /\ op[h].left = {} /\ UNCHANGED <<rows, cache, kept>>
    BY <1>4 DEF TakeToken, At, Known, UInv, UOp, server, worker
  <2> QED  BY <1>4, <2>1, GoU, EndU DEF TakeToken
<1>5. CASE DeriveKey(h)
  <2>1. op[h] # None /\ op[h].left = {} /\ UNCHANGED <<rows, cache, kept>>
    BY <1>5 DEF DeriveKey, At, Known, UInv, UOp, server, worker
  <2> QED  BY <1>5, <2>1, GoU, EndU DEF DeriveKey
<1>6. CASE UnwrapKey(h)
  <2>1. op[h] # None /\ op[h].left = {} /\ UNCHANGED <<rows, cache, kept>>
    BY <1>6 DEF UnwrapKey, At, Known, UInv, UOp, server, worker
  <2> PICK r : r = [op[h] EXCEPT !.at = "write",
                       !.session = [NoSession EXCEPT !.token = mem.token, !.encKey = mem.encKey]]
    OBVIOUS
  <2>2. DOMAIN op[h] = Fields
    BY <2>1 DEF Known, VInv, OpOK
  <2>3. Onward(r, op[h])
    BY <2>1, <2>2 DEF Fields, Onward
  <2>4. op' = [op EXCEPT ![h] = r] \/ End(h)
    BY <1>6 DEF UnwrapKey, Set
  <2> QED  BY <2>1, <2>3, <2>4, OnwardU, EndU
<1>7. CASE ssoUnlock(h)
  <2>1. op[h] # None /\ op[h].left = {} /\ UNCHANGED <<rows, cache, kept>>
    BY <1>7 DEF ssoUnlock, At, Known, UInv, UOp, server, worker
  <2> QED  BY <1>7, <2>1, GoU, EndU DEF ssoUnlock
<1>8. CASE saveSession(h)
  <2>1. op[h] # None /\ op[h].left = {} /\ UNCHANGED <<rows, cache, kept>>
    BY <1>8 DEF saveSession, At, Known, UInv, UOp, server, worker
  <2> PICK r : r = [op[h] EXCEPT !.at = "write",
                       !.session = [NoSession EXCEPT !.token = mem.token, !.encKey = mem.encKey]]
    OBVIOUS
  <2>2. op' = [op EXCEPT ![h] = r] /\ DOMAIN op[h] = Fields
    BY <1>8, <2>1 DEF saveSession, Set, Known, VInv, OpOK
  <2>3. Onward(r, op[h])
    BY <2>1, <2>2 DEF Fields, Onward
  <2> QED  BY <2>1, <2>2, <2>3, OnwardU
<1>9. CASE WriteSession(h)
  <2>1. op[h] # None /\ op[h].left = {} /\ UNCHANGED <<rows, cache, kept>>
    BY <1>9 DEF WriteSession, At, Known, UInv, UOp, server, worker
  <2> PICK r : r = [op[h] EXCEPT !.at = "refresh", !.session = NoSession]
    OBVIOUS
  <2>2. op' = [op EXCEPT ![h] = r] /\ DOMAIN op[h] = Fields
    BY <1>9, <2>1 DEF WriteSession, Set, Known, VInv, OpOK
  <2>3. Onward(r, op[h])
    BY <2>1, <2>2 DEF Fields, Onward
  <2> QED  BY <2>1, <2>2, <2>3, OnwardU
<1> QED  BY <1>1, <1>2, <1>3, <1>4, <1>5, <1>6, <1>7, <1>8, <1>9, RunU, logoutU DEF Sessions

\* Refreshes keeps UInv.
LEMMA RefreshesU ==
  ASSUME Known, NEW h \in Handlers, Refreshes(h)
  PROVE  UInv'
<1>1. CASE ensureItemsCache(h)
  <2>1. op[h] # None /\ op[h].left = {} /\ UNCHANGED <<rows, cache, kept>>
    BY <1>1 DEF ensureItemsCache, At, Known, UInv, UOp, server, worker
  <2> QED  BY <1>1, <2>1, GoU, EndU DEF ensureItemsCache
<1>2. CASE Answer(h)
  <2>1. op[h] # None /\ op[h].left = {} /\ UNCHANGED <<rows, cache, kept>>
    BY <1>2 DEF Answer, At, Known, UInv, UOp, server, worker
  <2> QED  BY <1>2, <2>1, GoU, EndU DEF Answer
<1> QED  BY <1>1, <1>2, refreshAllItemsU, TakeVaultsU, NextVaultU, TakeKeyU, TakeItemsU DEF Refreshes

\* Saves keeps UInv.
LEMMA SavesU ==
  ASSUME Known, NEW h \in Handlers, Saves(h)
  PROVE  UInv'
<1>1. CASE getPendingSaves(h)
  <2>1. op[h] # None /\ op[h].left = {} /\ UNCHANGED <<rows, cache, kept>>
    BY <1>1 DEF getPendingSaves, At, Known, UInv, UOp, server, worker
  <2> PICK r : r = [op[h] EXCEPT !.at = "got", !.saves = pendingSaves]
    OBVIOUS
  <2>2. op' = [op EXCEPT ![h] = r] /\ DOMAIN op[h] = Fields
    BY <1>1, <2>1 DEF getPendingSaves, Set, Known, VInv, OpOK
  <2>3. Onward(r, op[h])
    BY <2>1, <2>2 DEF Fields, Onward
  <2> QED  BY <2>1, <2>2, <2>3, OnwardU
<1>2. CASE stagePendingSave(h)
  <2>1. op[h] # None /\ op[h].left = {} /\ UNCHANGED <<rows, cache, kept>>
    BY <1>2 DEF stagePendingSave, At, Known, UInv, UOp, server, worker
  <2> QED  BY <1>2, <2>1, GoU, EndU DEF stagePendingSave
<1>3. CASE checkPendingSave(h)
  <2>1. op[h] # None /\ op[h].left = {} /\ UNCHANGED <<rows, cache, kept>>
    BY <1>3 DEF checkPendingSave, At, Known, UInv, UOp, server, worker
  <2> QED  BY <1>3, <2>1, GoU, EndU DEF checkPendingSave
<1>4. CASE dismissPendingSave(h)
  <2>1. op[h] # None /\ op[h].left = {} /\ UNCHANGED <<rows, cache, kept>>
    BY <1>4 DEF dismissPendingSave, At, Known, UInv, UOp, server, worker
  <2> QED  BY <1>4, <2>1, GoU, EndU DEF dismissPendingSave
<1>5. CASE Unstage(h)
  <2>1. op[h] # None /\ op[h].left = {} /\ UNCHANGED <<rows, cache, kept>>
    BY <1>5 DEF Unstage, At, Known, UInv, UOp, server, worker
  <2> PICK r : r = [op[h] EXCEPT !.at = "save", !.saves = None]
    OBVIOUS
  <2>2. op' = [op EXCEPT ![h] = r] /\ DOMAIN op[h] = Fields
    BY <1>5, <2>1 DEF Unstage, Set, Known, VInv, OpOK
  <2>3. Onward(r, op[h])
    BY <2>1, <2>2 DEF Fields, Onward
  <2> QED  BY <2>1, <2>2, <2>3, OnwardU
<1>6. CASE ItemNotFound(h)
  <2>1. op[h] # None /\ op[h].left = {} /\ UNCHANGED <<rows, cache, kept>>
    BY <1>6 DEF ItemNotFound, At, Known, UInv, UOp, server, worker
  <2> QED  BY <1>6, <2>1, GoU, EndU DEF ItemNotFound
<1> QED  BY <1>1, <1>2, <1>3, <1>4, <1>5, <1>6, commitPendingSaveU, passkeyRegisterU, updateItemU, saveNewItemU, EncryptedU, TakePutU, TakePostU DEF Saves

\* Requests keeps UInv.
LEMMA RequestsU ==
  ASSUME Known, NEW h \in Handlers, Requests(h)
  PROVE  UInv'
<1>1. CASE SignIn(h)
  BY <1>1 DEF SignIn, Known, VInv, OpOK, OneAtATime, UInv, UOp, ContentOK, DataOK, Cached, Objects, Object, Has, server, worker, Fields, At, Set, Go
<1>2. CASE Refuse(h)
  BY <1>2 DEF Refuse, Known, VInv, OpOK, OneAtATime, UInv, UOp, ContentOK, DataOK, Cached, Objects, Object, Has, server, worker, Fields, At, Set, Go
<1> QED  BY <1>1, <1>2, ReadU, PutU, PostU, UnauthorizedU, FailU DEF Requests

\* UInv holds at first, ...
LEMMA InitU == ASSUME Init PROVE UInv
BY DEF Init, UInv, ContentOK, DataOK, Objects, Has

\* Only a put and another client change an item.
LEMMA RowsStay ==
  ASSUME NEW h \in Handlers, Messages(h) \/ Sessions(h) \/ Refreshes(h) \/ Saves(h) \/ Requests(h),
         ~ Put(h), ~ Post(h)
  PROVE  UNCHANGED rows
<1>1. CASE Messages(h)
  BY <1>1 DEF Messages, Popup, Submit, Page, Close, server
<1>2. CASE Sessions(h)
  BY <1>2 DEF Sessions, ReadSession, RestoreToken, ImportKeys, Run, logout, TakeToken, DeriveKey,
              UnwrapKey, ssoUnlock, saveSession, WriteSession, server
<1>3. CASE Refreshes(h)
  BY <1>3 DEF Refreshes, ensureItemsCache, refreshAllItems, TakeVaults, NextVault, TakeKey,
              TakeItems, Answer, server
<1>4. CASE Saves(h)
  BY <1>4 DEF Saves, getPendingSaves, stagePendingSave, checkPendingSave, dismissPendingSave,
              commitPendingSave, Unstage, passkeyRegister, updateItem, ItemNotFound, saveNewItem,
              Encrypted, TakePut, TakePost, server
<1>5. CASE Requests(h)
  BY <1>5 DEF Requests, SignIn, Read, Refuse, Unauthorized, Fail, server
<1> QED  BY <1>1, <1>2, <1>3, <1>4, <1>5

\* ... and every step keeps it.
LEMMA NextU ==
  ASSUME Known, [Next]_vars
  PROVE  /\ UInv'
         /\ \A i \in Items : Has(i) /\ rows'[i] # rows[i] => rows'[i].data.from = rows[i].version
<1>1. ASSUME NEW h \in Handlers, Messages(h) \/ Sessions(h) \/ Refreshes(h) \/ Saves(h) \/ Requests(h)
      PROVE  /\ UInv'
             /\ \A i \in Items : Has(i) /\ rows'[i] # rows[i] => rows'[i].data.from = rows[i].version
  <2>1. UInv'
    BY <1>1, MessagesU, SessionsU, RefreshesU, SavesU, RequestsU
  <2>2. CASE Put(h) \/ Post(h)
    BY <2>2, PutU, PostU
  <2>3. CASE ~ Put(h) /\ ~ Post(h)
    BY <1>1, <2>1, <2>3, RowsStay
  <2> QED  BY <2>2, <2>3
<1>2. CASE Navigate \/ Expire \/ Age \/ UNCHANGED vars
  <2>1. UNCHANGED <<rows, cache, kept, op>>
    BY <1>2 DEF Navigate, Expire, Age, vars, server, worker
  <2> QED  BY <2>1 DEF Known, UInv, ContentOK, UOp, Cached, Objects, Object, Has
<1>3. CASE Kill
  BY <1>3 DEF Kill, Known, UInv, ContentOK, Objects, Has, server
<1> QED  BY <1>1, <1>2, <1>3, OtherClientU DEF Next

\* An update of an item is made from the version that it replaces, whatever is lost,
\* and whenever the worker is killed (updateItemPassword, the If-Match of api).
THEOREM Updates ==
  ASSUME OneAtATime, NoneIsNoRow
  PROVE  Spec => [](VInv /\ UInv) /\ UpdatesFollow
<1>1. Init => VInv /\ UInv
  BY InitV, InitU
<1>2. VInv /\ UInv /\ [Next]_vars
        => /\ VInv' /\ UInv'
           /\ \A i \in Items : Has(i) /\ rows'[i] # rows[i] => rows'[i].data.from = rows[i].version
  BY NextV, NextU DEF Known
<1> QED  BY <1>1, <1>2, PTL DEF Spec, UpdatesFollow

-----------------------------------------------------------------------------
(* 4. Staged credentials, one message at a time *)

\* The submissions whose content has come to the server, the cache or an answer.
Written ==
  {rows[i].data.by : i \in {j \in Items : Has(j)}}
    \union {e.data.by : e \in Objects}
    \union UNION {{s.data.by : s \in op[h].answer} : h \in {x \in Handlers : op[x] # None}}

Apart(p, n) == \A t \in Tabs : p[t] # None => p[t].n # n

PendingOK(p) ==
  /\ DOMAIN p = Tabs
  /\ \A t \in Tabs : p[t] # None => p[t].n \in (1..staged) \ Written
  /\ \A t, u \in Tabs : p[t] # None /\ p[u] # None /\ t # u => p[t].n # p[u].n

\* The message has left the map of the staged credentials, to save.
Saving(r) ==
  \/ r.at = "save" /\ r.kind # "ssoUnlock"
  \/ r.at = "encrypt"
  \/ /\ r.at \in {"sent", "answered", "unauthorized"}
     /\ r.req.verb \in {"put", "post"} \/ (r.req.verb = "key" /\ r.left = {})

Agreed(r) == r.kind = "commit" /\ r.at \notin {"start", "restore", "import", "run", "get", "got"}

\* What it writes is its own, or what was there.
WritesOK(r, n) ==
  /\ n \in 0..staged /\ Apart(pendingSaves, n)
  /\ r.kind = "commit" => n = r.cred.n

DOp(r) ==
  /\ r.kind \in TabKinds => r.tab \in Tabs
  /\ Saving(r) => r.kind \in {"commit", "passkey"}
  /\ r.at = "got" => PendingOK(r.saves)
  /\ r.kind = "stage" => /\ r.cred.n \in (1..staged) \ Written /\ Apart(pendingSaves, r.cred.n)
                         /\ r.at = "got" => Apart(r.saves, r.cred.n)
  /\ Agreed(r) /\ ~ Saving(r)
       => PendingOK(r.saves) /\ r.cred = r.saves[r.tab] /\ r.cred # None
  /\ r.kind = "commit" /\ Saving(r)
       => /\ r.cred.n \in 1..staged /\ Apart(pendingSaves, r.cred.n)
          /\ r.at # "answered" \/ r.req.verb = "key" => r.cred.n \notin Written
  /\ r.at = "encrypt" => WritesOK(r, r.data.by)
  /\ r.at \in {"sent", "answered"} /\ r.req.verb \in {"put", "post"} => WritesOK(r, r.req.data.by)

DInv ==
  /\ staged \in Nat /\ Written \subseteq 0..staged /\ PendingOK(pendingSaves)
  /\ \A h \in Handlers : op[h] # None => DOp(op[h])

Staging == Known /\ DInv

\* A message that brings no answer writes nothing.
LEMMA WrittenStays ==
  ASSUME NEW h \in Handlers, DOMAIN op = Handlers, NEW r, op' = [op EXCEPT ![h] = r],
         op[h] # None \/ (r # None => r.answer = {}),
         r # None => r.answer \in {op[h].answer, {}}, UNCHANGED rows, Objects' \subseteq Objects
  PROVE  Written' \subseteq Written
BY DEF Written, Has

\* What is said of a message stays true when nothing more is written and nothing
\* is staged.
LEMMA DLess ==
  ASSUME NEW r, DOp(r), Written' \subseteq Written, UNCHANGED <<staged, pendingSaves>>
  PROVE  DOp(r)'
BY DEF DOp, PendingOK, Apart, WritesOK, Saving, Agreed

\* A message that is in order after a step, with the staged credentials.
LEMMA DStep ==
  ASSUME Staging, NEW h \in Handlers, NEW r, op' = [op EXCEPT ![h] = r], r # None => DOp(r)',
         staged' \in Nat, Written' \subseteq 0..staged', PendingOK(pendingSaves)'
  PROVE  DInv'
BY DEF Staging, DInv, Known, OneAtATime, VInv

\* The same, when nothing is staged or unstaged.
LEMMA DPlain ==
  ASSUME Staging, NEW h \in Handlers, NEW r, op' = [op EXCEPT ![h] = r], r # None => DOp(r),
         Written' \subseteq Written, UNCHANGED <<staged, pendingSaves>>
  PROVE  DInv'
<1>1. r # None => DOp(r)'
  BY DLess
<1>2. PendingOK(pendingSaves)' /\ staged' \in Nat /\ Written' \subseteq 0..staged'
  BY DEF Staging, DInv, PendingOK
<1> QED  BY <1>1, <1>2, DStep

\* Nothing else than the message itself.
Alone == UNCHANGED <<rows, cache, kept, staged, pendingSaves>>

\* A step of a message that neither saves nor is about staged credentials.
Plain(r, g) ==
  /\ DOMAIN r = Fields /\ r.kind = g.kind /\ r.tab = g.tab /\ r.cred = g.cred /\ r.saves = g.saves
  /\ r.answer \in {g.answer, {}} /\ ~ Saving(r) /\ r.at # "got"
  /\ Agreed(r) => Agreed(g) /\ ~ Saving(g)

\* What is said of a message stays true, ...
LEMMA PlainOp ==
  ASSUME NEW r, NEW g, Plain(r, g), DOp(g)
  PROVE  DOp(r)
BY DEF DOp, Plain, Saving

\* ... and so does the invariant.
LEMMA PlainD ==
  ASSUME Staging, NEW h \in Handlers, op[h] # None, NEW r, op' = [op EXCEPT ![h] = r],
         Plain(r, op[h]), UNCHANGED <<rows, staged, pendingSaves>>, Objects' \subseteq Objects
  PROVE  DInv'
<1>1. DOp(op[h])
  BY DEF Staging, DInv
<1>2. DOp(r)
  BY <1>1, PlainOp
<1>3. Written' \subseteq Written
  BY WrittenStays DEF Staging, Known, VInv, Plain
<1> QED  BY <1>2, <1>3, DPlain

\* It ends, ...
LEMMA EndD ==
  ASSUME Staging, NEW h \in Handlers, End(h), UNCHANGED <<rows, staged, pendingSaves>>,
         Objects' \subseteq Objects
  PROVE  DInv'
<1>1. op' = [op EXCEPT ![h] = None] /\ DOMAIN op = Handlers
  BY DEF End, Set, Staging, Known, VInv
<1>2. Written' \subseteq Written
  BY <1>1 DEF Written, Has
<1> QED  BY <1>1, <1>2, DPlain

\* ... or goes on.
LEMMA GoD ==
  ASSUME Staging, NEW h \in Handlers, op[h] # None, NEW s, Go(h, s), Alone,
         s \in {"run", "import", "derive", "unwrap", "ensure", "refresh", "get", "go"}
           \/ (s = "save" /\ op[h].kind = "ssoUnlock"),
         op[h].kind = "commit" /\ s \notin {"run", "import", "get"} => Agreed(op[h]) /\ ~ Saving(op[h])
  PROVE  DInv'
<1> PICK g : g = op[h]
  OBVIOUS
<1> PICK r : r = [g EXCEPT !.at = s]
  OBVIOUS
<1>1. op' = [op EXCEPT ![h] = r] /\ DOMAIN g = Fields
  BY DEF Go, Set, Staging, Known, VInv, OpOK
<1>2. /\ DOMAIN r = Fields /\ r.kind = g.kind /\ r.tab = g.tab /\ r.cred = g.cred
      /\ r.saves = g.saves /\ r.answer = g.answer /\ r.at = s
  BY <1>1 DEF Fields
<1>3. Plain(r, g)
  BY <1>2 DEF Plain, Saving, Agreed
<1> QED  BY <1>1, <1>3, PlainD DEF Alone, Objects

\* A request that saves nothing.
LEMMA AskD ==
  ASSUME Staging, NEW h \in Handlers, op[h] # None, NEW q, NEW v,
         NEW m \in {"login", "sso", "vaults", "items", "key"},
         DOMAIN q = Fields, q.answer = op[h].answer, q.kind = op[h].kind, q.tab = op[h].tab,
         q.cred = op[h].cred, q.saves = op[h].saves, m = "key" => q.left # {},
         (Agreed(op[h]) /\ ~ Saving(op[h])) \/ q.kind # "commit",
         Set(h, Ask(q, m, v)), Alone
  PROVE  DInv'
<1> PICK r : r = Ask(q, m, v)
  OBVIOUS
<1>1. /\ op' = [op EXCEPT ![h] = r] /\ DOMAIN r = Fields /\ r.answer = q.answer /\ r.kind = q.kind
      /\ r.tab = q.tab /\ r.cred = q.cred /\ r.saves = q.saves /\ r.left = q.left
      /\ r.at = "sent" /\ r.req.verb = m
  BY DEF Set, Ask, Fields
<1>2. Plain(r, op[h])
  BY <1>1 DEF Plain, Saving, Agreed
<1> QED  BY <1>1, <1>2, PlainD DEF Alone, Objects

\* The shape of a message and what is known of it.
Handled(h) == op[h] # None /\ DOMAIN op[h] = Fields /\ UOp(op[h]) /\ OpOK(op[h]) /\ DOp(op[h])

\* The message in hand.
LEMMA HandledBy ==
  ASSUME Staging, NEW h \in Handlers, op[h] # None
  PROVE  Handled(h)
BY DEF Staging, Known, VInv, OpOK, UInv, DInv, Handled

\* Run keeps DInv.
LEMMA RunD ==
  ASSUME Staging, NEW h \in Handlers, Run(h)
  PROVE  DInv'
<1>1. Handled(h) /\ Alone /\ op[h].at = "run"
  BY HandledBy DEF Run, At, Alone, worker, server, pages
<1>2. CASE op[h].kind \in {"login", "ssoStart"}
           /\ (Set(h, Ask(op[h], "login", None)) \/ Set(h, Ask(op[h], "sso", None)))
  BY <1>1, <1>2, AskD DEF Handled
<1>3. CASE End(h)
  BY <1>1, <1>3, EndD DEF Alone, Objects
<1>4. CASE \/ op[h].kind # "commit" /\ (Go(h, "derive") \/ Go(h, "ensure") \/ Go(h, "refresh"))
           \/ Go(h, "get")
  BY <1>1, <1>4, GoD DEF Handled
<1> QED  BY <1>2, <1>3, <1>4 DEF Run

\* refreshAllItems keeps DInv.
LEMMA refreshAllItemsD ==
  ASSUME Staging, NEW h \in Handlers, refreshAllItems(h)
  PROVE  DInv'
<1>1. Handled(h) /\ Alone /\ op[h].at = "refresh"
  BY HandledBy DEF refreshAllItems, At, Alone, server, pages
<1>2. op[h].kind = "commit" => Agreed(op[h]) /\ ~ Saving(op[h])
  BY <1>1 DEF Agreed, Saving
<1> QED  BY <1>1, <1>2, AskD, GoD DEF refreshAllItems, Handled

\* TakeVaults keeps DInv.
LEMMA TakeVaultsD ==
  ASSUME Staging, NEW h \in Handlers, TakeVaults(h)
  PROVE  DInv'
<1> PICK g : g = op[h]
  OBVIOUS
<1> PICK n : n = NewLoad(h)
  OBVIOUS
<1> PICK r : r = [g EXCEPT !.at = "next", !.left = Vaults, !.load = n, !.obj = None, !.req = None]
  OBVIOUS
<1>1. /\ Handled(h) /\ UNCHANGED <<rows, staged, pendingSaves>> /\ Objects' \subseteq Objects
      /\ op' = [op EXCEPT ![h] = r] /\ g.at = "answered" /\ g.req.verb = "vaults"
  BY HandledBy DEF TakeVaults, At, server, pages, Emptied, Objects, Set
<1>2. /\ DOMAIN r = Fields /\ r.kind = g.kind /\ r.tab = g.tab /\ r.cred = g.cred
      /\ r.saves = g.saves /\ r.answer = g.answer /\ r.at = "next"
  BY <1>1 DEF Fields, Handled
<1>3. Plain(r, g)
  BY <1>1, <1>2 DEF Plain, Saving, Agreed
<1> QED  BY <1>1, <1>3, PlainD DEF Handled

\* NextVault keeps DInv.
LEMMA NextVaultD ==
  ASSUME Staging, NEW h \in Handlers, NextVault(h)
  PROVE  DInv'
<1> PICK g : g = op[h]
  OBVIOUS
<1>1. Handled(h) /\ Alone /\ g.at = "next" /\ Objects' = Objects
  BY HandledBy DEF NextVault, At, Alone, server, pages, worker, Objects
<1>2. CASE Set(h, [g EXCEPT !.at = "go", !.vault = None, !.load = 0])
  <2> PICK r : r = [g EXCEPT !.at = "go", !.vault = None, !.load = 0]
    OBVIOUS
  <2>1. /\ DOMAIN r = Fields /\ r.kind = g.kind /\ r.tab = g.tab /\ r.cred = g.cred
        /\ r.saves = g.saves /\ r.answer = g.answer /\ r.at = "go"
    BY <1>1 DEF Fields, Handled
  <2>2. Plain(r, g)
    BY <1>1, <2>1 DEF Plain, Saving, Agreed
  <2> QED  BY <1>1, <1>2, <2>2, PlainD DEF Set, Handled, Alone
<1>3. ASSUME NEW v \in g.left, NEW m \in {"items", "key"},
             Set(h, Ask([g EXCEPT !.vault = v], m, v))
      PROVE  DInv'
  <2> PICK q : q = [g EXCEPT !.vault = v]
    OBVIOUS
  <2>1. /\ DOMAIN q = Fields /\ q.answer = g.answer /\ q.kind = g.kind /\ q.left = g.left
        /\ q.tab = g.tab /\ q.cred = g.cred /\ q.saves = g.saves
    BY <1>1 DEF Fields, Handled
  <2>2. ~ Saving(g) /\ (g.kind = "commit" => Agreed(g)) /\ q.left # {}
    BY <1>1, <2>1 DEF Saving, Agreed
  <2> QED  BY <1>1, <1>3, <2>1, <2>2, AskD DEF Handled
<1>4. ASSUME NEW v \in g.left, Set(h, [g EXCEPT !.left = @ \ {v}])
      PROVE  DInv'
  <2> PICK r : r = [g EXCEPT !.left = @ \ {v}]
    OBVIOUS
  <2>1. /\ DOMAIN r = Fields /\ r.kind = g.kind /\ r.tab = g.tab /\ r.cred = g.cred
        /\ r.saves = g.saves /\ r.answer = g.answer /\ r.at = "next"
    BY <1>1 DEF Fields, Handled
  <2>2. Plain(r, g)
    BY <1>1, <2>1 DEF Plain, Saving, Agreed
  <2> QED  BY <1>1, <1>4, <2>2, PlainD DEF Set, Handled, Alone
<1> QED  BY <1>2, <1>3, <1>4 DEF NextVault

\* A load whose vault has no key goes on, a save ends.
LEMMA NoKeyD ==
  ASSUME Staging, NEW h \in Handlers, Handled(h), NoKey(h),
         op[h].at \in {"sent", "answered", "unauthorized"},
         UNCHANGED <<rows, staged>>, Objects' \subseteq Objects,
         UNCHANGED pendingSaves
  PROVE  DInv'
<1> PICK g : g = op[h]
  OBVIOUS
<1> PICK r : r = [g EXCEPT !.at = "next", !.left = @ \ {g.vault}, !.req = None]
  OBVIOUS
<1>1. CASE Loading(g) /\ op' = [op EXCEPT ![h] = r]
  <2>1. /\ DOMAIN r = Fields /\ r.kind = g.kind /\ r.tab = g.tab /\ r.cred = g.cred
        /\ r.saves = g.saves /\ r.answer = g.answer /\ r.at = "next"
    BY DEF Fields, Handled
  <2>2. ~ Saving(g) /\ (g.kind = "commit" => Agreed(g))
    BY <1>1 DEF Handled, UOp, Saving, Agreed, Loading
  <2>3. Plain(r, g)
    BY <2>1, <2>2 DEF Plain, Saving, Agreed
  <2> QED  BY <1>1, <2>3, PlainD DEF Handled
<1>2. CASE End(h)
  BY <1>2, EndD
<1> QED  BY <1>1, <1>2 DEF NoKey, Set

\* What the cache takes from an answer has been written.
LEMMA TakeItemsD ==
  ASSUME Staging, NEW h \in Handlers, TakeItems(h)
  PROVE  DInv'
<1> PICK g : g = op[h]
  OBVIOUS
<1> PICK r : r = [g EXCEPT !.at = "next", !.left = @ \ {g.vault}, !.answer = {}, !.req = None]
  OBVIOUS
<1>1. /\ Handled(h) /\ UNCHANGED <<rows, kept, staged, pendingSaves>>
      /\ op' = [op EXCEPT ![h] = r] /\ g.at = "answered" /\ g.req.verb = "items" /\ DOMAIN op = Handlers
  BY HandledBy DEF TakeItems, At, server, pages, Set, Staging, Known, VInv
<1>2. /\ DOMAIN r = Fields /\ r.kind = g.kind /\ r.tab = g.tab /\ r.cred = g.cred
      /\ r.saves = g.saves /\ r.answer = {} /\ r.at = "next"
  BY <1>1 DEF Fields, Handled
<1>3. Plain(r, g)
  BY <1>1, <1>2 DEF Plain, Saving, Agreed
<1>4. ASSUME NEW e \in Objects'
      PROVE  e.data.by \in Written
  <2>1. CASE e \in Objects
    BY <2>1 DEF Written
  <2>2. CASE e \notin Objects
    <3>1. PICK s \in g.answer : e = [ref |-> [item |-> s.item, load |-> g.load], vault |-> g.vault,
                                     data |-> s.data, version |-> s.version]
      BY <1>1, <1>4, <2>2 DEF TakeItems, Objects
    <3> QED  BY <1>1, <3>1 DEF Written, Handled
  <2> QED  BY <2>1, <2>2
<1>5. Written' \subseteq Written
  BY <1>1, <1>2, <1>4 DEF Written, Has
<1>6. DOp(r)
  BY <1>1, <1>3, PlainOp DEF Handled
<1> QED  BY <1>1, <1>5, <1>6, DPlain

\* TakePost keeps DInv.
LEMMA TakePostD ==
  ASSUME Staging, NEW h \in Handlers, TakePost(h)
  PROVE  DInv'
<1> PICK g : g = op[h]
  OBVIOUS
<1>1. /\ Handled(h) /\ UNCHANGED <<rows, kept, staged, pendingSaves>>
      /\ op' = [op EXCEPT ![h] = None] /\ DOMAIN op = Handlers
  BY HandledBy DEF TakePost, At, server, pages, Set, End, Staging, Known, VInv
<1>4. ASSUME NEW e \in Objects'
      PROVE  e.data.by \in Written
  <2>1. CASE e \in Objects
    BY <2>1 DEF Written
  <2>2. CASE e \notin Objects
    <3>1. PICK s \in g.answer : e = [ref |-> [item |-> s.item, load |-> 0], vault |-> g.vault,
                                     data |-> s.data, version |-> s.version]
      BY <1>1, <1>4, <2>2 DEF TakePost, Objects
    <3> QED  BY <1>1, <3>1 DEF Written, Handled
  <2> QED  BY <2>1, <2>2
<1>5. Written' \subseteq Written
  BY <1>1, <1>4 DEF Written, Has
<1> QED  BY <1>1, <1>5, DPlain

\* A save on its way, before it is answered.
OnItsWay(g) == Saving(g) /\ (g.at # "answered" \/ g.req.verb = "key")

Sender(r, g) ==
  /\ DOMAIN r = Fields /\ r.kind = g.kind /\ r.tab = g.tab /\ r.cred = g.cred /\ r.answer = g.answer
  /\ OnItsWay(r) /\ r.at # "got"
  /\ r.at = "encrypt" => WritesOK(r, r.data.by)
  /\ r.at \in {"sent", "answered"} /\ r.req.verb \in {"put", "post"} => WritesOK(r, r.req.data.by)

\* A save that goes on.
LEMMA SenderD ==
  ASSUME Staging, NEW h \in Handlers, op[h] # None, OnItsWay(op[h]), NEW r,
         op' = [op EXCEPT ![h] = r], Sender(r, op[h]), Alone
  PROVE  DInv'
<1>1. DOp(op[h])
  BY DEF Staging, DInv
<1>2. DOp(r)
  BY <1>1 DEF DOp, Sender, OnItsWay, Saving
<1>3. Written' \subseteq Written
  BY WrittenStays DEF Staging, Known, VInv, Sender, Alone, Objects
<1> QED  BY <1>2, <1>3, DPlain DEF Alone

\* A save looks for its key.
LEMMA WithKeyD ==
  ASSUME Staging, NEW h \in Handlers, Handled(h), OnItsWay(op[h]), NEW q,
         DOMAIN q = Fields, q.answer = op[h].answer, q.kind = op[h].kind, q.tab = op[h].tab,
         q.cred = op[h].cred, q.left = {}, q.obj = None \/ Cached(q.obj),
         \/ Set(h, Ready(q))
         \/ Set(h, Ask(q, "key", q.vault)),
         Alone
  PROVE  DInv'
<1> PICK g : g = op[h]
  OBVIOUS
<1>1. CASE Set(h, Ready(q))
  <2> PICK r : r = Ready(q)
    OBVIOUS
  <2>1. /\ DOMAIN r = Fields /\ r.kind = g.kind /\ r.tab = g.tab /\ r.cred = g.cred
        /\ r.answer = g.answer /\ r.at = "encrypt"
        /\ q.kind # "passkey" => r.data.by = q.cred.n
        /\ q.kind = "passkey" => r.data.by = IF q.obj = None THEN 0 ELSE Object(q.obj).data.by
    BY ReadyOf DEF Staging
  <2>2. CASE g.kind = "commit"
    <3>3. g.cred.n \in 1..staged /\ Apart(pendingSaves, g.cred.n) /\ r.data.by = g.cred.n
      BY <2>1, <2>2 DEF Handled, DOp, OnItsWay
    <3>4. g.cred.n \in 0..staged
      BY <3>3
    <3>5. r.cred.n = g.cred.n
      BY <2>1
    <3>6. PICK n : n = g.cred.n
      OBVIOUS
    <3>7. WritesOK(r, n)
      BY <3>3, <3>4, <3>5, <3>6 DEF WritesOK
    <3>8. r.data.by = n
      BY <3>3, <3>6
    <3>1. WritesOK(r, r.data.by)
      BY <3>7, <3>8
    <3>2. Sender(r, g)
      BY <2>1, <3>1 DEF Sender, OnItsWay, Saving
    <3> QED  BY <1>1, <3>2, SenderD DEF Handled, Set
  <2>3. CASE g.kind # "commit"
    <3>1. g.kind = "passkey"
      BY <2>3 DEF Handled, DOp, OnItsWay
    <3>2. r.data.by = 0 \/ r.data.by \in Written
      BY <2>1, <3>1, ObjectOf DEF Staging, Written
    <3>5. PICK n : n = r.data.by
      OBVIOUS
    <3>6. staged \in Nat /\ Written \subseteq 0..staged
          /\ \A t \in Tabs : pendingSaves[t] # None => pendingSaves[t].n \in (1..staged) \ Written
      BY DEF Staging, DInv, PendingOK
    <3>a. n = 0 \/ n \in Written
      BY <3>2, <3>5
    <3>b. Written \subseteq 0..staged /\ 0 \in 0..staged
      BY <3>6
    <3>7. n \in 0..staged
      BY <3>a, <3>b
    <3>8. Apart(pendingSaves, n)
      BY <3>a, <3>6 DEF Apart
    <3>9. WritesOK(r, n)
      BY <2>1, <3>1, <3>7, <3>8 DEF WritesOK
    <3>3. WritesOK(r, r.data.by)
      BY <3>5, <3>9
    <3>4. Sender(r, g)
      BY <2>1, <3>3 DEF Sender, OnItsWay, Saving
    <3> QED  BY <1>1, <3>4, SenderD DEF Handled, Set
  <2> QED  BY <2>2, <2>3
<1>2. CASE Set(h, Ask(q, "key", q.vault))
  <2> PICK r : r = Ask(q, "key", q.vault)
    OBVIOUS
  <2>1. /\ DOMAIN r = Fields /\ r.kind = g.kind /\ r.tab = g.tab /\ r.cred = g.cred
        /\ r.answer = g.answer /\ r.at = "sent" /\ r.req.verb = "key" /\ r.left = {}
    BY DEF Ask, Fields
  <2>2. Sender(r, g)
    BY <2>1 DEF Sender, OnItsWay, Saving
  <2> QED  BY <1>2, <2>2, SenderD DEF Handled, Set
<1> QED  BY <1>1, <1>2

\* TakeKey keeps DInv.
LEMMA TakeKeyD ==
  ASSUME Staging, NEW h \in Handlers, TakeKey(h)
  PROVE  DInv'
<1> PICK g : g = op[h]
  OBVIOUS
<1>1. Handled(h) /\ Alone /\ g.at = "answered" /\ g.req.verb = "key" /\ Objects' = Objects
  BY HandledBy DEF TakeKey, At, Alone, server, pages, Objects
<1>2. CASE Loading(g) /\ Set(h, Ask(g, "items", g.vault))
  <2>1. ~ Saving(g) /\ (g.kind = "commit" => Agreed(g))
    BY <1>1, <1>2 DEF Saving, Agreed, Loading
  <2> QED  BY <1>1, <1>2, <2>1, AskD DEF Handled
<1>3. CASE ~ Loading(g) /\ Set(h, Ready(g))
  <2>1. g.left = {} /\ (g.obj = None \/ Cached(g.obj)) /\ OnItsWay(g)
    BY <1>1, <1>3 DEF Handled, UOp, Loading, OnItsWay, Saving
  <2> QED  BY <1>1, <1>3, <2>1, WithKeyD DEF Handled
<1> QED  BY <1>1, <1>2, <1>3, NoKeyD DEF TakeKey, Alone

\* updateItem keeps DInv.
LEMMA updateItemD ==
  ASSUME Staging, NEW h \in Handlers, updateItem(h)
  PROVE  DInv'
<1> PICK g : g = op[h]
  OBVIOUS
<1>1. Handled(h) /\ Alone /\ g.left = {} /\ OnItsWay(g) /\ Objects' = Objects
  BY HandledBy DEF updateItem, At, Alone, server, worker, pages, OnItsWay, Saving, Handled, UOp, Objects
<1>2. PICK o : /\ Cached(o)
               /\ End(h) \/ WithKey(h, [g EXCEPT !.obj = o, !.vault = Object(o).vault])
  <2>1. CASE g.kind = "passkey"
    BY <1>1, <2>1 DEF updateItem, UOp, Handled
  <2>2. CASE g.kind # "passkey"
    BY <2>2 DEF updateItem, Cached, Objects
  <2> QED  BY <2>1, <2>2
<1>3. CASE WithKey(h, [g EXCEPT !.obj = o, !.vault = Object(o).vault]) /\ ~ End(h)
  <2> PICK v : v = Object(o).vault
    OBVIOUS
  <2> PICK q : q = [g EXCEPT !.obj = o, !.vault = v]
    OBVIOUS
  <2>1. /\ DOMAIN q = Fields /\ q.answer = g.answer /\ q.obj = o /\ q.left = {} /\ q.kind = g.kind
        /\ q.tab = g.tab /\ q.cred = g.cred
    BY <1>1 DEF Fields, Handled
  <2>2. Set(h, Ready(q)) \/ Set(h, Ask(q, "key", q.vault))
    BY <1>3 DEF WithKey
  <2> QED  BY <1>1, <1>2, <2>1, <2>2, WithKeyD, ZenonT(60)
<1> QED  BY <1>1, <1>2, <1>3, EndD DEF Alone

\* saveNewItem keeps DInv.
LEMMA saveNewItemD ==
  ASSUME Staging, NEW h \in Handlers, saveNewItem(h)
  PROVE  DInv'
<1> PICK g : g = op[h]
  OBVIOUS
<1>1. Handled(h) /\ Alone /\ g.left = {} /\ OnItsWay(g) /\ Objects' = Objects
  BY HandledBy DEF saveNewItem, At, Alone, server, worker, pages, OnItsWay, Saving, Handled, UOp, Objects
<1>2. PICK v \in Vaults : End(h) \/ WithKey(h, [g EXCEPT !.vault = v])
  BY DEF saveNewItem
<1>3. CASE WithKey(h, [g EXCEPT !.vault = v]) /\ ~ End(h)
  <2> PICK q : q = [g EXCEPT !.vault = v]
    OBVIOUS
  <2>1. /\ DOMAIN q = Fields /\ q.answer = g.answer /\ q.obj = g.obj /\ q.left = {} /\ q.kind = g.kind
        /\ q.tab = g.tab /\ q.cred = g.cred /\ (g.obj = None \/ Cached(g.obj))
    BY <1>1 DEF Fields, Handled, UOp
  <2>2. Set(h, Ready(q)) \/ Set(h, Ask(q, "key", q.vault))
    BY <1>3 DEF WithKey
  <2> QED  BY <1>1, <1>2, <2>1, <2>2, WithKeyD
<1> QED  BY <1>1, <1>2, <1>3, EndD DEF Alone

\* The request has the content that was made for it.
LEMMA EncryptedD ==
  ASSUME Staging, NEW h \in Handlers, Encrypted(h)
  PROVE  DInv'
<1> PICK g : g = op[h]
  OBVIOUS
<1>1. Handled(h) /\ Alone /\ g.at = "encrypt" /\ OnItsWay(g)
  BY HandledBy DEF Encrypted, At, Alone, server, worker, pages, OnItsWay, Saving
<1> PICK q : q = IF g.obj = None
                 THEN [verb |-> "post", token |-> mem.token, vault |-> g.vault, item |-> None,
                       data |-> g.data, version |-> 0]
                 ELSE [verb |-> "put", token |-> mem.token, vault |-> g.vault,
                       item |-> g.obj.item, data |-> g.data, version |-> Object(g.obj).version]
  OBVIOUS
<1>2. Set(h, [g EXCEPT !.at = "sent", !.req = q]) /\ q.data = g.data /\ q.verb \in {"put", "post"}
  BY DEF Encrypted
<1> PICK r : r = [g EXCEPT !.at = "sent", !.req = q]
  OBVIOUS
<1>3. /\ DOMAIN r = Fields /\ r.kind = g.kind /\ r.tab = g.tab /\ r.cred = g.cred
      /\ r.answer = g.answer /\ r.at = "sent" /\ r.req = q
  BY <1>1 DEF Handled, Fields
<1>4. Sender(r, g)
  BY <1>1, <1>2, <1>3 DEF Sender, OnItsWay, Saving, Handled, DOp, WritesOK
<1> QED  BY <1>1, <1>2, <1>4, SenderD DEF Set, Handled

\* The passkey that is replaced is one of an entry.
LEMMA passkeyRegisterD ==
  ASSUME Staging, NEW h \in Handlers, passkeyRegister(h)
  PROVE  DInv'
<1> PICK g : g = op[h]
  OBVIOUS
<1>1. Handled(h) /\ Alone /\ g.kind = "passkey" /\ Objects' = Objects /\ DOMAIN op = Handlers
  BY HandledBy DEF passkeyRegister, At, Alone, server, worker, pages, Objects, Staging, Known, VInv
<1>3. ASSUME NEW o, Set(h, [g EXCEPT !.at = "save", !.obj = o])
      PROVE  DInv'
  <2> PICK r : r = [g EXCEPT !.at = "save", !.obj = o]
    OBVIOUS
  <2>1. /\ DOMAIN r = Fields /\ r.answer = g.answer /\ r.at = "save" /\ r.kind = "passkey"
        /\ r.tab = g.tab
    BY <1>1 DEF Fields, Handled
  <2>2. DOp(r)
    BY <1>1, <2>1 DEF DOp, Handled, Saving, Agreed
  <2>3. Written' \subseteq Written
    <3>1. op' = [op EXCEPT ![h] = r] /\ op[h] # None /\ r.answer = op[h].answer
      BY <1>1, <1>3, <2>1 DEF Set, Handled
    <3> QED  BY <1>1, <3>1, WrittenStays DEF Alone
  <2> QED  BY <1>1, <1>3, <2>2, <2>3, DPlain DEF Set, Alone
<1> QED  BY <1>1, <1>3, EndD DEF passkeyRegister, Alone

\* The entry of a save has the content that was saved.
LEMMA TakePutD ==
  ASSUME Staging, NEW h \in Handlers, TakePut(h)
  PROVE  DInv'
<1> PICK g : g = op[h]
  OBVIOUS
<1>1. /\ Handled(h) /\ UNCHANGED <<rows, staged, pendingSaves>> /\ g.at = "answered"
      /\ g.req.verb = "put" /\ g.req.data = g.data /\ DOMAIN op = Handlers
  BY HandledBy DEF TakePut, At, server, pages, Handled, OpOK, Staging, Known, VInv
<1>2. CASE g.kind = "passkey"
  <2> PICK r : r = [g EXCEPT !.kind = "refresh", !.at = "refresh", !.obj = None]
    OBVIOUS
  <2>1. op' = [op EXCEPT ![h] = r] /\ UNCHANGED <<cache, kept>>
    BY <1>2 DEF TakePut, Updated, Set
  <2>2. /\ DOMAIN r = Fields /\ r.answer = g.answer /\ r.at = "refresh" /\ r.kind = "refresh"
    BY <1>1 DEF Fields, Handled
  <2>3. DOp(r)
    BY <2>2 DEF DOp, Saving, Agreed, TabKinds
  <2>4. Written' \subseteq Written
    BY <1>1, <2>1, <2>2, WrittenStays DEF Handled, Objects
  <2> QED  BY <1>1, <2>1, <2>3, <2>4, DPlain
<1>3. CASE g.kind # "passkey"
  <2>1. op' = [op EXCEPT ![h] = None]
    BY <1>3 DEF TakePut, Updated, End, Set
  <2>2. ASSUME NEW e \in Objects'
        PROVE  e.data.by \in Written \union {g.data.by}
    <3> DEFINE new(x) == IF x.ref = g.obj
                         THEN [x EXCEPT !.data = g.data, !.version = g.req.version + 1] ELSE x
    <3>1. cache' = {new(x) : x \in cache} /\ kept' = {new(x) : x \in kept}
      BY <1>3 DEF TakePut, Updated
    <3> HIDE DEF new
    <3>2. PICK f \in Objects : e = new(f)
      BY <3>1, <2>2 DEF Objects
    <3>3. f.data.by \in Written /\ DOMAIN f = {"ref", "vault", "data", "version"}
      BY DEF Written, Staging, Known, VInv, EntriesOK
    <3> QED  BY <3>2, <3>3 DEF new
  <2>3. Written' \subseteq Written \union {g.data.by}
    BY <1>1, <2>1, <2>2 DEF Written, Has
  <2>4. WritesOK(g, g.data.by)
    BY <1>1 DEF Handled, DOp
  <2>5. Written' \subseteq 0..staged /\ PendingOK(pendingSaves)'
    BY <1>1, <2>3, <2>4 DEF WritesOK, Staging, DInv, PendingOK, Apart
  <2> QED  BY <1>1, <2>1, <2>5, DStep DEF Staging, DInv
<1> QED  BY <1>2, <1>3

\* After a message that only reads the maps: the same, when entries of the staged
\* credentials go, too.
LEMMA DUnstaged ==
  ASSUME Staging, NEW h \in Handlers, NEW r, op' = [op EXCEPT ![h] = r], r # None => DOp(r),
         Written' \subseteq Written, UNCHANGED staged, DOMAIN pendingSaves' = Tabs,
         \A t \in Tabs : pendingSaves'[t] \in {None, pendingSaves[t]}
  PROVE  DInv'
<1>1. r # None => DOp(r)'
  BY DEF DOp, PendingOK, Apart, WritesOK, Saving, Agreed
<1>2. PendingOK(pendingSaves)' /\ staged' \in Nat /\ Written' \subseteq 0..staged'
  BY DEF Staging, DInv, PendingOK
<1> QED  BY <1>1, <1>2, DStep

\* A message ends, and what it leaves of the staged credentials is in order.
LEMMA EndsD ==
  ASSUME Staging, NEW h \in Handlers, End(h), UNCHANGED <<rows, cache, kept, staged>>,
         PendingOK(pendingSaves')
  PROVE  DInv'
<1>1. op' = [op EXCEPT ![h] = None] /\ DOMAIN op = Handlers /\ Objects' = Objects
  BY DEF End, Set, Staging, Known, VInv, Objects
<1>2. Written' \subseteq Written
  BY <1>1 DEF Written, Has
<1>3. PendingOK(pendingSaves)' /\ staged' \in Nat /\ Written' \subseteq 0..staged'
  BY <1>2 DEF Staging, DInv, PendingOK
<1> QED  BY <1>1, <1>3, DStep

\* A new message.
LEMMA NewD ==
  ASSUME Staging, NEW h \in Handlers, NEW k, NEW t, k # "stage", k \in TabKinds => t \in Tabs,
         Set(h, Message(k, t)), Alone
  PROVE  DInv'
<1> PICK r : r = Message(k, t)
  OBVIOUS
<1>1. r.kind = k /\ r.tab = t /\ r.at \in {"start", "get"} /\ r.answer = {}
  BY DEF Message
<1>2. op' = [op EXCEPT ![h] = r] /\ DOMAIN op = Handlers /\ Objects' = Objects
  BY DEF Set, Staging, Known, VInv, Alone, Objects
<1>3. DOp(r)
  BY <1>1 DEF DOp, Saving, Agreed
<1>4. Written' \subseteq Written
  BY <1>1, <1>2 DEF Written, Has, Alone
<1> QED  BY <1>2, <1>3, <1>4, DPlain DEF Alone

\* What is submitted has a number of its own.
LEMMA SubmitD ==
  ASSUME Staging, NEW h \in Handlers, Submit(h)
  PROVE  DInv'
<1> PICK t \in Tabs \ closed, nm \in {Name, None} :
      /\ Idle(h) /\ staged' = staged + 1
      /\ \E pw \in {0, staged'} :
           Set(h, [Message("stage", t) EXCEPT !.cred = [n |-> staged', name |-> nm, pw |-> pw]])
      /\ UNCHANGED <<server, worker, store, pendingSaves, aged, banner, closed>>
  BY DEF Submit
<1> PICK pw \in {0, staged'} :
      Set(h, [Message("stage", t) EXCEPT !.cred = [n |-> staged', name |-> nm, pw |-> pw]])
  OBVIOUS
<1> PICK c : c = [n |-> staged', name |-> nm, pw |-> pw]
  OBVIOUS
<1> PICK r : r = [Message("stage", t) EXCEPT !.cred = c]
  OBVIOUS
<1>1. r.kind = "stage" /\ r.tab = t /\ r.at = "start" /\ r.answer = {} /\ r.cred.n = staged'
  BY DEF Message
<1>2. /\ op' = [op EXCEPT ![h] = r] /\ DOMAIN op = Handlers /\ Objects' = Objects
      /\ UNCHANGED <<rows, pendingSaves>>
  BY DEF Set, Staging, Known, VInv, Objects, server, worker
<1>3. Written' \subseteq Written
  BY <1>1, <1>2 DEF Written, Has
<1>4. /\ staged \in Nat /\ staged' \in Nat /\ Written' \subseteq 0..staged
      /\ staged' = staged + 1 /\ PendingOK(pendingSaves)
  BY <1>3 DEF Staging, DInv
<1>5. Written' \subseteq 0..staged' /\ staged' \in (1..staged') \ Written'
  BY <1>4
<1>6. PendingOK(pendingSaves)'
  BY <1>2, <1>3, <1>4 DEF PendingOK
<1>7. Apart(pendingSaves', staged')
  BY <1>2, <1>4 DEF PendingOK, Apart
<1>8. DOp(r)'
  BY <1>1, <1>5, <1>7 DEF DOp, Saving, Agreed, Apart
<1> QED  BY <1>2, <1>4, <1>5, <1>6, <1>8, DStep

\* Messages keeps DInv.
LEMMA MessagesD ==
  ASSUME Staging, NEW h \in Handlers, Messages(h)
  PROVE  DInv'
<1>1. CASE Popup(h)
  <2>1. PICK k \in PopupKinds : Set(h, Message(k, None))
    BY <1>1 DEF Popup
  <2>2. k # "stage" /\ k \notin TabKinds
    BY DEF PopupKinds, TabKinds
  <2> QED  BY <1>1, <2>1, <2>2, NewD DEF Popup, Alone, server, worker, pages
<1>2. CASE Page(h)
  <2>1. PICK t \in Tabs \ closed, k \in {"check", "commit", "dismiss", "passkey"} :
          Set(h, Message(k, t)) /\ Alone
    BY <1>2 DEF Page, Alone, server, worker
  <2> QED  BY <2>1, NewD
<1>3. CASE Close(h)
  <2>1. PICK t \in Tabs : Set(h, Message("close", t)) /\ Alone
    BY <1>3 DEF Close, Alone, server, worker
  <2> QED  BY <2>1, NewD
<1> QED  BY <1>1, <1>2, <1>3, SubmitD DEF Messages

\* SignIn keeps DInv.
LEMMA SignInD ==
  ASSUME Staging, NEW h \in Handlers, SignIn(h)
  PROVE  DInv'
<1> PICK g : g = op[h]
  OBVIOUS
<1> PICK r : r = [g EXCEPT !.at = "answered", !.session.token = tokens']
  OBVIOUS
<1>1. /\ Handled(h) /\ Alone /\ op' = [op EXCEPT ![h] = r] /\ g.req.verb \in {"login", "sso"}
      /\ g.kind \in {"login", "ssoStart"}
  BY HandledBy DEF SignIn, At, Alone, worker, pages, Set
<1>2. /\ DOMAIN r = Fields /\ r.kind = g.kind /\ r.tab = g.tab /\ r.cred = g.cred /\ r.saves = g.saves
      /\ r.answer = g.answer /\ r.at = "answered" /\ r.req = g.req
  BY <1>1 DEF Fields, Handled
<1>3. Plain(r, g)
  BY <1>1, <1>2 DEF Plain, Saving, Agreed
<1> QED  BY <1>1, <1>3, PlainD DEF Alone, Objects, Handled

\* A request goes its way: what is read has been written.
LEMMA SentD ==
  ASSUME Staging, NEW h \in Handlers, op[h] # None, op[h].at = "sent", NEW r,
         op' = [op EXCEPT ![h] = r],
         r.kind = op[h].kind, r.tab = op[h].tab, r.cred = op[h].cred, r.saves = op[h].saves,
         r.req = op[h].req, r.left = op[h].left, \A s \in r.answer : s.data.by \in Written,
         r.at = "unauthorized" \/ (r.at = "answered" /\ r.req.verb \notin {"put", "post"}), Alone
  PROVE  DInv'
<1>1. DOp(op[h])
  BY DEF Staging, DInv
<1>2. DOp(r)
  BY <1>1 DEF DOp, Saving, Agreed
<1>3. Written' \subseteq Written
  <2>1. DOMAIN op = Handlers /\ Objects' = Objects /\ UNCHANGED rows
    BY DEF Alone, Objects, Staging, Known, VInv
  <2> QED  BY <2>1 DEF Written, Has
<1> QED  BY <1>2, <1>3, DPlain DEF Alone

\* Read keeps DInv.
LEMMA ReadD ==
  ASSUME Staging, NEW h \in Handlers, Read(h)
  PROVE  DInv'
<1> PICK g : g = op[h]
  OBVIOUS
<1> PICK its : Answered(h, its) /\ \A s \in its : \E i \in Items : Has(i) /\ s = Show(i)
  BY DEF Read
<1> PICK r : r = [g EXCEPT !.at = "answered", !.answer = its]
  OBVIOUS
<1>1. /\ Handled(h) /\ Alone /\ op' = [op EXCEPT ![h] = r] /\ g.at = "sent"
      /\ g.req.verb \in {"vaults", "key", "items"}
  BY HandledBy DEF Read, At, Alone, server, worker, pages, Set, Answered
<1>2. /\ r.kind = g.kind /\ r.tab = g.tab /\ r.cred = g.cred /\ r.saves = g.saves
      /\ r.left = g.left /\ r.answer = its /\ r.at = "answered" /\ r.req = g.req
  BY <1>1 DEF Fields, Handled
<1>3. \A s \in its : s.data.by \in Written
  BY DEF Written, Show
<1> QED  BY <1>1, <1>2, <1>3, SentD DEF Handled

\* Refuse keeps DInv.
LEMMA RefuseD ==
  ASSUME Staging, NEW h \in Handlers, Refuse(h)
  PROVE  DInv'
<1> PICK g : g = op[h]
  OBVIOUS
<1> PICK r : r = [g EXCEPT !.at = "unauthorized"]
  OBVIOUS
<1>1. Handled(h) /\ Alone /\ op' = [op EXCEPT ![h] = r] /\ g.at = "sent"
  BY HandledBy DEF Refuse, At, Alone, server, worker, pages, Set, Go
<1>2. /\ r.kind = g.kind /\ r.tab = g.tab /\ r.cred = g.cred /\ r.saves = g.saves
      /\ r.left = g.left /\ r.answer = g.answer /\ r.at = "unauthorized" /\ r.req = g.req
  BY <1>1 DEF Fields, Handled
<1>4. \A s \in g.answer : s.data.by \in Written
  BY <1>1 DEF Written, Handled
<1>3. \A s \in r.answer : s.data.by \in Written
  BY <1>2, <1>4
<1> QED  BY <1>1, <1>2, <1>3, SentD DEF Handled

\* A save that has come to the server.
LEMMA SavedD ==
  ASSUME Staging, NEW h \in Handlers, Handled(h), op[h].at = "sent",
         op[h].req.verb \in {"put", "post"}, NEW its, Answered(h, its),
         \A s \in its : s.data.by = op[h].req.data.by,
         \A i \in Items : Has(i)' => \/ Has(i) /\ rows'[i].data.by = rows[i].data.by
                                     \/ rows'[i].data.by = op[h].req.data.by,
         UNCHANGED <<cache, kept, staged, pendingSaves>>
  PROVE  DInv'
<1> PICK g : g = op[h]
  OBVIOUS
<1> PICK n : n = g.req.data.by
  OBVIOUS
<1> PICK r : r = [g EXCEPT !.at = "answered", !.answer = its]
  OBVIOUS
<1>1. op' = [op EXCEPT ![h] = r] /\ DOMAIN op = Handlers /\ Objects' = Objects
  BY DEF Answered, Set, Objects, Staging, Known, VInv
<1>2. /\ r.kind = g.kind /\ r.tab = g.tab /\ r.cred = g.cred /\ r.saves = g.saves
      /\ r.left = g.left /\ r.answer = its /\ r.at = "answered" /\ r.req = g.req
  BY DEF Fields, Handled
<1>3. WritesOK(g, n)
  BY DEF Handled, DOp
<1>4. Written' \subseteq Written \union {n}
  BY <1>1, <1>2 DEF Written
<1>5. staged \in Nat /\ Written \subseteq 0..staged /\ PendingOK(pendingSaves)
  BY DEF Staging, DInv
<1>6. n \in 0..staged /\ Apart(pendingSaves, n)
  BY <1>3 DEF WritesOK
<1>7. Written' \subseteq 0..staged
  BY <1>4, <1>5, <1>6
<1>8. PendingOK(pendingSaves)'
  BY <1>4, <1>5, <1>6 DEF PendingOK, Apart
<1>9. DOp(r)'
  <2>1. g.kind \in {"commit", "passkey"}
    BY DEF Handled, DOp, Saving
  <2>2. WritesOK(r, n)'
    BY <1>2, <1>3 DEF WritesOK, Apart
  <2>3. WritesOK(r, r.req.data.by)'
    BY <1>2, <2>2
  <2>4. g.kind = "commit" => r.cred.n \in 1..staged /\ Apart(pendingSaves, r.cred.n)
    BY <1>2 DEF Handled, DOp, Saving
  <2>5. g.kind \in TabKinds => r.tab \in Tabs
    BY <1>2 DEF Handled, DOp
  <2> QED  BY <1>2, <2>1, <2>3, <2>4, <2>5 DEF DOp, Saving, Agreed, Apart
<1>a. staged' = staged /\ staged' \in Nat /\ Written' \subseteq 0..staged'
  BY <1>5, <1>7
<1> QED  BY <1>1, <1>a, <1>8, <1>9, DStep

\* Put keeps DInv.
LEMMA PutD ==
  ASSUME Staging, NEW h \in Handlers, Put(h)
  PROVE  DInv'
<1> PICK g : g = op[h]
  OBVIOUS
<1>1. /\ Handled(h) /\ g.at = "sent" /\ g.req.verb = "put" /\ Answered(h, {}) /\ Has(g.req.item)
      /\ UNCHANGED <<cache, kept, staged, pendingSaves>>
  BY HandledBy DEF Put, At, worker, pages
<1>2. /\ RowsOK
      /\ rows' = [rows EXCEPT ![g.req.item].data = g.req.data, ![g.req.item].version = @ + 1]
  BY DEF Staging, Known, VInv, Put
<1>3. \A i \in Items : Has(i)' => \/ Has(i) /\ rows'[i].data.by = rows[i].data.by
                                  \/ rows'[i].data.by = g.req.data.by
  BY <1>1, <1>2 DEF RowsOK, Has
<1>4. PICK its : its = {} /\ Answered(h, its) /\ \A s \in its : s.data.by = g.req.data.by
  BY <1>1
<1> QED  BY <1>1, <1>3, <1>4, SavedD

\* Post keeps DInv.
LEMMA PostD ==
  ASSUME Staging, NEW h \in Handlers, Post(h)
  PROVE  DInv'
<1> PICK g : g = op[h]
  OBVIOUS
<1> PICK i \in Items :
      /\ rows' = [rows EXCEPT ![i] = [vault |-> g.req.vault, data |-> g.req.data, version |-> 1]]
      /\ Answered(h, {[item |-> i, data |-> g.req.data, version |-> 1]})
  BY DEF Post
<1>1. /\ Handled(h) /\ g.at = "sent" /\ g.req.verb = "post"
      /\ UNCHANGED <<cache, kept, staged, pendingSaves>>
  BY HandledBy DEF Post, At, worker, pages
<1>2. RowsOK
  BY DEF Staging, Known, VInv
<1>3. \A j \in Items : Has(j)' => \/ Has(j) /\ rows'[j].data.by = rows[j].data.by
                                  \/ rows'[j].data.by = g.req.data.by
  BY <1>2 DEF RowsOK, Has
<1> QED  BY <1>1, <1>3, SavedD

\* Fail keeps DInv.
LEMMA FailD ==
  ASSUME Staging, NEW h \in Handlers, Fail(h)
  PROVE  DInv'
<1>1. Handled(h) /\ op[h].at \in {"sent", "answered"} /\ Alone /\ Objects' = Objects
  BY HandledBy DEF Fail, At, Alone, server, worker, pages, Objects
<1> QED  BY <1>1, NoKeyD, EndD DEF Fail, Alone

\* A logout empties the cache and the staged credentials.
LEMMA LoggedOutD ==
  ASSUME Staging, NEW h \in Handlers, Handled(h), LoggedOut(Handlers \ {h}), UNCHANGED <<rows, staged>>,
         NEW r, op' = [op EXCEPT ![h] = r],
         r # None => DOp(r) /\ r.answer = op[h].answer
  PROVE  DInv'
<1>1. Objects' \subseteq Objects /\ pendingSaves' = [t \in Tabs |-> None] /\ DOMAIN op = Handlers
  BY DEF LoggedOut, Objects, Staging, Known, VInv
<1>2. Written' \subseteq Written
  BY <1>1 DEF Written, Has, Handled
<1>3. DOMAIN pendingSaves' = Tabs /\ \A t \in Tabs : pendingSaves'[t] \in {None, pendingSaves[t]}
  BY <1>1
<1> QED  BY <1>2, <1>3, DUnstaged

\* logout keeps DInv.
LEMMA logoutD ==
  ASSUME Staging, NEW h \in Handlers, logout(h)
  PROVE  DInv'
<1>1. /\ Handled(h) /\ LoggedOut(Handlers \ {h}) /\ UNCHANGED <<rows, staged>>
      /\ op' = [op EXCEPT ![h] = None]
  BY HandledBy DEF logout, At, server, pages, End, Set
<1> QED  BY <1>1, LoggedOutD

\* Unauthorized keeps DInv.
LEMMA UnauthorizedD ==
  ASSUME Staging, NEW h \in Handlers, Unauthorized(h)
  PROVE  DInv'
<1> PICK g : g = op[h]
  OBVIOUS
<1>1. Handled(h) /\ g.at = "unauthorized" /\ UNCHANGED <<rows, staged>>
  BY HandledBy DEF Unauthorized, At, server, pages
<1>2. CASE g.req.token = 0
  BY <1>1, <1>2, NoKeyD, EndD DEF Unauthorized, worker, Objects
<1>3. CASE g.req.token # 0
  <2>1. LoggedOut(Handlers \ {h})
    BY <1>3 DEF Unauthorized
  <2>2. CASE End(h)
    BY <1>1, <2>1, <2>2, LoggedOutD DEF End, Set
  <2>3. CASE Loading(g) /\ Set(h, [g EXCEPT !.at = "next", !.left = @ \ {g.vault}, !.req = None])
    <3> PICK r : r = [g EXCEPT !.at = "next", !.left = @ \ {g.vault}, !.req = None]
      OBVIOUS
    <3>1. /\ DOMAIN r = Fields /\ r.kind = g.kind /\ r.tab = g.tab /\ r.cred = g.cred
          /\ r.saves = g.saves /\ r.answer = g.answer /\ r.at = "next"
      BY <1>1 DEF Fields, Handled
    <3>2. ~ Saving(g) /\ (g.kind = "commit" => Agreed(g))
      BY <1>1, <2>3 DEF Handled, UOp, Saving, Agreed, Loading
    <3>3. DOp(r)
      BY <1>1, <3>1, <3>2, PlainOp DEF Plain, Saving, Agreed, Handled
    <3> QED  BY <1>1, <2>1, <2>3, <3>1, <3>3, LoggedOutD DEF Set
  <2> QED  BY <2>2, <2>3 DEF Unauthorized, NoKey
<1> QED  BY <1>2, <1>3

\* Requests keeps DInv.
LEMMA RequestsD ==
  ASSUME Staging, NEW h \in Handlers, Requests(h)
  PROVE  DInv'
BY SignInD, ReadD, PutD, PostD, RefuseD, UnauthorizedD, FailD DEF Requests

\* getPendingSaves keeps DInv.
LEMMA getPendingSavesD ==
  ASSUME Staging, NEW h \in Handlers, getPendingSaves(h)
  PROVE  DInv'
<1> PICK g : g = op[h]
  OBVIOUS
<1> PICK r : r = [g EXCEPT !.at = "got", !.saves = pendingSaves]
  OBVIOUS
<1>1. /\ Handled(h) /\ Alone /\ op' = [op EXCEPT ![h] = r] /\ g.at \in {"get", "go"}
      /\ DOMAIN op = Handlers /\ Objects' = Objects
  BY HandledBy DEF getPendingSaves, At, Alone, server, worker, pages, Set, Objects, Staging, Known, VInv
<1>2. /\ r.kind = g.kind /\ r.tab = g.tab /\ r.cred = g.cred /\ r.saves = pendingSaves
      /\ r.answer = g.answer /\ r.at = "got"
  BY <1>1 DEF Fields, Handled
<1>3. PendingOK(r.saves)
  BY <1>2 DEF Staging, DInv
<1>4. DOp(r)
  BY <1>1, <1>2, <1>3 DEF DOp, Handled, Saving, Agreed
<1>5. Written' \subseteq Written
  BY <1>1, <1>2 DEF Written, Has, Handled, Alone
<1> QED  BY <1>1, <1>4, <1>5, DPlain DEF Alone

\* What is written back for one tab.
LEMMA SetD ==
  ASSUME Staging, NEW h \in Handlers, Handled(h), PendingOK(op[h].saves), op[h].tab \in Tabs,
         NEW p, setPendingSaves(h, p), UNCHANGED staged,
         p # None => p.n \in (1..staged) \ Written /\ Apart(op[h].saves, p.n)
  PROVE  PendingOK(pendingSaves')
<1> PICK g : g = op[h]
  OBVIOUS
<1>1. pendingSaves' = [g.saves EXCEPT ![g.tab] = p] /\ DOMAIN g.saves = Tabs
  BY DEF setPendingSaves, PendingOK
<1>2. pendingSaves'[g.tab] = p /\ \A t \in Tabs : t # g.tab => pendingSaves'[t] = g.saves[t]
  BY <1>1
<1>3. DOMAIN pendingSaves' = Tabs
  BY <1>1
<1> QED  BY <1>2, <1>3 DEF PendingOK, Apart

\* stagePendingSave keeps DInv.
LEMMA stagePendingSaveD ==
  ASSUME Staging, NEW h \in Handlers, stagePendingSave(h)
  PROVE  DInv'
<1> PICK g : g = op[h]
  OBVIOUS
<1>1. /\ Handled(h) /\ UNCHANGED <<rows, cache, kept, staged>> /\ g.kind = "stage" /\ g.at = "got"
      /\ End(h)
  BY HandledBy DEF stagePendingSave, At, server, worker, pages
<1>2. /\ PendingOK(g.saves) /\ g.tab \in Tabs /\ g.cred.n \in (1..staged) \ Written
      /\ Apart(g.saves, g.cred.n)
  BY <1>1 DEF Handled, DOp, TabKinds
<1> DEFINE pending(k, i) == [n |-> g.cred.n, name |-> g.cred.name, pw |-> g.cred.pw, kind |-> k, item |-> i]
<1>5. setPendingSaves(h, None) \/ \E k, i : setPendingSaves(h, pending(k, i))
  BY DEF stagePendingSave
<1>6. \A k, i : pending(k, i).n = g.cred.n
  OBVIOUS
<1> HIDE DEF pending
<1>3. PICK p : setPendingSaves(h, p) /\ (p # None => p.n = g.cred.n)
  BY <1>5, <1>6
<1>4. PendingOK(pendingSaves')
  BY <1>1, <1>2, <1>3, SetD
<1> QED  BY <1>1, <1>4, EndsD

\* checkPendingSave keeps DInv.
LEMMA checkPendingSaveD ==
  ASSUME Staging, NEW h \in Handlers, checkPendingSave(h)
  PROVE  DInv'
<1> PICK g : g = op[h]
  OBVIOUS
<1>1. /\ Handled(h) /\ UNCHANGED <<rows, cache, kept, staged>> /\ g.kind = "check" /\ g.at = "got"
      /\ End(h)
  BY HandledBy DEF checkPendingSave, At, server, worker, pages
<1>2. PendingOK(g.saves) /\ g.tab \in Tabs
  BY <1>1 DEF Handled, DOp, TabKinds
<1>3. UNCHANGED pendingSaves \/ setPendingSaves(h, None)
  BY DEF checkPendingSave
<1>4. PendingOK(pendingSaves')
  BY <1>1, <1>2, <1>3, SetD DEF Staging, DInv
<1> QED  BY <1>1, <1>4, EndsD

\* dismissPendingSave keeps DInv.
LEMMA dismissPendingSaveD ==
  ASSUME Staging, NEW h \in Handlers, dismissPendingSave(h)
  PROVE  DInv'
<1> PICK g : g = op[h]
  OBVIOUS
<1>1. /\ Handled(h) /\ UNCHANGED <<rows, cache, kept, staged>> /\ g.kind \in {"dismiss", "close"}
      /\ g.at = "got" /\ End(h)
  BY HandledBy DEF dismissPendingSave, At, server, worker, pages
<1>2. PendingOK(g.saves) /\ g.tab \in Tabs
  BY <1>1 DEF Handled, DOp, TabKinds
<1>3. UNCHANGED pendingSaves \/ setPendingSaves(h, None)
  BY DEF dismissPendingSave
<1>4. PendingOK(pendingSaves')
  BY <1>1, <1>2, <1>3, SetD DEF Staging, DInv
<1> QED  BY <1>1, <1>4, EndsD

\* commitPendingSave keeps DInv.
LEMMA commitPendingSaveD ==
  ASSUME Staging, NEW h \in Handlers, commitPendingSave(h)
  PROVE  DInv'
<1> PICK g : g = op[h]
  OBVIOUS
<1> PICK p : p = g.saves[g.tab]
  OBVIOUS
<1> PICK r : r = [g EXCEPT !.at = "ensure", !.cred = p]
  OBVIOUS
<1>1. /\ Handled(h) /\ Alone /\ g.kind = "commit" /\ g.at = "got" /\ DOMAIN op = Handlers
      /\ Objects' = Objects
  BY HandledBy DEF commitPendingSave, At, Alone, server, worker, pages, Objects, Staging, Known, VInv
<1>2. CASE p # None /\ op' = [op EXCEPT ![h] = r]
  <2>1. /\ r.kind = g.kind /\ r.tab = g.tab /\ r.cred = p /\ r.saves = g.saves
        /\ r.answer = g.answer /\ r.at = "ensure"
    BY <1>1 DEF Fields, Handled
  <2>2. PendingOK(r.saves) /\ r.tab \in Tabs
    BY <1>1, <2>1 DEF DOp, Handled, TabKinds
  <2>3. DOp(r)
    BY <1>1, <1>2, <2>1, <2>2 DEF DOp, Saving, Agreed
  <2>4. Written' \subseteq Written
    BY <1>1, <1>2, <2>1 DEF Written, Has, Handled, Alone
  <2> QED  BY <1>1, <1>2, <2>3, <2>4, DPlain DEF Alone
<1> QED  BY <1>1, <1>2, EndD DEF commitPendingSave, Set, Alone

\* From here on nothing has the number of the save but the save.
LEMMA UnstageD ==
  ASSUME Staging, NEW h \in Handlers, Unstage(h)
  PROVE  DInv'
<1> PICK g : g = op[h]
  OBVIOUS
<1> PICK r : r = [g EXCEPT !.at = "save", !.saves = None]
  OBVIOUS
<1>1. /\ Handled(h) /\ UNCHANGED <<rows, cache, kept, staged>> /\ g.kind = "commit" /\ g.at = "go"
      /\ DOMAIN op = Handlers /\ Objects' = Objects /\ op' = [op EXCEPT ![h] = r]
      /\ setPendingSaves(h, None)
  BY HandledBy DEF Unstage, At, server, worker, pages, Objects, Staging, Known, VInv, Set
<1>2. /\ r.kind = g.kind /\ r.tab = g.tab /\ r.cred = g.cred /\ r.answer = g.answer /\ r.at = "save"
  BY <1>1 DEF Fields, Handled
<1>3. /\ PendingOK(g.saves) /\ g.cred = g.saves[g.tab] /\ g.cred # None /\ g.tab \in Tabs
  BY <1>1 DEF DOp, Handled, TabKinds, Saving, Agreed
<1>4. PendingOK(pendingSaves')
  BY <1>1, <1>3, SetD
<1>5. Written' \subseteq Written
  BY <1>1, <1>2 DEF Written, Has, Handled
<1>6. PendingOK(pendingSaves)' /\ staged' \in Nat /\ Written' \subseteq 0..staged'
  BY <1>1, <1>4, <1>5 DEF Staging, DInv, PendingOK
<1>7. pendingSaves' = [g.saves EXCEPT ![g.tab] = None] /\ DOMAIN g.saves = Tabs
  BY <1>1, <1>3 DEF setPendingSaves, PendingOK
<1>8. g.cred.n \in (1..staged) \ Written /\ Apart(pendingSaves', g.cred.n)
  BY <1>3, <1>7 DEF PendingOK, Apart
<1>9. DOp(r)'
  BY <1>1, <1>2, <1>3, <1>5, <1>8 DEF DOp, Saving, Agreed, Apart
<1> QED  BY <1>1, <1>6, <1>9, DStep

\* ItemNotFound keeps DInv.
LEMMA ItemNotFoundD ==
  ASSUME Staging, NEW h \in Handlers, ItemNotFound(h)
  PROVE  DInv'
BY EndD DEF ItemNotFound, server, worker, pages, Objects

\* Saves keeps DInv.
LEMMA SavesD ==
  ASSUME Staging, NEW h \in Handlers, Saves(h)
  PROVE  DInv'
BY getPendingSavesD, stagePendingSaveD, checkPendingSaveD, dismissPendingSaveD, commitPendingSaveD,
   UnstageD, passkeyRegisterD, updateItemD, ItemNotFoundD, saveNewItemD, EncryptedD, TakePutD,
   TakePostD DEF Saves

\* Refreshes keeps DInv.
LEMMA RefreshesD ==
  ASSUME Staging, NEW h \in Handlers, Refreshes(h)
  PROVE  DInv'
<1>1. CASE ensureItemsCache(h)
  <2>1. /\ Handled(h) /\ Alone /\ op[h].at = "ensure"
        /\ Go(h, "refresh") \/ Go(h, "go")
    BY <1>1, HandledBy DEF ensureItemsCache, At, Alone, server, worker, pages
  <2>2. op[h].kind = "commit" => Agreed(op[h]) /\ ~ Saving(op[h])
    BY <2>1 DEF Agreed, Saving
  <2> QED  BY <2>1, <2>2, GoD DEF Handled
<1>2. CASE Answer(h)
  BY <1>2, EndD DEF Answer, server, worker, pages, Objects
<1> QED  BY <1>1, <1>2, refreshAllItemsD, TakeVaultsD, NextVaultD, TakeKeyD, TakeItemsD DEF Refreshes

\* The steps of a session save nothing.
LEMMA PassD ==
  ASSUME Staging, NEW h \in Handlers, Handled(h), Alone, NEW s,
         op[h].kind \notin TabKinds \/ op[h].at \in {"start", "restore", "import"},
         s \in {"restore", "import", "run", "derive", "unwrap", "write", "refresh"} \/ (s = "save" /\ op[h].kind = "ssoUnlock"),
         op[h].kind \in TabKinds => s \in {"restore", "import", "run"},
         Go(h, s) \/ \E x : Set(h, [op[h] EXCEPT !.at = s, !.session = x])
  PROVE  DInv'
<1> PICK g : g = op[h]
  OBVIOUS
<1>1. PICK r : /\ op' = [op EXCEPT ![h] = r] /\ DOMAIN r = Fields /\ r.kind = g.kind
               /\ r.tab = g.tab /\ r.cred = g.cred /\ r.saves = g.saves /\ r.answer = g.answer
               /\ r.at = s
  <2>1. CASE Go(h, s)
    <3> PICK r : r = [g EXCEPT !.at = s]
      OBVIOUS
    <3>1. /\ DOMAIN r = Fields /\ r.kind = g.kind /\ r.tab = g.tab /\ r.cred = g.cred
          /\ r.saves = g.saves /\ r.answer = g.answer /\ r.at = s
      BY DEF Fields, Handled
    <3> QED  BY <2>1, <3>1 DEF Go, Set
  <2>2. ASSUME NEW x, Set(h, [op[h] EXCEPT !.at = s, !.session = x])
        PROVE  \E r : /\ op' = [op EXCEPT ![h] = r] /\ DOMAIN r = Fields /\ r.kind = g.kind
                      /\ r.tab = g.tab /\ r.cred = g.cred /\ r.saves = g.saves
                      /\ r.answer = g.answer /\ r.at = s
    <3> PICK r : r = [g EXCEPT !.at = s, !.session = x]
      OBVIOUS
    <3>1. /\ DOMAIN r = Fields /\ r.kind = g.kind /\ r.tab = g.tab /\ r.cred = g.cred
          /\ r.saves = g.saves /\ r.answer = g.answer /\ r.at = s
      BY DEF Fields, Handled
    <3> QED  BY <2>2, <3>1 DEF Set
  <2> QED  BY <2>1, <2>2
<1>2. Plain(r, g)
  BY <1>1 DEF Plain, Saving, Agreed, TabKinds
<1> QED  BY <1>1, <1>2, PlainD DEF Handled, Alone, Objects

\* Sessions keeps DInv.
LEMMA SessionsD ==
  ASSUME Staging, NEW h \in Handlers, Sessions(h)
  PROVE  DInv'
<1>1. CASE ReadSession(h)
  <2>1. Handled(h) /\ Alone /\ op[h].at = "start"
    BY <1>1, HandledBy DEF ReadSession, At, Alone, server, worker, pages
  <2> QED  BY <1>1, <2>1, PassD DEF ReadSession
<1>2. CASE RestoreToken(h)
  <2>1. Handled(h) /\ Alone /\ op[h].at = "restore" /\ (Go(h, "import") \/ Go(h, "run"))
    BY <1>2, HandledBy DEF RestoreToken, At, Alone, server, worker, pages
  <2> QED  BY <2>1, PassD
<1>3. CASE ImportKeys(h)
  <2>1. Handled(h) /\ Alone /\ op[h].at = "import"
    BY <1>3, HandledBy DEF ImportKeys, At, Alone, server, worker, pages
  <2> QED  BY <1>3, <2>1, PassD DEF ImportKeys
<1>4. CASE TakeToken(h)
  <2>1. /\ Handled(h) /\ Alone /\ op[h].kind \notin TabKinds /\ Objects' = Objects
    BY <1>4, HandledBy DEF TakeToken, At, Alone, server, worker, pages, TabKinds, Objects
  <2>2. CASE Go(h, "derive")
    BY <2>1, <2>2, PassD
  <2>3. CASE End(h)
    BY <2>1, <2>3, EndD DEF Alone
  <2> QED  BY <1>4, <2>2, <2>3 DEF TakeToken
<1>5. CASE DeriveKey(h)
  <2>1. Handled(h) /\ Alone /\ op[h].kind \notin TabKinds /\ Go(h, "unwrap")
    BY <1>5, HandledBy DEF DeriveKey, At, Alone, server, worker, pages, TabKinds
  <2> QED  BY <2>1, PassD
<1>6. CASE UnwrapKey(h)
  <2>1. Handled(h) /\ Alone /\ op[h].kind \notin TabKinds /\ Objects' = Objects
    BY <1>6, HandledBy DEF UnwrapKey, At, Alone, server, worker, pages, TabKinds, Objects
  <2>2. CASE Set(h, [op[h] EXCEPT !.at = "write",
                        !.session = [NoSession EXCEPT !.token = mem.token, !.encKey = mem.encKey]])
    BY <2>1, <2>2, PassD
  <2>3. CASE End(h)
    BY <2>1, <2>3, EndD DEF Alone
  <2> QED  BY <1>6, <2>2, <2>3 DEF UnwrapKey
<1>7. CASE ssoUnlock(h)
  <2>1. /\ Handled(h) /\ Alone /\ op[h].kind \notin TabKinds /\ op[h].kind = "ssoUnlock"
        /\ Objects' = Objects
    BY <1>7, HandledBy DEF ssoUnlock, At, Alone, server, worker, pages, TabKinds, Objects
  <2>2. CASE Go(h, "save")
    BY <2>1, <2>2, PassD
  <2>3. CASE End(h)
    BY <2>1, <2>3, EndD DEF Alone
  <2> QED  BY <1>7, <2>2, <2>3 DEF ssoUnlock
<1>8. CASE saveSession(h)
  <2>1. Handled(h) /\ Alone /\ op[h].kind \notin TabKinds
    BY <1>8, HandledBy DEF saveSession, At, Alone, server, worker, pages, TabKinds
  <2> QED  BY <1>8, <2>1, PassD DEF saveSession
<1>9. CASE WriteSession(h)
  <2>1. Handled(h) /\ Alone /\ op[h].kind \notin TabKinds
    BY <1>9, HandledBy DEF WriteSession, At, Alone, server, worker, pages, TabKinds
  <2> QED  BY <1>9, <2>1, PassD DEF WriteSession
<1> QED  BY <1>1, <1>2, <1>3, <1>4, <1>5, <1>6, <1>7, <1>8, <1>9, RunD, logoutD DEF Sessions

\* DInv holds at first, ...
LEMMA InitD == ASSUME Init PROVE DInv
<1>1. Written \subseteq {0}
  BY DEF Init, Written, Objects, Has
<1> QED  BY <1>1 DEF Init, DInv, PendingOK

\* Another client leaves what it does not edit.
LEMMA OtherClientD ==
  ASSUME Staging, OtherClient
  PROVE  DInv'
<1>1. /\ RowsOK /\ UNCHANGED <<op, cache, kept, staged, pendingSaves>>
  BY DEF OtherClient, Staging, Known, VInv, worker, pages
<1>2. PICK i \in Items :
        Has(i) /\ rows' = [rows EXCEPT ![i].data.from = rows[i].version, ![i].version = @ + 1]
  BY DEF OtherClient
<1>3. \A j \in Items : Has(j)' => Has(j) /\ rows'[j].data.by = rows[j].data.by
  <2>1. DOMAIN rows = Items /\ DOMAIN rows[i] = {"vault", "data", "version"}
    BY <1>1, <1>2 DEF RowsOK
  <2>2. ContentOK
    BY DEF Staging, Known, UInv
  <2> QED  BY <1>2, <2>1, <2>2 DEF Has, ContentOK, DataOK
<1>4. Written' \subseteq Written
  BY <1>1, <1>3 DEF Written, Objects
<1>5. \A h \in Handlers : op[h] # None => DOp(op[h])'
  BY <1>1, <1>4, DLess DEF Staging, DInv
<1> QED  BY <1>1, <1>4, <1>5 DEF Staging, DInv, PendingOK

\* ... and every step keeps it.
LEMMA NextD ==
  ASSUME Staging, [Next]_vars
  PROVE  DInv'
<1>1. CASE \E h \in Handlers : Messages(h) \/ Sessions(h) \/ Refreshes(h) \/ Saves(h) \/ Requests(h)
  BY <1>1, MessagesD, SessionsD, RefreshesD, SavesD, RequestsD
<1>2. CASE Navigate \/ Expire \/ Age \/ UNCHANGED vars
  <2>1. UNCHANGED <<rows, cache, kept, op, staged, pendingSaves>>
    BY <1>2 DEF Navigate, Expire, Age, vars, server, worker, pages
  <2>2. Written' = Written
    BY <2>1 DEF Written, Has, Objects
  <2>3. \A h \in Handlers : op[h] # None => DOp(op[h])'
    BY <2>1, <2>2, DLess DEF Staging, DInv
  <2> QED  BY <2>1, <2>2, <2>3 DEF Staging, DInv, PendingOK
<1>3. CASE Kill
  <2>1. /\ UNCHANGED <<rows, staged, pendingSaves>> /\ Objects' = {} /\ op' = [h \in Handlers |-> None]
    BY <1>3 DEF Kill, server, pages, Objects
  <2>2. Written' \subseteq Written
    BY <2>1 DEF Written, Has
  <2> QED  BY <2>1, <2>2 DEF Staging, DInv, PendingOK
<1> QED  BY <1>1, <1>2, <1>3, OtherClientD DEF Next

\* Of a message that saves, only what it saves comes to the server.
LEMMA SavesItsOwn ==
  ASSUME Staging, [Next]_vars, NEW h \in Handlers, NEW i \in Items,
         At(h, {"commit"}, "sent"), op'[h] # op[h], rows' # rows, Has(i)
  PROVE  rows[i].data.by # op[h].req.data.by
<1>1. PICK g \in Handlers : Messages(g) \/ Sessions(g) \/ Refreshes(g) \/ Saves(g) \/ Requests(g)
  BY DEF Next, Navigate, Expire, Age, Kill, OtherClient, vars, server
<1>2. g = h
  BY <1>1 DEF Staging, Known, OneAtATime
<1>3. op[h].req.verb \in {"put", "post"}
  BY <1>1, <1>2, RowsStay DEF Put, Post
<1>4. Handled(h) /\ op[h].kind = "commit" /\ op[h].at = "sent"
  BY HandledBy DEF At
<1>5. op[h].cred.n \notin Written /\ op[h].req.data.by = op[h].cred.n
  BY <1>3, <1>4 DEF Handled, DOp, Saving, WritesOK
<1>6. rows[i].data.by \in Written
  BY DEF Written
<1> QED  BY <1>5, <1>6

\* What the user has agreed to save is saved once.
THEOREM SavesOnce ==
  ASSUME OneAtATime, NoneIsNoRow
  PROVE  Spec => SavedOnce
<1>1. Init => DInv
  BY InitD
<1>2. VInv /\ UInv /\ DInv /\ [Next]_vars
        => /\ DInv'
           /\ \A h \in Handlers, i \in Items :
                At(h, {"commit"}, "sent") /\ op'[h] # op[h] /\ rows' # rows /\ Has(i)
                  => rows[i].data.by # op[h].req.data.by
  BY NextD, SavesItsOwn DEF Staging, Known
<1>3. Spec => [](VInv /\ UInv)
  BY Updates
<1> QED  BY <1>1, <1>2, <1>3, PTL DEF Spec, SavedOnce
=============================================================================

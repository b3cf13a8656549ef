---------------------------- MODULE WebClientProofs ----------------------------
(***************************************************************************)
(* Proofs about what the web client does by itself: its session            *)
(* (WebSession) and its file formats (Formats), which share nothing.       *)
(*                                                                         *)
(* Session, for any number of tabs, passwords and calls of the keystore:   *)
(* whatever sign-in of whatever tab is under way, a page that is open can  *)
(* unlock itself with the key it holds, and will lock itself.  The two     *)
(* hold together, since what says that a key is right sets lockContext and *)
(* the timer, and what clears the one or stops the other clears encKey     *)
(* first.  What they need besides (SyncOK) is what a sign-in can rely on   *)
(* after an await: the key it has set is still there or has been wiped,    *)
(* and who has taken its session away has left nothing to unlock.          *)
(*                                                                         *)
(* Numbers, for limbs and digests of any even size: what is computed on    *)
(* two limbs is put together again digit by digit (Product, Squared,       *)
(* Mixed); the blocks and pieces of the hashes, functions defined by       *)
(* recursion, are followed by induction (Counters, Pieces).                *)
(*                                                                         *)
(* Memory, for any parameters: the blocks that are there when a block is   *)
(* made (Reached) grow with the loops (Advance), and the window of RFC     *)
(* 9106, a sequence of segments, has at each place the block that the      *)
(* code's arithmetic names (Before, WindowIs).                             *)
(*                                                                         *)
(* Tables, of any characters and any size: reading a text takes the parser *)
(* from one state to another, and one text after another composes (Reads,  *)
(* ReadsJoin, ReadsAll).  From a cell and the state it leaves the parser   *)
(* in (CellIsRead) that gives rows and files (RowIsRead, TableIsParsed),   *)
(* and choosing items commutes with making rows of them (PickedMap).       *)
(***************************************************************************)
EXTENDS WebSession, Formats, SequencesExt, FiniteSetTheorems, SequenceTheorems, TLAPS

-----------------------------------------------------------------------------
(* Session *)

(* The inductive invariant: the pages' keys, their sign-ins, the rest *)

KeysOK ==
  /\ {encKey, lockContext} \subseteq [Tabs -> Key]
  /\ iapSession \in [Tabs -> Key \union {NoKeys}]
  /\ {timer, unproved} \subseteq [Tabs -> BOOLEAN]
  /\ KeyOpensContext /\ HolderLocksItself

\* The steps of a sign-in that has a key.
WithKey == {"decrypt", "derive", "prove", "prf", "open"}

FlowOK ==
  /\ flow \in [Tabs -> Flow \union {None}]
  /\ \A t \in Tabs : flow[t] # None /\ flow[t].step \in WithKey => flow[t].key \in Passwords

\* What the sign-in of a page finds after its await.
InSync(t) ==
  /\ At(t, "prove") => encKey[t] \in {None, flow[t].key}
  /\ At(t, "decrypt") /\ iapSession[t] = None => lockContext[t] = None

SyncOK == \A t \in Tabs : InSync(t)

CallsOK == calls \in [Tabs -> SUBSET Call]

RestOK ==
  /\ password \in Passwords \union {NoKeys} /\ data \subseteq Passwords
  /\ record \in Record \union {None}
  /\ page \in [Tabs -> Pages] /\ token \in [Tabs -> TabTokens]
  /\ plain \in [Tabs -> SUBSET Plain] /\ reading \in [Tabs -> SUBSET Lists]

IInv == KeysOK /\ FlowOK /\ SyncOK /\ CallsOK /\ RestOK

\* Of the invariant, its well-typed part.
LEMMA Typed ==
  IInv => TypeOK
BY DEF IInv, KeysOK, FlowOK, CallsOK, RestOK, TypeOK

-----------------------------------------------------------------------------
(* The steps of a sign-in *)

\* A sign-in goes on as f, which has a key if its step needs one.
LEMMA FlowStep ==
  ASSUME FlowOK, NEW t \in Tabs, NEW f \in Flow \union {None}, flow' = [flow EXCEPT ![t] = f],
         f # None /\ f.step \in WithKey => f.key \in Passwords
  PROVE  FlowOK'
BY DEF FlowOK, Passwords

\* It goes on with the key it had.
LEMMA GoStep ==
  ASSUME FlowOK, NEW t \in Tabs, flow[t] # None, NEW s \in Steps, Go(t, s),
         s \in WithKey => flow[t].step \in WithKey
  PROVE  FlowOK'
<1> PICK g : g = flow[t]
  OBVIOUS
<1> PICK f : f = [g EXCEPT !.step = s]
  OBVIOUS
<1>1. g \in Flow /\ flow' = [flow EXCEPT ![t] = f]
  BY DEF FlowOK, Go
<1>2. f \in Flow /\ f.step = s /\ f.key = g.key
  BY <1>1 DEF Flow
<1>3. s \in WithKey => g.key \in Passwords
  BY DEF FlowOK
<1> QED  BY <1>1, <1>2, <1>3, FlowStep

\* It has got a key.
LEMMA KeyStep ==
  ASSUME FlowOK, NEW t \in Tabs, flow[t] # None, NEW s \in Steps, NEW k \in Passwords,
         flow' = [flow EXCEPT ![t] = [@ EXCEPT !.step = s, !.key = k]]
  PROVE  FlowOK'
<1> PICK g : g = flow[t]
  OBVIOUS
<1> PICK f : f = [g EXCEPT !.step = s, !.key = k]
  OBVIOUS
<1>1. g \in Flow /\ flow' = [flow EXCEPT ![t] = f]
  BY DEF FlowOK
<1>2. f \in Flow /\ f.key = k
  BY <1>1 DEF Flow, Key
<1> QED  BY <1>1, <1>2, FlowStep

\* One that begins.
LEMMA StartStep ==
  ASSUME FlowOK, NEW t \in Tabs, NEW o \in Ops, NEW s \in Steps,
         NEW k \in Key, s \in WithKey => k \in Passwords,
         flow' = [flow EXCEPT ![t] = [op |-> o, step |-> s, key |-> k]]
  PROVE  FlowOK'
<1> PICK f : f = [op |-> o, step |-> s, key |-> k]
  OBVIOUS
<1>1. f \in Flow /\ f.step = s /\ f.key = k
  BY DEF Flow
<1> QED  BY <1>1, FlowStep

\* One that ends.
LEMMA EndStep ==
  ASSUME FlowOK, NEW t \in Tabs, End(t)
  PROVE  FlowOK'
BY FlowStep DEF End

\* One that goes on as it was.
LEMMA FlowSame ==
  ASSUME FlowOK, UNCHANGED flow
  PROVE  FlowOK'
BY DEF FlowOK, Passwords

\* What a sign-in has proved or will prove is a key.
LEMMA HadKey ==
  ASSUME FlowOK, NEW t \in Tabs, NEW s \in WithKey, At(t, s)
  PROVE  /\ flow[t].key \in Passwords /\ flow[t].key \in Key /\ flow[t] # None
         /\ flow[t].step \in WithKey
BY DEF FlowOK, At, Key

-----------------------------------------------------------------------------
(* The keys of a page *)

\* The keys of other pages stay, and so do their sign-ins.
Mine(t) ==
  \A u \in Tabs \ {t} :
    /\ encKey'[u] = encKey[u] /\ lockContext'[u] = lockContext[u]
    /\ iapSession'[u] = iapSession[u] /\ timer'[u] = timer[u] /\ unproved'[u] = unproved[u]

\* A page is open as it should be.
Locks(t) == Opened(t) => encKey[t] = lockContext[t] /\ (AutoLock => timer[t])

\* The two properties are those of the pages one by one.
LEMMA KeysByPage ==
  KeyOpensContext /\ HolderLocksItself <=> \A t \in Tabs : Locks(t)
BY DEF KeyOpensContext, HolderLocksItself, Locks

\* A page sets keys, and is open as it should be afterwards.
LEMMA KeysStep ==
  ASSUME KeysOK, NEW t \in Tabs, Mine(t), Locks(t)',
         {encKey', lockContext'} \subseteq [Tabs -> Key],
         iapSession' \in [Tabs -> Key \union {NoKeys}],
         {timer', unproved'} \subseteq [Tabs -> BOOLEAN]
  PROVE  KeysOK'
<1>1. \A u \in Tabs : Locks(u)
  BY KeysByPage DEF KeysOK
<1>2. \A u \in Tabs : Locks(u)'
  BY <1>1 DEF Locks, Opened, Mine
<1>3. KeyOpensContext' /\ HolderLocksItself'
  BY <1>2 DEF KeyOpensContext, HolderLocksItself, Locks
<1> QED  BY <1>3 DEF KeysOK, Key, Passwords

\* A page is told that key k is right, and keeps what k opens.
LEMMA ArmStep ==
  ASSUME KeysOK, NEW t \in Tabs, NEW k \in Key, Arm(t, k),
         \/ encKey' = [encKey EXCEPT ![t] = k]
         \/ UNCHANGED encKey /\ encKey[t] \in {None, k},
         iapSession' = iapSession \/ iapSession' = [iapSession EXCEPT ![t] = k]
  PROVE  KeysOK' /\ Mine(t)
<1>1. /\ {encKey', lockContext'} \subseteq [Tabs -> Key]
      /\ iapSession' \in [Tabs -> Key \union {NoKeys}]
      /\ {timer', unproved'} \subseteq [Tabs -> BOOLEAN]
  BY AutoLockAssumption DEF KeysOK, Arm
<1>2. Mine(t) /\ Locks(t)'
  BY DEF KeysOK, Arm, Mine, Locks, Opened
<1> QED  BY <1>1, <1>2, KeysStep

\* A page that has no key afterwards is not open.
LEMMA CloseStep ==
  ASSUME KeysOK, NEW t \in Tabs, NEW b \in Key, NEW s \in Key, NEW l \in BOOLEAN,
         encKey' = [encKey EXCEPT ![t] = None], unproved' = [unproved EXCEPT ![t] = FALSE],
         lockContext' = lockContext \/ lockContext' = [lockContext EXCEPT ![t] = b],
         iapSession' = iapSession \/ iapSession' = [iapSession EXCEPT ![t] = s],
         timer' = timer \/ timer' = [timer EXCEPT ![t] = l]
  PROVE  KeysOK' /\ Mine(t)
<1>1. /\ {encKey', lockContext'} \subseteq [Tabs -> Key]
      /\ iapSession' \in [Tabs -> Key \union {NoKeys}]
      /\ {timer', unproved'} \subseteq [Tabs -> BOOLEAN]
  BY DEF KeysOK, Key
<1>2. Mine(t) /\ Locks(t)'
  BY DEF KeysOK, Mine, Locks, Opened
<1> QED  BY <1>1, <1>2, KeysStep

\* Nor is one that has a key nothing has confirmed, or nothing to unlock.
LEMMA UnconfirmedStep ==
  ASSUME KeysOK, NEW t \in Tabs, NEW k \in Key, NEW l \in BOOLEAN, l \/ lockContext[t] = None,
         encKey' = [encKey EXCEPT ![t] = k], unproved' = [unproved EXCEPT ![t] = l],
         UNCHANGED <<lockContext, iapSession, timer>>
  PROVE  KeysOK' /\ Mine(t)
<1>1. /\ {encKey', lockContext'} \subseteq [Tabs -> Key]
      /\ iapSession' \in [Tabs -> Key \union {NoKeys}]
      /\ {timer', unproved'} \subseteq [Tabs -> BOOLEAN]
  BY DEF KeysOK
<1>2. Mine(t) /\ Locks(t)'
  BY DEF KeysOK, Mine, Locks, Opened
<1> QED  BY <1>1, <1>2, KeysStep

\* A page drops its key.
LEMMA DropStep ==
  ASSUME KeysOK, NEW t \in Tabs, DropKey(t)
  PROVE  KeysOK' /\ Mine(t)
BY CloseStep DEF DropKey, Key

\* A page forgets all of them.
LEMMA ForgetStep ==
  ASSUME KeysOK, NEW t \in Tabs, Forget(t)
  PROVE  KeysOK' /\ Mine(t)
BY CloseStep DEF Forget, Key

\* A page holds the key of the password that was typed.
LEMMA HoldUnprovedStep ==
  ASSUME KeysOK, FlowOK, NEW t \in Tabs, At(t, "derive"), HoldUnproved(t)
  PROVE  KeysOK' /\ Mine(t)
BY HadKey, UnconfirmedStep DEF HoldUnproved, WithKey

\* The page keeps them all.
LEMMA KeysSame ==
  ASSUME KeysOK, UNCHANGED keys
  PROVE  KeysOK' /\ \A t \in Tabs : Mine(t)
BY DEF KeysOK, keys, KeyOpensContext, HolderLocksItself, Opened, Mine, Key, Passwords

\* Sign-ins of other pages find what they rely on.
LEMMA SyncStep ==
  ASSUME FlowOK, SyncOK, NEW t \in Tabs, Mine(t), NEW f, flow' = [flow EXCEPT ![t] = f],
         InSync(t)'
  PROVE  SyncOK'
<1>1. \A u \in Tabs \ {t} : flow'[u] = flow[u]
  BY DEF FlowOK
<1> QED  BY <1>1 DEF SyncOK, InSync, Mine, At

\* A sign-in that is not in the middle of its proof relies on nothing.
LEMMA SyncElsewhere ==
  ASSUME FlowOK, SyncOK, NEW t \in Tabs, Mine(t), NEW f, flow' = [flow EXCEPT ![t] = f],
         f = None \/ f.step \notin {"prove", "decrypt"}
  PROVE  SyncOK'
<1>1. InSync(t)'
  BY DEF FlowOK, InSync, At
<1> QED  BY <1>1, SyncStep

\* One that ends relies on nothing.
LEMMA SyncEnd ==
  ASSUME FlowOK, SyncOK, NEW t \in Tabs, Mine(t), End(t)
  PROVE  SyncOK'
BY SyncElsewhere DEF End

\* Nor does one that goes to another step.
LEMMA SyncGo ==
  ASSUME FlowOK, SyncOK, NEW t \in Tabs, Mine(t), flow[t] # None, NEW s \in Steps, Go(t, s),
         s \notin {"prove", "decrypt"}
  PROVE  SyncOK'
<1> PICK g : g = flow[t]
  OBVIOUS
<1> PICK f : f = [g EXCEPT !.step = s]
  OBVIOUS
<1>1. g \in Flow /\ flow' = [flow EXCEPT ![t] = f]
  BY DEF FlowOK, Go
<1>2. f.step = s
  BY <1>1 DEF Flow
<1> QED  BY <1>1, <1>2, SyncElsewhere

\* A page that has wiped its key, or left all as it was, is in step as before.
LEMMA SyncSame ==
  ASSUME SyncOK, UNCHANGED flow, NEW t \in Tabs, Mine(t),
         encKey'[t] \in {None, encKey[t]},
         \/ lockContext'[t] = None
         \/ lockContext'[t] = lockContext[t] /\ iapSession'[t] = iapSession[t]
  PROVE  SyncOK'
<1>1. \A u \in Tabs : InSync(u)
  BY DEF SyncOK
<1>2. \A u \in Tabs : InSync(u)'
  BY <1>1 DEF InSync, Mine, At
<1> QED  BY <1>2 DEF SyncOK

\* All pages are as they were.
LEMMA SyncAll ==
  ASSUME SyncOK, UNCHANGED <<flow, keys>>
  PROVE  SyncOK'
BY DEF SyncOK, InSync, At, keys

-----------------------------------------------------------------------------
(* Calls of the keystore, and the rest *)

\* A call is issued.
LEMMA IssueStep ==
  ASSUME CallsOK, NEW t \in Tabs, NEW c \in Call, Issue(t, c)
  PROVE  CallsOK'
BY DEF CallsOK, Issue

\* The page saves a key, or has the stored one deleted.
LEMMA SaveStep ==
  ASSUME CallsOK, NEW t \in Tabs, NEW k \in Passwords, saveSessionKey(t, k)
  PROVE  CallsOK'
<1>1. [op |-> "save", key |-> k] \in Call
  BY DEF Call
<1> QED  BY <1>1, IssueStep DEF saveSessionKey

\* ... or has the stored one deleted.
LEMMA ClearStep ==
  ASSUME CallsOK, NEW t \in Tabs, clearSessionKey(t)
  PROVE  CallsOK'
<1>1. [op |-> "clear"] \in Call
  BY DEF Call
<1> QED  BY <1>1, IssueStep DEF clearSessionKey

\* The page saves the key it holds, if it holds one.
LEMMA SaveHeldStep ==
  ASSUME CallsOK, KeysOK, NEW t \in Tabs, SaveHeld(t)
  PROVE  CallsOK'
<1>1. CASE encKey[t] = None
  BY <1>1 DEF SaveHeld, CallsOK, Call, Record, Passwords
<1>2. CASE encKey[t] # None
  BY <1>2, SaveStep DEF SaveHeld, KeysOK, Key
<1> QED  BY <1>1, <1>2

\* No call is issued.
LEMMA CallsSame ==
  ASSUME CallsOK, UNCHANGED calls
  PROVE  CallsOK'
BY DEF CallsOK, Call, Record, Passwords

\* What the rest consists of: a screen, a token, what is on the page.
LEMMA RestStep ==
  ASSUME RestOK, NEW t \in Tabs,
         page' = page \/ \E p \in Pages : Show(t, p),
         token' = token \/ \E b \in TabTokens : token' = [token EXCEPT ![t] = b],
         plain' = plain \/ \E s \in SUBSET Plain : plain' = [plain EXCEPT ![t] = s],
         reading' = reading \/ \E s \in SUBSET Lists : reading' = [reading EXCEPT ![t] = s],
         password' = password \/ password' \in Passwords, UNCHANGED <<data, record>>
  PROVE  RestOK'
BY DEF RestOK, Show, Passwords, Record, Pages, TabTokens, Lists

-----------------------------------------------------------------------------
(* The keystore *)

\* A call ends; what it did to the record is a record or none.
LEMMA CallsEnd ==
  ASSUME IInv, NEW t \in Tabs, NEW cs \in SUBSET Call, calls' = [calls EXCEPT ![t] = cs],
         record' \in Record \union {None},
         UNCHANGED <<password, data, page, token, keys, view, flow>>
  PROVE  IInv'
<1>1. CallsOK'
  BY DEF IInv, CallsOK, Call, Record, Passwords
<1>2. RestOK'
  BY DEF IInv, RestOK, view, Passwords, Pages, Lists, Record
<1> QED  BY <1>1, <1>2, KeysSame, FlowSame, SyncAll DEF IInv

\* saveSessionKey puts the key of a password, fresh.
LEMMA SaveKeeps ==
  ASSUME IInv, NEW t \in Tabs, Save(t)
  PROVE  IInv'
<1>1. PICK c \in calls[t] : /\ c.op = "save" /\ record' = [key |-> c.key, fresh |-> TRUE]
                            /\ calls' = [calls EXCEPT ![t] = @ \ {c}]
  BY DEF Save
<1>2. c.key \in Passwords /\ calls[t] \ {c} \in SUBSET Call
  BY <1>1 DEF IInv, CallsOK, Call
<1>3. record' \in Record
  BY <1>1, <1>2 DEF Record
<1> QED  BY <1>1, <1>2, <1>3, CallsEnd DEF Save

\* The record that was read is put back as it was, but fresh.
LEMMA TouchKeeps ==
  ASSUME IInv, NEW t \in Tabs, Touch(t)
  PROVE  IInv'
<1>1. PICK c \in calls[t] :
        /\ c.op = "touch"
        /\ IF c.got = None
             THEN /\ calls' = [calls EXCEPT ![t] =
                         (@ \ {c}) \union (IF record = None THEN {}
                                           ELSE {[op |-> "touch", got |-> record]})]
                  /\ UNCHANGED record
             ELSE /\ record' = [c.got EXCEPT !.fresh = TRUE]
                  /\ calls' = [calls EXCEPT ![t] = @ \ {c}]
  BY DEF Touch
<1>2. c.got \in Record \union {None} /\ calls[t] \ {c} \in SUBSET Call
  BY <1>1 DEF IInv, CallsOK, Call
<1>3. record \in Record \union {None}
  BY DEF IInv, RestOK
<1>4. CASE c.got = None
  <2>1. (IF record = None THEN {} ELSE {[op |-> "touch", got |-> record]}) \in SUBSET Call
    BY <1>3 DEF Call
  <2>2. PICK cs \in SUBSET Call : calls' = [calls EXCEPT ![t] = cs]
    BY <1>1, <1>2, <1>4, <2>1
  <2> QED  BY <1>1, <1>3, <1>4, <2>2, CallsEnd DEF Touch
<1>5. CASE c.got # None
  <2>1. record' \in Record
    BY <1>1, <1>2, <1>5 DEF Record
  <2> QED  BY <1>1, <1>2, <1>5, <2>1, CallsEnd DEF Touch
<1> QED  BY <1>4, <1>5

\* clearSessionKey: none is left.
LEMMA ClearKeeps ==
  ASSUME IInv, NEW t \in Tabs, Clear(t)
  PROVE  IInv'
<1>1. PICK c \in calls[t] : record' = None /\ calls' = [calls EXCEPT ![t] = @ \ {c}]
  BY DEF Clear
<1>2. calls[t] \ {c} \in SUBSET Call
  BY <1>1 DEF IInv, CallsOK
<1> QED  BY <1>1, <1>2, CallsEnd DEF Clear

-----------------------------------------------------------------------------
(* Signing in *)

\* A page that is loaded holds no key, and no timer runs.
LEMMA BootKeeps ==
  ASSUME IInv, NEW t \in Tabs, NEW k \in TabTokens, Boot(t, k)
  PROVE  IInv'
<1> USE DEF IInv, Boot
<1>1. KeysOK' /\ Mine(t)
  BY ForgetStep
<1>2. FlowOK'
  BY StartStep, EndStep DEF Key, End, Ops, Steps, WithKey
<1>3. SyncOK'
  BY <1>1, SyncElsewhere
<1>4. CallsOK'
  BY DEF CallsOK
<1>5. RestOK'
  BY RestStep DEF Pages
<1> QED  BY <1>1, <1>2, <1>3, <1>4, <1>5

\* A load, and the return from the SSO.
LEMMA LoadKeeps ==
  ASSUME IInv, NEW t \in Tabs, Load(t) \/ SingleSignOn(t)
  PROVE  IInv'
BY BootKeeps DEF Load, SingleSignOn, TabTokens

\* A sign-in that is given up ends; it may take the token with it.
LEMMA AbandonEnds ==
  ASSUME NEW t \in Tabs, Abandon(t) \/ AskPassword(t)
  PROVE  /\ End(t)
         /\ page' = page \/ \E p \in Pages : Show(t, p)
         /\ token' = token \/ \E b \in TabTokens : token' = [token EXCEPT ![t] = b]
BY DEF Abandon, AskPassword, BootFails, Pages, TabTokens

\* The session that is fetched brings a private key, or says there is none; it
\* changes nothing a held key goes with.
LEMMA FetchSessionKeeps ==
  ASSUME IInv, NEW t \in Tabs, FetchSession(t)
  PROVE  IInv'
<1> USE DEF IInv, FetchSession
<1>1. KeysOK' /\ Mine(t)
  <2>1. CASE UNCHANGED iapSession
    BY <2>1, KeysSame DEF keys
  <2>2. CASE iapSession' = [iapSession EXCEPT ![t] = password]
    <3>1. iapSession' \in [Tabs -> Key \union {NoKeys}] /\ Mine(t)
      BY <2>2 DEF KeysOK, RestOK, Key, Mine
    <3>2. KeyOpensContext' /\ HolderLocksItself'
      BY DEF KeysOK, KeyOpensContext, HolderLocksItself, Opened
    <3> QED  BY <3>1, <3>2 DEF KeysOK, Key, Passwords
  <2> QED  BY <2>1, <2>2
<1>2. FlowOK' /\ SyncOK'
  BY <1>1, GoStep, EndStep, SyncGo, SyncEnd, AbandonEnds DEF At, Steps, WithKey
<1>3. RestOK'
  BY RestStep, AbandonEnds DEF Pages, TabTokens, view
<1> QED  BY <1>1, <1>2, <1>3, CallsSame

\* The stored key is one to be proved, for a session that is there; a stale one
\* is deleted.
LEMMA LoadSessionKeyKeeps ==
  ASSUME IInv, NEW t \in Tabs, LoadSessionKey(t)
  PROVE  IInv'
<1> USE DEF IInv, LoadSessionKey
<1>1. KeysOK' /\ Mine(t)
  BY KeysSame
<1>2. FlowOK' /\ SyncOK'
  <2>1. CASE Abandon(t) \/ AskPassword(t)
    BY <1>1, <2>1, AbandonEnds, EndStep, SyncEnd
  <2>2. CASE /\ record # None /\ iapSession[t] # None
             /\ flow' = [flow EXCEPT ![t] = [@ EXCEPT !.step = "decrypt", !.key = record.key]]
    <3>1. record.key \in Passwords
      BY <2>2 DEF RestOK, Record
    <3>2. FlowOK'
      BY <2>2, <3>1, KeyStep DEF At, Steps
    <3> PICK f : f = [flow[t] EXCEPT !.step = "decrypt", !.key = record.key]
      OBVIOUS
    <3>3. f \in Flow /\ f.step = "decrypt" /\ flow' = [flow EXCEPT ![t] = f]
      BY <2>2, <3>1 DEF FlowOK, Flow, At, Key, Steps
    <3>4. flow'[t] = f /\ iapSession'[t] # None
      BY <2>2, <3>3 DEF FlowOK, keys
    <3>5. InSync(t)'
      BY <3>3, <3>4 DEF InSync, At
    <3> QED  BY <1>1, <3>2, <3>3, <3>5, SyncStep
  <2> QED  BY <2>1, <2>2
<1>3. CallsOK'
  BY ClearStep, CallsSame
<1>4. RestOK'
  BY RestStep, AbandonEnds DEF view
<1> QED  BY <1>1, <1>2, <1>3, <1>4

\* A stored key is held when it opens the private key of the session, or when
\* there is neither a session nor anything to unlock any more.
LEMMA RestoreKeeps ==
  ASSUME IInv, NEW t \in Tabs, Restore(t)
  PROVE  IInv'
<1> USE DEF IInv, Restore
<1> PICK k : k = flow[t].key
  OBVIOUS
<1>1. k \in Key /\ flow[t] # None
  BY HadKey DEF WithKey
<1>2. /\ UNCHANGED <<password, data, record, view>>
      /\ \/ /\ k = iapSession[t] /\ Hold(t, k, k) /\ Go(t, "vaults")
            /\ UNCHANGED <<page, token, calls>>
         \/ clearSessionKey(t) /\ AskPassword(t) /\ UNCHANGED keys
         \/ /\ iapSession[t] = None /\ Abandon(t)
            /\ encKey' = [encKey EXCEPT ![t] = k]
            /\ unproved' = [unproved EXCEPT ![t] = FALSE]
            /\ UNCHANGED <<lockContext, iapSession, timer, calls>>
  OBVIOUS
<1>3. iapSession[t] = None => lockContext[t] = None
  BY DEF SyncOK, InSync
<1> HIDE DEF Restore
<1>4. KeysOK' /\ Mine(t)
  BY <1>1, <1>2, <1>3, ArmStep, KeysSame, UnconfirmedStep DEF Hold
<1>5. FlowOK' /\ SyncOK'
  BY <1>1, <1>2, <1>4, GoStep, EndStep, SyncGo, SyncEnd, AbandonEnds DEF Steps, WithKey
<1>6. CallsOK'
  BY <1>2, ClearStep, CallsSame
<1>7. RestOK'
  BY <1>2, RestStep, AbandonEnds DEF view
<1> QED  BY <1>4, <1>5, <1>6, <1>7

\* The password that is typed is a password.
LEMMA TypeKeeps ==
  ASSUME IInv, NEW t \in Tabs, Type(t)
  PROVE  IInv'
<1> USE DEF IInv, Type
<1>1. PICK k \in Passwords, o \in Ops : Start(t, o, "derive", k)
  BY DEF Ops
<1>2. FlowOK'
  BY <1>1, StartStep DEF Start, Steps, WithKey, Key
<1>3. SyncOK'
  BY <1>1, KeysSame, SyncElsewhere DEF Start
<1>4. RestOK'
  BY RestStep DEF view
<1> QED  BY <1>2, <1>3, <1>4, KeysSame, CallsSame

\* A sign-in that has set the key of the page is in step with it.
LEMMA HoldUnprovedSync ==
  ASSUME KeysOK, FlowOK, SyncOK, NEW t \in Tabs, At(t, "derive"), HoldUnproved(t)
  PROVE  FlowOK' /\ SyncOK'
<1> PICK g : g = flow[t]
  OBVIOUS
<1> PICK f : f = [g EXCEPT !.step = "prove"]
  OBVIOUS
<1>1. g \in Flow /\ flow' = [flow EXCEPT ![t] = f]
  BY DEF FlowOK, HoldUnproved, Go, At
<1>2. f.step = "prove" /\ f.key = g.key /\ flow'[t] = f
  BY <1>1 DEF Flow, FlowOK
<1>3. encKey'[t] = g.key
  BY DEF HoldUnproved, KeysOK
<1>4. InSync(t)'
  BY <1>2, <1>3 DEF InSync, At
<1>5. FlowOK'
  BY GoStep DEF HoldUnproved, At, Steps, WithKey
<1> QED  BY <1>1, <1>4, <1>5, HoldUnprovedStep, SyncStep

\* A login holds the key of the password the server has accepted.
LEMMA LoginKeeps ==
  ASSUME IInv, NEW t \in Tabs, Login(t)
  PROVE  IInv'
<1> USE DEF IInv, Login
<1>1. KeysOK' /\ FlowOK' /\ SyncOK'
  BY HoldUnprovedStep, HoldUnprovedSync, KeysSame, EndStep, SyncEnd
<1>2. RestOK'
  <2>1. token' = token \/ \E b \in TabTokens : token' = [token EXCEPT ![t] = b]
    BY DEF RestOK, TabTokens
  <2> QED  BY <2>1, RestStep DEF view
<1> QED  BY <1>1, <1>2, CallsSame

\* The key a sign-in has set is still there, or has been wiped.
LEMMA Proving ==
  ASSUME IInv, NEW t \in Tabs, At(t, "prove")
  PROVE  /\ flow[t] # None /\ flow[t].key \in Passwords /\ flow[t].key \in Key
         /\ encKey[t] \in {None, flow[t].key}
         /\ Upload(flow[t].key) => password' = password \/ password' \in Passwords
BY HadKey DEF IInv, SyncOK, InSync, WithKey, Upload

\* ... and it is right, or the page keeps what it has.
LEMMA FinishLoginKeeps ==
  ASSUME IInv, NEW t \in Tabs, FinishLogin(t)
  PROVE  IInv'
<1> USE DEF IInv, FinishLogin
<1>1. KeysOK' /\ Mine(t)
  BY Proving, ArmStep, KeysSame
<1>2. FlowOK' /\ SyncOK'
  BY <1>1, Proving, GoStep, EndStep, SyncGo, SyncEnd DEF Steps, WithKey
<1>3. CallsOK'
  BY SaveHeldStep, CallsSame
<1>4. RestOK'
  <2>1. token' = token \/ \E b \in TabTokens : token' = [token EXCEPT ![t] = b]
    BY DEF RestOK, TabTokens
  <2> QED  BY <2>1, Proving, RestStep DEF view
<1> QED  BY <1>1, <1>2, <1>3, <1>4

\* unlockVault holds a key that opens the private key kept, and else none.
LEMMA unlockVaultKeeps ==
  ASSUME IInv, NEW t \in Tabs, unlockVault(t)
  PROVE  IInv'
<1> USE DEF IInv, unlockVault
<1>1. flow[t] # None /\ flow[t].key \in Passwords /\ flow[t].key \in Key
  BY HadKey DEF WithKey
<1>2. KeysOK' /\ Mine(t)
  BY <1>1, ArmStep, DropStep DEF Hold
<1>3. FlowOK' /\ SyncOK'
  BY <1>1, <1>2, GoStep, EndStep, SyncGo, SyncEnd DEF Steps, WithKey
<1>4. CallsOK'
  BY <1>1, SaveStep, CallsSame
<1>5. RestOK'
  BY RestStep DEF Pages, view
<1> QED  BY <1>2, <1>3, <1>4, <1>5

\* The reload that follows keeps the key or drops it.
LEMMA ReloadItemsKeeps ==
  ASSUME IInv, NEW t \in Tabs, ReloadItems(t)
  PROVE  IInv'
<1> USE DEF IInv, ReloadItems
<1>1. KeysOK' /\ Mine(t)
  BY KeysSame, DropStep
<1>2. RestOK'
  BY RestStep DEF view
<1> QED  BY <1>1, <1>2, EndStep, SyncEnd, CallsSame

\* iapUnlock and iapSetup hold the key of the password for the time being.
LEMMA DeriveKeyKeeps ==
  ASSUME IInv, NEW t \in Tabs, DeriveKey(t)
  PROVE  IInv'
<1> USE DEF IInv, DeriveKey
<1>1. KeysOK' /\ FlowOK' /\ SyncOK'
  BY HoldUnprovedStep, HoldUnprovedSync, KeysSame, DropStep, EndStep, SyncEnd
<1>2. RestOK'
  BY RestStep DEF view
<1> QED  BY <1>1, <1>2, CallsSame

\* iapUnlock goes on holding it when it opens the private key of the session.
LEMMA iapUnlockKeeps ==
  ASSUME IInv, NEW t \in Tabs, iapUnlock(t)
  PROVE  IInv'
<1> USE DEF IInv, iapUnlock
<1>1. KeysOK' /\ Mine(t)
  BY Proving, ArmStep, DropStep
<1>2. FlowOK' /\ SyncOK'
  BY <1>1, Proving, GoStep, EndStep, SyncGo, SyncEnd DEF Steps, WithKey
<1>3. CallsOK'
  BY SaveHeldStep, CallsSame
<1>4. RestOK'
  BY RestStep DEF view
<1> QED  BY <1>1, <1>2, <1>3, <1>4

\* iapSetup when the account has taken its keys.
LEMMA iapSetupKeeps ==
  ASSUME IInv, NEW t \in Tabs, iapSetup(t)
  PROVE  IInv'
<1> USE DEF IInv, iapSetup
<1>1. KeysOK' /\ Mine(t)
  BY Proving, ArmStep, KeysSame
<1>2. FlowOK' /\ SyncOK'
  BY <1>1, Proving, GoStep, EndStep, SyncGo, SyncEnd DEF Steps, WithKey
<1>3. CallsOK'
  BY SaveHeldStep, CallsSame
<1>4. RestOK'
  BY Proving, RestStep DEF view
<1> QED  BY <1>1, <1>2, <1>3, <1>4

\* A sign-in with a passkey begins without a key.
LEMMA StartPasskeyKeeps ==
  ASSUME IInv, NEW t \in Tabs, StartPasskey(t)
  PROVE  IInv'
<1> USE DEF IInv, StartPasskey
<1> PICK f : f = [op |-> "passkey", step |-> "passkey", key |-> None]
  OBVIOUS
<1>1. f.step = "passkey" /\ f \in Flow /\ flow' = [flow EXCEPT ![t] = f]
  BY DEF Start, Flow, Ops, Steps, Key
<1>2. FlowOK'
  BY <1>1, FlowStep DEF WithKey
<1>3. SyncOK'
  BY <1>1, KeysSame, SyncElsewhere
<1>4. RestOK'
  BY RestStep DEF view
<1> QED  BY <1>2, <1>3, <1>4, KeysSame, CallsSame

\* The passkey brings a key to be proved, or none.
LEMMA passkeyLoginKeeps ==
  ASSUME IInv, NEW t \in Tabs, passkeyLogin(t) \/ FetchForPasskey(t)
  PROVE  IInv'
<1>1. /\ UNCHANGED <<password, data, record, page, keys, view, calls>>
      /\ token' = token \/ \E b \in TabTokens : token' = [token EXCEPT ![t] = b]
      /\ flow[t] # None
      /\ \/ Go(t, "session")
         \/ \E k \in Passwords : flow' = [flow EXCEPT ![t] = [@ EXCEPT !.step = "prf", !.key = k]]
         \/ Go(t, "open") /\ flow[t].step \in WithKey
         \/ End(t)
  BY DEF passkeyLogin, FetchForPasskey, At, TabTokens, WithKey
<1>2. KeysOK' /\ Mine(t)
  BY <1>1, KeysSame DEF IInv
<1>3. FlowOK' /\ SyncOK'
  <2>1. CASE Go(t, "session") \/ (Go(t, "open") /\ flow[t].step \in WithKey) \/ End(t)
    BY <1>1, <1>2, <2>1, GoStep, EndStep, SyncGo, SyncEnd DEF IInv, Steps, WithKey
  <2>2. ASSUME NEW k \in Passwords,
               flow' = [flow EXCEPT ![t] = [@ EXCEPT !.step = "prf", !.key = k]]
        PROVE  FlowOK' /\ SyncOK'
    <3> PICK f : f = [flow[t] EXCEPT !.step = "prf", !.key = k]
      OBVIOUS
    <3>1. f.step = "prf" /\ flow' = [flow EXCEPT ![t] = f]
      BY <1>1, <2>2 DEF IInv, FlowOK, Flow
    <3> QED  BY <1>1, <1>2, <2>2, <3>1, KeyStep, SyncElsewhere DEF IInv, Steps
  <2> QED  BY <1>1, <2>1, <2>2
<1>4. RestOK'
  BY <1>1, RestStep DEF IInv, view
<1> QED  BY <1>1, <1>2, <1>3, <1>4, CallsSame DEF IInv

\* With it, the page has the private key, the key and the timer at once.
LEMMA UnlockWithPasskeyKeeps ==
  ASSUME IInv, NEW t \in Tabs, UnlockWithPasskey(t)
  PROVE  IInv'
<1> USE DEF IInv, UnlockWithPasskey
<1>1. flow[t] # None /\ flow[t].key \in Passwords /\ flow[t].key \in Key
  BY HadKey DEF WithKey
<1>2. KeysOK' /\ Mine(t)
  BY <1>1, ArmStep
<1>3. FlowOK' /\ SyncOK'
  BY <1>1, <1>2, GoStep, SyncGo DEF Steps, WithKey
<1>4. RestOK'
  BY RestStep DEF view
<1> QED  BY <1>1, <1>2, <1>3, <1>4, SaveStep

\* The vaults are there, or the sign-in fails and at most the key is dropped.
LEMMA LoadVaultsKeeps ==
  ASSUME IInv, NEW t \in Tabs, LoadVaults(t)
  PROVE  IInv'
<1> USE DEF IInv, LoadVaults
<1>1. KeysOK' /\ Mine(t)
  BY KeysSame, DropStep
<1>2. FlowOK' /\ SyncOK'
  BY <1>1, EndStep, SyncEnd, AbandonEnds
<1>3. RestOK'
  BY RestStep, AbandonEnds DEF Pages, view
<1> QED  BY <1>1, <1>2, <1>3, CallsSame

-----------------------------------------------------------------------------
(* An open page *)

\* Another screen is shown.
LEMMA handleRouteKeeps ==
  ASSUME IInv, NEW t \in Tabs, handleRoute(t)
  PROVE  IInv'
<1> USE DEF IInv, handleRoute
<1>1. RestOK'
  BY RestStep DEF Pages, view
<1> QED  BY <1>1, KeysSame, FlowSame, SyncAll, CallsSame

\* Activity touches the stored key.
LEMMA ActivityKeeps ==
  ASSUME IInv, NEW t \in Tabs, Activity(t)
  PROVE  IInv'
<1> USE DEF IInv, Activity
<1>1. CallsOK'
  <2>1. [op |-> "touch", got |-> None] \in Call
    BY DEF Call
  <2> QED  BY <2>1, IssueStep
<1>2. RestOK'
  BY RestStep DEF view
<1> QED  BY <1>1, <1>2, KeysSame, FlowSame, SyncAll

\* A lock stops the timer and gives up the key in one step.
LEMMA lockVaultKeeps ==
  ASSUME IInv, NEW t \in Tabs, lockVault(t)
  PROVE  IInv'
<1> USE DEF IInv, lockVault
<1>1. KeysOK' /\ Mine(t)
  BY CloseStep DEF Key
<1>2. SyncOK'
  <2>1. encKey'[t] = None
    BY DEF KeysOK
  <2> QED  BY <1>1, <2>1, SyncSame
<1>3. RestOK'
  <2>1. plain[t] \ Lists \in SUBSET Plain
    BY DEF RestOK
  <2> QED  BY <2>1, RestStep DEF Pages
<1> QED  BY <1>1, <1>2, <1>3, ClearStep, FlowSame

\* A logout leaves nothing.
LEMMA logoutKeeps ==
  ASSUME IInv, NEW t \in Tabs, logout(t)
  PROVE  IInv'
<1> USE DEF IInv, logout
<1>1. KeysOK' /\ Mine(t)
  BY ForgetStep
<1>2. SyncOK'
  <2>1. encKey'[t] = None /\ lockContext'[t] = None
    BY DEF Forget, KeysOK
  <2> QED  BY <1>1, <2>1, SyncSame
<1>3. RestOK'
  BY RestStep DEF Pages, TabTokens
<1> QED  BY <1>1, <1>2, <1>3, ClearStep, FlowSame

\* An opened item leaves the keys alone;
LEMMA openItemKeeps ==
  ASSUME IInv, NEW t \in Tabs, openItem(t)
  PROVE  IInv'
<1> USE DEF IInv, openItem
<1>1. plain[t] \union {"opened"} \in SUBSET Plain
  BY DEF RestOK
<1> QED  BY <1>1, RestStep, KeysSame, FlowSame, SyncAll, CallsSame

\* so does a list that is decrypted,
LEMMA StartReadingKeeps ==
  ASSUME IInv, NEW t \in Tabs, StartReading(t)
  PROVE  IInv'
<1> USE DEF IInv, StartReading
<1>1. \A l \in Lists : reading[t] \union {l} \in SUBSET Lists
  BY DEF RestOK
<1> QED  BY <1>1, RestStep, KeysSame, FlowSame, SyncAll, CallsSame

\* and one that has been.
LEMMA FinishReadingKeeps ==
  ASSUME IInv, NEW t \in Tabs, FinishReading(t)
  PROVE  IInv'
<1> USE DEF IInv, FinishReading
<1>1. PICK l \in reading[t] : /\ reading' = [reading EXCEPT ![t] = @ \ {l}]
                              /\ plain' = [plain EXCEPT ![t] = @ \union {l}]
  OBVIOUS
<1>2. reading[t] \ {l} \in SUBSET Lists /\ plain[t] \union {l} \in SUBSET Plain
  BY <1>1 DEF RestOK, Lists
<1> QED  BY <1>1, <1>2, RestStep, KeysSame, FlowSame, SyncAll, CallsSame

\* The key an item is saved under is a password's.
LEMMA saveItemKeeps ==
  ASSUME IInv, NEW t \in Tabs, saveItem(t)
  PROVE  IInv'
<1> USE DEF IInv, saveItem
<1>1. encKey[t] \in Passwords
  BY DEF KeysOK, Key
<1>2. RestOK'
  BY <1>1 DEF RestOK, view, Passwords, Record, Pages, TabTokens, Lists
<1> QED  BY <1>2, KeysSame, FlowSame, SyncAll, CallsSame

-----------------------------------------------------------------------------
(* The system *)

\* Time passes for the stored key only.
LEMMA AgeKeeps ==
  ASSUME IInv, Age
  PROVE  IInv'
<1> USE DEF IInv, Age
<1>1. RestOK'
  BY DEF RestOK, view, Passwords, Record, Pages, TabTokens, Lists
<1> QED  BY <1>1, KeysSame, FlowSame, SyncAll, CallsSame

\* A recovery gives the account another password, and the pages nothing.
LEMMA recoverKeeps ==
  ASSUME IInv, recover
  PROVE  IInv'
<1> USE DEF IInv, recover
<1>1. RestOK'
  BY BoundsAssumption, NoKeysAssumption DEF RestOK, view, Passwords, Record, Pages, TabTokens, Lists
<1> QED  BY <1>1, KeysSame, FlowSame, SyncAll, CallsSame

\* All the pages are at the login, without a key.
LEMMA InitIInv ==
  Init => IInv
BY BoundsAssumption DEF Init, IInv, KeysOK, FlowOK, SyncOK, InSync, CallsOK, RestOK,
   KeyOpensContext, HolderLocksItself, Opened, At, Key, Passwords, Record, Pages, TabTokens, Lists

\* Every step keeps it.
LEMMA NextIInv ==
  IInv /\ [Next]_vars => IInv'
<1> SUFFICES ASSUME IInv, [Next]_vars PROVE IInv'
  OBVIOUS
<1>1. ASSUME NEW t \in Tabs, SignIn(t) PROVE IInv'
  BY <1>1, LoadKeeps, FetchSessionKeeps, LoadSessionKeyKeeps, RestoreKeeps, TypeKeeps,
     LoginKeeps, FinishLoginKeeps, unlockVaultKeeps, ReloadItemsKeeps, DeriveKeyKeeps,
     iapUnlockKeeps, iapSetupKeeps, StartPasskeyKeeps, passkeyLoginKeeps, UnlockWithPasskeyKeeps,
     LoadVaultsKeeps DEF SignIn
<1>2. ASSUME NEW t \in Tabs, Use(t) PROVE IInv'
  BY <1>2, handleRouteKeeps, ActivityKeeps, lockVaultKeeps, logoutKeeps, openItemKeeps,
     StartReadingKeeps, FinishReadingKeeps, saveItemKeeps DEF Use
<1>3. CASE UNCHANGED vars
  <2>1. RestOK'
    BY <1>3 DEF IInv, RestOK, vars, view, Passwords, Record, Pages, TabTokens, Lists
  <2> QED  BY <1>3, <2>1, KeysSame, FlowSame, SyncAll, CallsSame DEF IInv, vars
<1> QED  BY <1>1, <1>2, <1>3, SaveKeeps, TouchKeeps, ClearKeeps, AgeKeeps, recoverKeeps DEF Next

\* It is an invariant.
THEOREM Invariance == Spec => []IInv
BY InitIInv, NextIInv, PTL DEF Spec

\* The pages, their calls and the keystore hold what they may hold.
THEOREM TypeCorrect == Spec => []TypeOK
BY Invariance, Typed, PTL

\* A page that is open can be locked and unlocked again: the key it holds is the
\* one that opens the private key it keeps.
THEOREM HeldKeyUnlocks == Spec => []KeyOpensContext
<1>1. IInv => KeyOpensContext
  BY DEF IInv, KeysOK
<1> QED  BY <1>1, Invariance, PTL

\* A page that is open will lock itself, whatever overtook its sign-in.
THEOREM HoldersLock == Spec => []HolderLocksItself
<1>1. IInv => HolderLocksItself
  BY DEF IInv, KeysOK
<1> QED  BY <1>1, Invariance, PTL

-----------------------------------------------------------------------------
(* Induction, and functions defined by recursion.  Were a number not in a  *)
(* set that is closed under the successor, then those below it that are not *)
(* would be as many as those less one.                                     *)

LEMMA Induction ==
  ASSUME NEW S, 0 \in S, \A n \in Nat : n \in S => n + 1 \in S
  PROVE  Nat \subseteq S
  <1> SUFFICES ASSUME NEW n \in Nat, n \notin S PROVE FALSE
    OBVIOUS
  <1> DEFINE Missing == {k \in 0..n : k \notin S}
             Fewer == Missing \ {n}
             f == [k \in Missing |-> k - 1]
  <1>1. IsFiniteSet(0..n)
    BY FS_Interval
  <1>2. IsFiniteSet(Missing)
    BY <1>1, FS_Subset
  <1>3. Cardinality(Missing) \in Nat
    BY <1>2, FS_CardinalityType
  <1>4. IsFiniteSet(Fewer) /\ Cardinality(Fewer) = Cardinality(Missing) - 1
    <2>1. n \in Missing
      OBVIOUS
    <2> HIDE DEF Missing
    <2> QED BY <1>2, <2>1, FS_RemoveElement
  <1>5. \A k \in Missing : k - 1 \in Fewer
    <2> SUFFICES ASSUME NEW k \in Missing PROVE k - 1 \in Fewer
      OBVIOUS
    <2>1. k \in Nat /\ k <= n /\ k # 0
      OBVIOUS
    <2>2. k - 1 \in Nat /\ k - 1 \in 0..n /\ k - 1 # n /\ (k - 1) + 1 = k
      BY <2>1
    <2> QED BY <2>2
  <1>6. f \in Injection(Missing, Fewer)
    <2>1. f \in [Missing -> Fewer]
      BY <1>5
    <2>2. \A a, b \in Missing : a - 1 = b - 1 => a = b
      OBVIOUS
    <2> QED BY <2>1, <2>2 DEF Injection, IsInjective
  <1> HIDE DEF Missing, Fewer, f
  <1>7. Cardinality(Missing) <= Cardinality(Fewer)
    BY <1>4, <1>6, FS_Injection
  <1> QED BY <1>3, <1>4, <1>7

\* A function on 0..n, from its first value and its steps.
Recursive(f, n, D, a, G) ==
  f \in [0..n -> D] /\ f[0] = a /\ \A i \in 1..n : f[i] = G[i][f[i - 1]]

LEMMA Recursion ==
  ASSUME NEW n \in Nat, NEW D, NEW a \in D, NEW G \in [1..n -> [D -> D]]
  PROVE  \E f : Recursive(f, n, D, a, G)
  <1> DEFINE Has(m, f) == f[0] = a /\ \A i \in 1..m : f[i] = G[i][f[i - 1]]
             S == {m \in Nat : m <= n => \E f \in [0..m -> D] : Has(m, f)}
  <1>1. 0 \in S
    <2>1. [i \in 0..0 |-> a] \in [0..0 -> D] /\ Has(0, [i \in 0..0 |-> a])
      OBVIOUS
    <2> QED BY <2>1
  <1>2. ASSUME NEW m \in Nat, m \in S PROVE m + 1 \in S
    <2> SUFFICES ASSUME m + 1 <= n PROVE \E f \in [0..m + 1 -> D] : Has(m + 1, f)
      OBVIOUS
    <2>1. PICK f \in [0..m -> D] : Has(m, f)
      BY <1>2
    <2> DEFINE d == G[m + 1][f[m]]
               g == [i \in 0..m + 1 |-> IF i = m + 1 THEN d ELSE f[i]]
    <2>2. d \in D
      <3>1. m + 1 \in 1..n /\ f[m] \in D
        BY <2>1
      <3> QED BY <3>1
    <2>3. g \in [0..m + 1 -> D]
      BY <2>1, <2>2
    <2>4. Has(m + 1, g)
      <3>1. g[0] = a
        BY <2>1
      <3>2. ASSUME NEW i \in 1..m + 1 PROVE g[i] = G[i][g[i - 1]]
        <4>1. CASE i = m + 1
          <5>1. g[i - 1] = f[m] /\ g[i] = d
            BY <4>1
          <5> QED BY <4>1, <5>1
        <4>2. CASE i \in 1..m
          <5>1. i # m + 1 /\ i - 1 # m + 1 /\ i - 1 \in 0..m + 1
            BY <4>2
          <5>2. g[i - 1] = f[i - 1] /\ g[i] = f[i]
            BY <5>1
          <5> QED BY <2>1, <4>2, <5>2
        <4> QED BY <4>1, <4>2
      <3> QED BY <3>1, <3>2
    <2> QED BY <2>3, <2>4
  <1> HIDE DEF S
  <1>3. n \in S
    BY <1>1, <1>2, Induction
  <1> QED BY <1>3 DEF S, Recursive

-----------------------------------------------------------------------------
(* Sequences of sequences.  FlattenSeq is recursive: its values are what   *)
(* the parts are up to each of them.                                       *)

Sums(g, ss, S) ==
  /\ g \in [0..Len(ss) -> Seq(S)] /\ g[0] = <<>>
  /\ \A i \in 1..Len(ss) : g[i] = g[i - 1] \o ss[i]

\* Of sequences that begin alike.
LEMMA SumsAgree ==
  ASSUME NEW S, NEW ss \in Seq(Seq(S)), NEW tt \in Seq(Seq(S)), NEW g, NEW h,
         Sums(g, ss, S), Sums(h, tt, S),
         NEW n \in Nat, n <= Len(ss), n <= Len(tt), \A i \in 1..n : ss[i] = tt[i]
  PROVE  g[n] = h[n]
  <1> DEFINE T == {i \in Nat : i <= n => g[i] = h[i]}
  <1>1. 0 \in T
    BY DEF Sums
  <1>2. ASSUME NEW i \in Nat, i \in T PROVE i + 1 \in T
    <2> SUFFICES ASSUME i + 1 <= n PROVE g[i + 1] = h[i + 1]
      OBVIOUS
    <2> PICK k : k = i + 1
      OBVIOUS
    <2>1. /\ k - 1 = i /\ k \in 1..n /\ k \in 1..Len(ss) /\ k \in 1..Len(tt) /\ g[i] = h[i]
      BY <1>2
    <2>2. g[k] = g[i] \o ss[k] /\ h[k] = h[i] \o tt[k]
      BY <2>1 DEF Sums
    <2> QED BY <2>1, <2>2
  <1> HIDE DEF T
  <1>3. n \in T
    BY <1>1, <1>2, Induction
  <1> QED BY <1>3 DEF T

LEMMA SumsExist ==
  ASSUME NEW S, NEW ss \in Seq(Seq(S))
  PROVE  \E g : Sums(g, ss, S) /\ FlattenSeq(ss) = g[Len(ss)]
  <1> DEFINE n == Len(ss)
             D == Seq(S)
             G == [i \in 1..n |-> [p \in D |-> p \o ss[i]]]
  <1>1. n \in Nat /\ <<>> \in D /\ \A i \in 1..n : ss[i] \in D
    OBVIOUS
  <1>2. G \in [1..n -> [D -> D]]
    BY <1>1
  <1> HIDE DEF G
  <1>3. PICK g : Recursive(g, n, D, <<>>, G)
    BY <1>1, <1>2, Recursion
  <1>4. g \in [0..n -> D] /\ g[0] = <<>> /\ \A i \in 1..n : g[i] = g[i - 1] \o ss[i]
    <2>1. ASSUME NEW i \in 1..n PROVE g[i - 1] \in D
      <3>1. i - 1 \in 0..n
        BY <1>1
      <3> HIDE DEF D, n
      <3> QED BY <1>3, <3>1 DEF Recursive
    <2> HIDE DEF D, n
    <2> QED BY <1>3, <2>1 DEF Recursive, G
  <1>5. Sums(g, ss, S)
    BY <1>4 DEF Sums
  <1>6. CASE n = 0
    <2>1. ss = <<>> /\ FlattenSeq(ss) = ss
      BY <1>6 DEF FlattenSeq
    <2> QED BY <1>4, <1>5, <1>6, <2>1
  <1>7. CASE n # 0
    <2> DEFINE f == CHOOSE f : f = [i \in 1..Len(ss) |-> IF i = 1 THEN ss[i] ELSE f[i - 1] \o ss[i]]
               r == [i \in 1..n |-> g[i]]
    <2>1. FlattenSeq(ss) = f[n]
      BY <1>7 DEF FlattenSeq
    <2>2. r = [i \in 1..Len(ss) |-> IF i = 1 THEN ss[i] ELSE r[i - 1] \o ss[i]]
      <3>1. ASSUME NEW i \in 1..n PROVE r[i] = IF i = 1 THEN ss[i] ELSE r[i - 1] \o ss[i]
        <4>1. CASE i = 1
          <5>1. r[i] = g[0] \o ss[i] /\ g[0] = <<>> /\ ss[i] \in D
            <6>1. r[i] = g[i]
              OBVIOUS
            <6> HIDE DEF r, D, n
            <6>2. g[i] = g[i - 1] \o ss[i]
              BY <1>4, Zenon
            <6>3. i - 1 = 0
              BY <4>1
            <6> QED BY <1>1, <1>4, <6>1, <6>2, <6>3
          <5> QED BY <4>1, <5>1
        <4>2. CASE i # 1
          <5>1. i - 1 \in 1..n
            BY <1>1, <4>2
          <5> QED BY <1>4, <4>2, <5>1
        <4> QED BY <4>1, <4>2
      <3> QED BY <3>1
    <2>3. f = [i \in 1..Len(ss) |-> IF i = 1 THEN ss[i] ELSE f[i - 1] \o ss[i]]
      BY <2>2, Zenon
    <2> HIDE DEF f
    <2> DEFINE h == [i \in 0..n |-> IF i = 0 THEN <<>> ELSE f[i]]
               T == {i \in Nat : i <= n => h[i] = g[i]}
    <2>4. 0 \in T
      BY <1>1, <1>4
    <2>5. ASSUME NEW i \in Nat, i \in T PROVE i + 1 \in T
      <3> SUFFICES ASSUME i + 1 <= n PROVE h[i + 1] = g[i + 1]
        OBVIOUS
      <3> PICK k : k = i + 1
        OBVIOUS
      <3>1. k - 1 = i /\ k \in 1..n /\ k \in 0..n /\ k # 0 /\ h[i] = g[i]
        BY <2>5
      <3>2. h[k] = f[k] /\ g[k] = g[i] \o ss[k]
        BY <1>4, <3>1
      <3>3. CASE k = 1
        <4>1. f[k] = ss[k] /\ ss[k] \in D /\ g[i] = <<>>
          BY <1>1, <1>4, <2>3, <3>1, <3>3
        <4> QED BY <3>2, <4>1
      <3>4. CASE k # 1
        <4>1. i \in 0..n /\ i # 0
          BY <1>1, <3>1, <3>4
        <4>2. f[k] = f[i] \o ss[k] /\ h[i] = f[i]
          BY <2>3, <3>1, <3>4, <4>1
        <4> QED BY <3>1, <3>2, <4>2
      <3> QED BY <3>3, <3>4
    <2>6. f[n] = g[n]
      <3> HIDE DEF T
      <3>1. n \in T
        BY <1>1, <2>4, <2>5, Induction
      <3> USE DEF T
      <3>2. h[n] = g[n] /\ n \in 0..n
        BY <1>1, <3>1
      <3> QED BY <1>7, <3>2
    <2> QED BY <1>5, <2>1, <2>6
  <1> QED BY <1>6, <1>7

LEMMA FlattenType ==
  ASSUME NEW S, NEW ss \in Seq(Seq(S))
  PROVE  FlattenSeq(ss) \in Seq(S)
  <1>1. PICK g : Sums(g, ss, S) /\ FlattenSeq(ss) = g[Len(ss)]
    BY SumsExist
  <1> QED BY <1>1 DEF Sums

LEMMA FlattenEmpty == FlattenSeq(<<>>) = <<>>
  BY DEF FlattenSeq

LEMMA FlattenAppend ==
  ASSUME NEW S, NEW ss \in Seq(Seq(S)), NEW s \in Seq(S)
  PROVE  FlattenSeq(Append(ss, s)) = FlattenSeq(ss) \o s
  <1> DEFINE tt == Append(ss, s)
             n == Len(ss)
  <1>1. tt \in Seq(Seq(S)) /\ Len(tt) = n + 1 /\ tt[n + 1] = s /\ \A i \in 1..n : tt[i] = ss[i]
    OBVIOUS
  <1> HIDE DEF tt
  <1>2. PICK g : Sums(g, ss, S) /\ FlattenSeq(ss) = g[n]
    BY SumsExist
  <1>3. PICK h : Sums(h, tt, S) /\ FlattenSeq(tt) = h[Len(tt)]
    BY <1>1, SumsExist
  <1>4. n \in Nat /\ n <= Len(ss) /\ n <= Len(tt)
    BY <1>1
  <1>5. g[n] = h[n]
    <2>1. \A i \in 1..n : ss[i] = tt[i]
      BY <1>1
    <2> HIDE DEF n
    <2> QED BY <1>1, <1>2, <1>3, <1>4, <2>1, SumsAgree
  <1>6. h[n + 1] = h[n] \o s
    <2>1. n + 1 \in 1..Len(tt) /\ (n + 1) - 1 = n
      BY <1>1, <1>4
    <2>2. h[n + 1] = h[(n + 1) - 1] \o tt[n + 1]
      BY <1>3, <2>1 DEF Sums
    <2> QED BY <1>1, <2>1, <2>2
  <1> QED BY <1>1, <1>2, <1>3, <1>5, <1>6 DEF tt

-----------------------------------------------------------------------------
(* Quotients *)

\* A number is what it is divided by, times the quotient, and a rest.
LEMMA Division ==
  ASSUME NEW a \in Nat, NEW b \in Nat, b > 0
  PROVE  /\ a \div b \in Nat /\ a % b \in Nat /\ a % b < b
         /\ a = (a \div b) * b + (a % b)
  OBVIOUS

LEMMA Divided ==
  ASSUME NEW a \in Nat, NEW b \in Nat, b > 0
  PROVE  \E c \in Nat, s \in Nat : c = a \div b /\ s = a % b /\ s < b /\ a = c * b + s
  BY Division

\* And nothing else is.
LEMMA Quotient ==
  ASSUME NEW b \in Nat, b > 0, NEW q \in Nat, NEW r \in Nat, r < b
  PROVE  (q * b + r) \div b = q /\ (q * b + r) % b = r
  <1> DEFINE a == q * b + r
             d == a \div b
             m == a % b
  <1>1. a \in Nat
    OBVIOUS
  <1>2. d \in Nat /\ m \in Nat /\ m < b /\ a = d * b + m
    BY <1>1, Division
  <1> HIDE DEF a, d, m
  <1>3. q * b + r = d * b + m
    BY <1>2 DEF a
  <1>4. ~ q < d
    <2> SUFFICES ASSUME q < d PROVE FALSE
      OBVIOUS
    <2>1. PICK k \in Nat : d = q + 1 + k
      <3>1. d - q - 1 \in Nat /\ d = q + 1 + (d - q - 1)
        BY <1>2
      <3> QED BY <3>1
    <2>2. d * b = q * b + b + k * b /\ k * b >= 0
      BY <2>1
    <2> QED BY <1>2, <1>3, <2>2
  <1>5. ~ d < q
    <2> SUFFICES ASSUME d < q PROVE FALSE
      OBVIOUS
    <2>1. PICK k \in Nat : q = d + 1 + k
      <3>1. q - d - 1 \in Nat /\ q = d + 1 + (q - d - 1)
        BY <1>2
      <3> QED BY <3>1
    <2>2. q * b = d * b + b + k * b /\ k * b >= 0
      BY <1>2, <2>1
    <2> QED BY <1>2, <1>3, <2>2
  <1>6. q = d
    BY <1>2, <1>4, <1>5
  <1>7. r = m
    BY <1>2, <1>3, <1>6
  <1> QED BY <1>6, <1>7 DEF a, d, m

\* A number below the divisor is its own rest.
LEMMA Rest ==
  ASSUME NEW b \in Nat, NEW r \in Nat, r < b
  PROVE  r % b = r /\ r \div b = 0
  <1>1. 0 * b + r = r /\ b > 0
    OBVIOUS
  <1> QED BY <1>1, Quotient

LEMMA Excess ==
  ASSUME NEW a \in Nat, NEW b \in Nat, a >= b
  PROVE  \E k \in Nat : a = b + k
  <1>1. a - b \in Nat /\ a = b + (a - b)
    OBVIOUS
  <1> QED BY <1>1

\* A number of two digits.
LEMMA Digits ==
  ASSUME NEW b \in Nat, NEW v \in Nat, NEW l \in Nat, v < b, l < b
  PROVE  v * b + l \in Nat /\ v * b + l < b * b
  <1>1. PICK k \in Nat : b = (v + 1) + k
    <2>1. v + 1 \in Nat /\ b >= v + 1
      OBVIOUS
    <2> QED BY <2>1, Excess
  <1>2. b * b = v * b + b + k * b
    BY <1>1
  <1>3. k * b \in Nat /\ v * b \in Nat
    OBVIOUS
  <1> QED BY <1>2, <1>3

LEMMA Times ==
  ASSUME NEW a \in Nat, NEW b \in Nat, NEW c \in Nat, a <= b
  PROVE  a * c \in Nat /\ b * c \in Nat /\ a * c <= b * c
  <1>1. PICK k \in Nat : b = a + k
    BY Excess
  <1>2. b * c = a * c + k * c
    BY <1>1
  <1>3. a * c \in Nat /\ k * c \in Nat
    OBVIOUS
  <1> QED BY <1>2, <1>3

-----------------------------------------------------------------------------
(* Words in two limbs *)

\* The product of two words, with the upper word in three parts.
LEMMA Product ==
  ASSUME NEW L \in Nat, L > 0, NEW a \in Nat, NEW b \in Nat, a < L * L, b < L * L,
         NEW x0, x0 = a % L, NEW x1, x1 = a \div L, NEW y0, y0 = b % L, NEW y1, y1 = b \div L,
         NEW mid, mid = x1 * y0 + x0 * y1, NEW tl, tl = x0 * y0 + (mid % L) * L,
         NEW hi, hi = x1 * y1 + mid \div L + tl \div (L * L)
  PROVE  /\ hi \in Nat /\ tl \in Nat /\ hi < L * L
         /\ a * b = hi * (L * L) + (tl % (L * L))
  <1> DEFINE W == L * L
  <1>1. /\ {x0, x1, y0, y1} \subseteq Nat /\ x0 < L /\ y0 < L
        /\ a = x1 * L + x0 /\ b = y1 * L + y0
    BY Division
  <1>2. mid \in Nat
    BY <1>1
  <1>3. mid \div L \in Nat /\ mid % L \in Nat /\ mid = (mid \div L) * L + (mid % L)
    BY <1>2, Division
  <1>4. PICK m \in Nat, n \in Nat : m = mid \div L /\ n = mid % L /\ mid = m * L + n
    BY <1>3
  <1>5. tl \in Nat /\ tl = x0 * y0 + n * L
    BY <1>1, <1>4
  <1>6. W \in Nat /\ W > 0
    OBVIOUS
  <1>7. tl \div W \in Nat /\ tl % W \in Nat /\ tl % W < W /\ tl = (tl \div W) * W + (tl % W)
    BY <1>5, <1>6, Division
  <1>8. PICK c \in Nat, r \in Nat : c = tl \div W /\ r = tl % W /\ r < W /\ tl = c * W + r
    BY <1>7
  <1>9. a * b = (x1 * y1) * W + (x1 * y0 + x0 * y1) * L + x0 * y0
    BY <1>1
  <1>10. a * b = (x1 * y1) * W + (m * L + n) * L + x0 * y0
    BY <1>4, <1>9
  <1>11. a * b = (x1 * y1 + m) * W + (x0 * y0 + n * L)
    BY <1>1, <1>10
  <1>12. a * b = (x1 * y1 + m) * W + (c * W + r)
    BY <1>5, <1>8, <1>11
  <1>13. x1 * y1 \in Nat
    BY <1>1
  <1> HIDE DEF W
  <1>14. a * b = (x1 * y1 + m + c) * W + r
    BY <1>6, <1>12, <1>13
  <1>15. hi = x1 * y1 + m + c /\ hi \in Nat
    BY <1>4, <1>8, <1>13 DEF W
  <1>16. a * b < W * W
    <2>1. a * b <= (W - 1) * (W - 1)
      <3>1. PICK p \in Nat : W - 1 = a + p
        <4>1. W - 1 \in Nat /\ W - 1 >= a
          BY <1>6 DEF W
        <4> QED BY <4>1, Excess
      <3>2. PICK s \in Nat : W - 1 = b + s
        <4>1. W - 1 \in Nat /\ W - 1 >= b
          BY <1>6 DEF W
        <4> QED BY <4>1, Excess
      <3>3. (W - 1) * (W - 1) = a * b + a * s + p * b + p * s
        BY <3>1, <3>2
      <3>4. a * s \in Nat /\ p * b \in Nat /\ p * s \in Nat /\ a * b \in Nat
        BY <3>1, <3>2
      <3> QED BY <3>3, <3>4
    <2>2. (W - 1) * (W - 1) = W * W - W - W + 1
      BY <1>6
    <2>3. W * W \in Nat /\ a * b \in Nat
      BY <1>6
    <2> QED BY <2>1, <2>2, <2>3, <1>6
  <1>17. hi < W
    <2> SUFFICES ASSUME hi >= W PROVE FALSE
      BY <1>6, <1>15
    <2>1. PICK k \in Nat : hi = W + k
      BY <1>6, <1>15, Excess
    <2>2. hi * W = W * W + k * W
      BY <2>1, <1>6
    <2>3. k * W \in Nat /\ W * W \in Nat /\ a * b = hi * W + r
      BY <2>1, <1>6, <1>14, <1>15
    <2> QED BY <1>8, <1>16, <2>2, <2>3
  <1> QED BY <1>5, <1>8, <1>14, <1>15, <1>17 DEF W

\* The upper word of a square.
LEMMA Squared ==
  ASSUME NumbersAssumption, NEW a \in 0..A!Word - 1
  PROVE  /\ A!umulHi(a) = (a * a) \div A!Word
         /\ A!umulHi(a) \in 0..A!Word - 1
  <1> DEFINE L == Limb
             x0 == a % L
             x1 == a \div L
             mid == x1 * x0 + x0 * x1
             tl == x0 * x0 + (mid % L) * L
             hi == x1 * x1 + mid \div L + tl \div (L * L)
  <1>1. L \in Nat /\ L > 0 /\ L * L \in Nat /\ L * L > 0
    BY DEF NumbersAssumption
  <1>2. a \in Nat /\ a < L * L
    BY <1>1 DEF A!Word
  <1>3. x0 \in Nat /\ x1 \in Nat
    BY <1>1, <1>2, Division
  <1>4. x1 * x0 * 2 = mid
    BY <1>3
  <1>5. A!umulHi(a) = hi % (L * L)
    BY <1>4 DEF A!umulHi, A!Word
  <1> HIDE DEF x0, x1, mid, tl, hi
  <1>6. hi \in Nat /\ tl \in Nat /\ hi < L * L /\ a * a = hi * (L * L) + (tl % (L * L))
    BY <1>1, <1>2, Product DEF x0, x1, mid, tl, hi
  <1> HIDE DEF L
  <1> PICK W : W = L * L
    OBVIOUS
  <1>7. tl % W \in Nat /\ tl % W < W /\ W \in Nat /\ W > 0
    BY <1>1, <1>6, Division
  <1>8. (a * a) \div W = hi
    BY <1>6, <1>7, Quotient
  <1>9. hi % W = hi
    BY <1>6, <1>7, Rest
  <1> QED BY <1>5, <1>6, <1>7, <1>8, <1>9 DEF A!Word, L

\* The mixing function on halves: a + b + 2 lo(a) lo(b) of longs.
LEMMA Mixed ==
  ASSUME NumbersAssumption, NEW al \in 0..A!Word - 1, NEW bl \in 0..A!Word - 1,
         NEW ah \in 0..A!Word - 1, NEW bh \in 0..A!Word - 1,
         NEW a, a = al + ah * A!Word, NEW b, b = bl + bh * A!Word,
         NEW r, r = A!fBlaMka(al, ah, bl, bh)
  PROVE  r.lo + r.hi * A!Word
           = (a + b + 2 * (a % A!Word) * (b % A!Word)) % (A!Word * A!Word)
  <1> DEFINE L == Limb
             x0 == al % L
             x1 == al \div L
             y0 == bl % L
             y1 == bl \div L
             mid == x1 * y0 + x0 * y1
             tl == x0 * y0 + (mid % L) * L
             h == x1 * y1 + mid \div L + tl \div (L * L)
  <1>1. L \in Nat /\ L > 0 /\ L * L \in Nat /\ L * L > 0
    BY DEF NumbersAssumption
  <1>2. al \in Nat /\ al < L * L /\ bl \in Nat /\ bl < L * L
    BY <1>1 DEF A!Word
  <1> PICK W : W = A!Word
    OBVIOUS
  <1> PICK H : H = W \div 2
    OBVIOUS
  <1> PICK pl : pl = tl % W
    OBVIOUS
  <1> DEFINE dl == (2 * pl) % W
             dh == ((2 * (h % W)) % W) + pl \div H
             lo == al + bl + dl
  <1>3. r.lo = lo % W /\ r.hi = (ah + bh + dh + lo \div W) % W
    BY DEF A!fBlaMka, A!Word
  <1>4. W = L * L /\ W \in Nat /\ W > 0
    BY <1>1 DEF A!Word
  <1> HIDE DEF x0, x1, y0, y1, mid, tl, h, dl, dh, lo
  <1>5. h \in Nat /\ tl \in Nat /\ h < W /\ al * bl = h * W + pl
    BY <1>1, <1>2, <1>4, Product DEF x0, x1, y0, y1, mid, tl, h
  <1>6. pl \in Nat /\ pl < W
    BY <1>4, <1>5, Division
  <1>7. W = H * 2 /\ H \in Nat /\ H > 0
    <2>1. PICK e \in Nat : L = 2 * e
      <3>1. L \div 2 \in Nat /\ L = (L \div 2) * 2 + (L % 2) /\ L % 2 = 0
        BY <1>1, Division DEF NumbersAssumption
      <3> QED BY <3>1
    <2>2. W = (e * L) * 2 + 0 /\ e * L \in Nat
      BY <1>1, <1>4, <2>1
    <2>3. H = e * L
      BY <2>2, Quotient
    <2> QED BY <1>4, <2>2, <2>3
  <1> HIDE DEF L
  <1>8. PICK c \in Nat, s \in Nat : c = pl \div H /\ s = pl % H /\ s < H /\ pl = c * H + s
    BY <1>6, <1>7, Divided, Zenon
  <1>9. dl \in Nat /\ dl < W /\ 2 * pl = c * W + dl
    <2>1. 2 * pl = c * W + 2 * s /\ 2 * s \in Nat /\ 2 * s < W
      BY <1>7, <1>8
    <2>2. (c * W + 2 * s) % W = 2 * s
      BY <1>4, <2>1, Quotient
    <2> QED BY <2>1, <2>2 DEF dl
  <1>10. PICK g \in Nat, h2 \in Nat : /\ g = (2 * h) \div W /\ h2 = (2 * h) % W /\ h2 < W
                                      /\ 2 * h = g * W + h2
    <2>1. 2 * h \in Nat
      BY <1>5
    <2> QED BY <1>4, <2>1, Divided, Zenon
  <1>11. dh = h2 + c
    BY <1>4, <1>5, <1>8, <1>10, Rest DEF dh
  <1>12. PICK e \in Nat, lo0 \in Nat : e = lo \div W /\ lo0 = lo % W /\ lo0 < W /\ lo = e * W + lo0
    <2>1. lo \in Nat
      BY <1>2, <1>9 DEF lo
    <2> QED BY <1>4, <2>1, Divided, Zenon
  <1>13. ah \in Nat /\ bh \in Nat
    BY <1>4
  <1>14. PICK u \in Nat, v \in Nat : /\ v = (ah + bh + (h2 + c) + e) % W
                                     /\ v < W /\ ah + bh + h2 + c + e = u * W + v
    <2>1. ah + bh + (h2 + c) + e \in Nat /\ ah + bh + (h2 + c) + e = ah + bh + h2 + c + e
      <3>1. ah \in Nat /\ bh \in Nat /\ h2 \in Nat /\ c \in Nat /\ e \in Nat
        BY <1>8, <1>10, <1>12, <1>13
      <3> QED BY <3>1
    <2> PICK y : y = ah + bh + (h2 + c) + e
      OBVIOUS
    <2>2. y \div W \in Nat /\ y % W \in Nat /\ y % W < W /\ y = (y \div W) * W + (y % W)
      BY <1>4, <2>1, Division
    <2> QED BY <2>1, <2>2
  <1>15. r.lo = lo0 /\ r.hi = v
    BY <1>3, <1>11, <1>12, <1>14
  <1>16. a % W = al /\ b % W = bl
    <2>1. a = ah * W + al /\ b = bh * W + bl
      BY <1>2, <1>4, <1>13
    <2>2. al < W /\ bl < W
      BY <1>2, <1>4
    <2>3. (ah * W + al) % W = al
      BY <1>2, <1>4, <1>13, <2>2, Quotient
    <2>4. (bh * W + bl) % W = bl
      BY <1>2, <1>4, <1>13, <2>2, Quotient
    <2> QED BY <2>1, <2>3, <2>4
  <1>17. a + b + 2 * al * bl = (u + g) * (W * W) + (v * W + lo0)
    <2>1. 2 * al * bl = (2 * h) * W + 2 * pl
      <3>1. 2 * al * bl = 2 * (al * bl)
        BY <1>2
      <3>2. 2 * (h * W + pl) = (2 * h) * W + 2 * pl
        BY <1>4, <1>5, <1>6
      <3> QED BY <1>5, <3>1, <3>2
    <2>2. 2 * al * bl = (g * W + h2) * W + (c * W + dl)
      BY <1>9, <1>10, <2>1
    <2>3. a + b + 2 * al * bl = (al + bl + dl) + (ah + bh + h2 + c) * W + g * (W * W)
      BY <1>2, <1>4, <1>8, <1>9, <1>10, <1>13, <2>2
    <2>4. a + b + 2 * al * bl = (e * W + lo0) + (ah + bh + h2 + c) * W + g * (W * W)
      BY <1>12, <2>3 DEF lo
    <2>5. a + b + 2 * al * bl = lo0 + (ah + bh + h2 + c + e) * W + g * (W * W)
      BY <1>4, <1>8, <1>10, <1>12, <1>13, <2>4
    <2>6. a + b + 2 * al * bl = lo0 + (u * W + v) * W + g * (W * W)
      BY <1>14, <2>5
    <2> QED BY <1>4, <1>10, <1>12, <1>14, <2>6
  <1>18. v * W + lo0 \in Nat /\ v * W + lo0 < W * W
    BY <1>4, <1>12, <1>14, Digits
  <1>19. W * W \in Nat /\ W * W > 0 /\ u + g \in Nat
    BY <1>4
  <1>20. (a + b + 2 * al * bl) % (W * W) = v * W + lo0
    BY <1>17, <1>18, <1>19, Quotient
  <1>21. v * W + lo0 = lo0 + v * W
    BY <1>4
  <1> QED BY <1>15, <1>16, <1>20, <1>21

-----------------------------------------------------------------------------
(* Hashes *)

Counted == [tLo : 0..A!Word - 1, tHi : Nat, last : BOOLEAN]
Absorbed == [tLo : 0..A!Word - 1, tHi : Nat, out : Seq(Counted)]

Shorter(a, b) == IF a < b THEN a ELSE b

\* The counter is exact whether or not its lower word overflows.
LEMMA Absorbs ==
  ASSUME NumbersAssumption, NEW p \in Absorbed, NEW n \in 0..A!Word, NEW last \in BOOLEAN
  PROVE  LET r == A!Absorb(p, n, last)
         IN /\ r \in Absorbed
            /\ r.tLo + r.tHi * A!Word = p.tLo + p.tHi * A!Word + n
            /\ r.out = Append(p.out, [tLo |-> r.tLo, tHi |-> r.tHi, last |-> last])
  <1> PICK r : r = A!Absorb(p, n, last)
    OBVIOUS
  <1> PICK W \in Nat : W = A!Word /\ W > 0
    BY DEF NumbersAssumption, A!Word
  <1> DEFINE over == p.tLo + n > W - 1
             lo == IF over THEN p.tLo + n - W ELSE p.tLo + n
             hi == IF over THEN p.tHi + 1 ELSE p.tHi
             new == [tLo |-> lo, tHi |-> hi, last |-> last]
  <1>1. r = [tLo |-> lo, tHi |-> hi, out |-> Append(p.out, new)]
    BY DEF A!Absorb
  <1>2. p.tLo \in 0..W - 1 /\ p.tHi \in Nat /\ p.out \in Seq(Counted)
    BY DEF Absorbed
  <1>3. lo \in 0..W - 1 /\ hi \in Nat
    BY <1>2
  <1>4. lo + hi * W = p.tLo + p.tHi * W + n
    <2>1. CASE over
      <3>1. hi * W = p.tHi * W + W
        BY <1>2, <2>1
      <3> QED BY <1>2, <2>1, <3>1
    <2>2. CASE ~ over
      BY <1>2, <2>2
    <2> QED BY <2>1, <2>2
  <1> HIDE DEF lo, hi
  <1>5. new \in Counted
    BY <1>3 DEF Counted
  <1>6. Append(p.out, new) \in Seq(Counted)
    BY <1>2, <1>5
  <1>7. r \in Absorbed
    BY <1>1, <1>3, <1>6 DEF Absorbed
  <1> QED BY <1>1, <1>4, <1>7

\* How many blocks there are of B bytes, the last of which may be shorter.
LEMMA Blocks ==
  ASSUME NEW len \in Nat, NEW B \in Nat, B > 0,
         NEW count, count = IF len = 0 THEN 1 ELSE (len + B - 1) \div B
  PROVE  /\ count \in Nat /\ count >= 1 /\ len <= count * B
         /\ \A i \in 1..count : (i - 1) * B \in Nat /\ (i - 1) * B <= len
         /\ \A i \in 2..count : (i - 1) * B < len
  <1>1. CASE len = 0
    BY <1>1
  <1>2. CASE len > 0
    <2>1. PICK c \in Nat, s \in Nat : /\ c = (len + B - 1) \div B /\ s = (len + B - 1) % B
                                      /\ s < B /\ len + B - 1 = c * B + s
      <3> DEFINE n == len + B - 1
      <3>1. n \in Nat
        OBVIOUS
      <3> HIDE DEF n
      <3>2. \E c \in Nat, s \in Nat : c = n \div B /\ s = n % B /\ s < B /\ n = c * B + s
        BY <3>1, Divided
      <3> QED BY <3>2 DEF n
    <2>2. c = count
      BY <1>2, <2>1
    <2>3. c >= 1
      BY <1>2, <2>1
    <2>4. (c - 1) * B = len - 1 - s /\ (c - 1) * B \in Nat
      <3>1. PICK k \in Nat : c = 1 + k
        BY <2>3, Excess
      <3>2. c * B = B + k * B /\ c - 1 = k /\ k * B \in Nat
        BY <3>1
      <3> QED BY <2>1, <3>2
    <2>5. len <= c * B
      BY <2>1
    <2>6. ASSUME NEW i \in 1..c PROVE (i - 1) * B \in Nat /\ (i - 1) * B < len
      <3>1. i - 1 \in Nat /\ c - 1 \in Nat /\ i - 1 <= c - 1
        BY <2>1
      <3>2. (i - 1) * B \in Nat /\ (i - 1) * B <= (c - 1) * B
        BY <3>1, Times
      <3> QED BY <2>1, <2>4, <3>2
    <2> QED BY <2>1, <2>2, <2>3, <2>5, <2>6
  <1> QED BY <1>1, <1>2

\* The counters of the blocks of a BLAKE2b input.
LEMMA Counters ==
  ASSUME NumbersAssumption, NEW len \in Nat, NEW out, out = A!blake2b(len)
  PROVE  \A i \in DOMAIN out :
           /\ out[i].last <=> i = Len(out)
           /\ out[i].tLo + out[i].tHi * A!Word = IF i * 2 * Digest < len THEN i * 2 * Digest ELSE len
           /\ i > 1 => (i - 1) * 2 * Digest < len
  <1> DEFINE B == 2 * Digest
             count == IF len = 0 THEN 1 ELSE (len + B - 1) \div B
             size(i) == IF len - (i - 1) * B < B THEN len - (i - 1) * B ELSE B
             start == [tLo |-> 0, tHi |-> 0, out |-> <<>>]
             f == CHOOSE f : f = [i \in 0..count |->
                                    IF i = 0 THEN start ELSE A!Absorb(f[i - 1], size(i), i = count)]
             G == [i \in 1..count |-> [p \in Absorbed |-> A!Absorb(p, size(i), i = count)]]
  <1>1. out = f[count].out
    BY DEF A!blake2b
  <1>2. B \in Nat /\ B > 0 /\ B <= A!Word /\ A!Word \in Nat /\ A!Word > 0
    BY DEF NumbersAssumption, A!Word
  <1> HIDE DEF f, B
  <1>3. /\ count \in Nat /\ count >= 1 /\ len <= count * B
        /\ \A i \in 1..count : (i - 1) * B \in Nat /\ (i - 1) * B <= len
        /\ \A i \in 2..count : (i - 1) * B < len
    BY <1>2, Blocks
  <1> HIDE DEF count
  <1>4. ASSUME NEW i \in 1..count
        PROVE  size(i) \in 0..A!Word /\ Shorter((i - 1) * B, len) + size(i) = Shorter(i * B, len)
    <2>1. (i - 1) * B \in Nat /\ (i - 1) * B <= len
      BY <1>3
    <2>2. i * B = (i - 1) * B + B
      BY <1>2, <1>3
    <2> QED BY <1>2, <2>1, <2>2 DEF Shorter
  <1>5. start \in Absorbed
    <2>1. 0 \in 0..A!Word - 1 /\ <<>> \in Seq(Counted)
      BY <1>2
    <2> QED BY <2>1 DEF Absorbed
  <1> HIDE DEF size, start
  <1>6. G \in [1..count -> [Absorbed -> Absorbed]]
    <2> SUFFICES ASSUME NEW i \in 1..count, NEW p \in Absorbed
                 PROVE  A!Absorb(p, size(i), i = count) \in Absorbed
      OBVIOUS
    <2>1. size(i) \in 0..A!Word /\ (i = count) \in BOOLEAN
      BY <1>4
    <2> QED BY <2>1, Absorbs
  <1>7. PICK g : Recursive(g, count, Absorbed, start, G)
    <2> HIDE DEF G
    <2> QED BY <1>3, <1>5, <1>6, Recursion
  <1>8. ASSUME NEW i \in 1..count PROVE g[i] = A!Absorb(g[i - 1], size(i), i = count)
    <2>1. g[i - 1] \in Absorbed
      BY <1>3, <1>7 DEF Recursive
    <2> QED BY <1>7, <2>1 DEF Recursive
  <1>9. g = [i \in 0..count |-> IF i = 0 THEN start ELSE A!Absorb(g[i - 1], size(i), i = count)]
    <2>1. ASSUME NEW i \in 0..count
          PROVE  g[i] = IF i = 0 THEN start ELSE A!Absorb(g[i - 1], size(i), i = count)
      <3>1. CASE i = 0
        BY <1>7, <3>1 DEF Recursive
      <3>2. CASE i \in 1..count
        BY <1>8, <3>2
      <3> QED BY <1>3, <3>1, <3>2
    <2> QED BY <1>7, <2>1 DEF Recursive
  <1>10. f = [i \in 0..count |-> IF i = 0 THEN start ELSE A!Absorb(f[i - 1], size(i), i = count)]
    BY <1>9, Zenon DEF f
  <1> HIDE DEF G
  <1>11. f[0] = start /\ \A i \in 1..count : f[i] = A!Absorb(f[i - 1], size(i), i = count)
    <2>1. 0 \in 0..count /\ \A i \in 1..count : i \in 0..count /\ i # 0
      BY <1>3
    <2> QED BY <1>10, <2>1
  <1> DEFINE Exact(c, i) == /\ c.tLo + c.tHi * A!Word = Shorter(i * B, len)
             Done(i) == /\ f[i] \in Absorbed /\ Exact(f[i], i) /\ Len(f[i].out) = i
                        /\ \A k \in 1..i : /\ Exact(f[i].out[k], k)
                                           /\ f[i].out[k].last <=> k = count
             S == {i \in Nat : i <= count => Done(i)}
  <1>12. 0 \in S
    <2>1. start.tLo + start.tHi * A!Word = Shorter(0 * B, len)
      BY <1>2 DEF start, Shorter
    <2>2. start.out = <<>>
      BY DEF start
    <2> QED BY <1>5, <1>11, <2>1, <2>2
  <1>13. ASSUME NEW j \in Nat, j \in S PROVE j + 1 \in S
    <2> SUFFICES ASSUME j + 1 <= count PROVE Done(j + 1)
      OBVIOUS
    <2> PICK i : i = j + 1
      OBVIOUS
    <2>1. i \in 1..count /\ i - 1 = j /\ j <= count
      BY <1>3
    <2>2. Done(j)
      BY <1>13, <2>1
    <2> PICK e \in BOOLEAN : e = (i = count)
      OBVIOUS
    <2>3. f[i] = A!Absorb(f[j], size(i), e)
      BY <1>11, <2>1, Zenon
    <2>4. /\ f[i] \in Absorbed
          /\ f[i].tLo + f[i].tHi * A!Word = f[j].tLo + f[j].tHi * A!Word + size(i)
          /\ f[i].out = Append(f[j].out, [tLo |-> f[i].tLo, tHi |-> f[i].tHi, last |-> e])
      <3>1. f[j] \in Absorbed /\ size(i) \in 0..A!Word
        BY <1>4, <2>1, <2>2
      <3> PICK n : n = size(i)
        OBVIOUS
      <3> PICK p : p = f[j]
        OBVIOUS
      <3>2. p \in Absorbed /\ n \in 0..A!Word /\ f[i] = A!Absorb(p, n, e)
        BY <2>3, <3>1
      <3> HIDE DEF f
      <3>3. /\ A!Absorb(p, n, e) \in Absorbed
            /\ A!Absorb(p, n, e).tLo + A!Absorb(p, n, e).tHi * A!Word = p.tLo + p.tHi * A!Word + n
            /\ A!Absorb(p, n, e).out = Append(p.out, [tLo |-> A!Absorb(p, n, e).tLo,
                                                      tHi |-> A!Absorb(p, n, e).tHi, last |-> e])
        BY <3>2, Absorbs, Zenon
      <3> QED BY <3>2, <3>3
    <2>5. Exact(f[i], i)
      BY <1>4, <2>1, <2>2, <2>4
    <2>6. Len(f[i].out) = i
      <3>1. f[j].out \in Seq(Counted) /\ Len(f[j].out) = j
        BY <2>2 DEF Absorbed
      <3> QED BY <2>1, <2>4, <3>1
    <2>7. ASSUME NEW k \in 1..i PROVE Exact(f[i].out[k], k) /\ (f[i].out[k].last <=> k = count)
      <3>1. f[j].out \in Seq(Counted) /\ Len(f[j].out) = j
        BY <2>2 DEF Absorbed
      <3>2. CASE k = i
        <4>1. f[i].out[k] = [tLo |-> f[i].tLo, tHi |-> f[i].tHi, last |-> e]
          BY <2>1, <2>4, <3>1, <3>2
        <4>2. f[i].out[k].last = e /\ f[i].out[k].tLo = f[i].tLo /\ f[i].out[k].tHi = f[i].tHi
          BY <4>1
        <4>3. Exact(f[i].out[k], k)
          BY <2>5, <3>2, <4>2
        <4> QED BY <3>2, <4>2, <4>3
      <3>3. CASE k \in 1..j
        <4>1. f[i].out[k] = f[j].out[k]
          BY <2>4, <3>1, <3>3
        <4>2. Exact(f[j].out[k], k) /\ (f[j].out[k].last <=> k = count)
          BY <2>2, <3>3
        <4> QED BY <4>1, <4>2
      <3> QED BY <2>1, <3>2, <3>3
    <2> QED BY <2>4, <2>5, <2>6, <2>7
  <1> HIDE DEF S
  <1>14. count \in S
    BY <1>3, <1>12, <1>13, Induction
  <1>15. Done(count)
    BY <1>14, <1>3 DEF S
  <1>16. out \in Seq(Counted) /\ Len(out) = count
    BY <1>1, <1>15 DEF Absorbed
  <1> SUFFICES ASSUME NEW i \in 1..count
               PROVE  /\ out[i].last <=> i = count
                      /\ out[i].tLo + out[i].tHi * A!Word
                           = IF i * 2 * Digest < len THEN i * 2 * Digest ELSE len
                      /\ i > 1 => (i - 1) * 2 * Digest < len
    BY <1>16
  <1>17. i * 2 * Digest = i * B /\ (i - 1) * 2 * Digest = (i - 1) * B
    <2>1. i \in Nat /\ Digest \in Nat
      BY <1>3 DEF NumbersAssumption
    <2> QED BY <2>1 DEF B
  <1>18. (out[i].last <=> i = count) /\ Exact(out[i], i)
    BY <1>1, <1>15
  <1>19. i > 1 => (i - 1) * B < len
    BY <1>3
  <1> QED BY <1>17, <1>18, <1>19 DEF Shorter

Link == [take : Nat, of : Nat]
Half == Digest \div 2
Piece(take, of) == <<[take |-> take, of |-> of]>>

\* What the pieces g of shorter hashes say about the one of length rem.
Further(g, rem) == IF rem <= Digest THEN Piece(rem, rem) ELSE Piece(Half, Digest) \o g[rem - Half]

LEMMA FurtherBeyond ==
  ASSUME NEW g, NEW rem \in Nat, ~ rem <= Digest
  PROVE  Further(g, rem) = Piece(Half, Digest) \o g[rem - Half]
  BY DEF Further

LEMMA HalfDigest ==
  ASSUME NumbersAssumption
  PROVE  Half \in Nat /\ Half > 0 /\ Digest \in Nat /\ Digest = 2 * Half
  <1>1. Digest \in Nat /\ Digest > 0 /\ Digest % 2 = 0
    BY DEF NumbersAssumption
  <1>2. Digest \div 2 \in Nat /\ Digest = (Digest \div 2) * 2 + (Digest % 2)
    BY <1>1, Division
  <1> QED BY <1>1, <1>2 DEF Half

\* The recursion of hPrime goes back by half a digest: it ends.
LEMMA FurtherExists ==
  ASSUME NumbersAssumption, NEW n \in Nat
  PROVE  \E g \in [0..n -> Seq(Link)] : \A rem \in 0..n : g[rem] = Further(g, rem)
  <1> DEFINE Has(m, g) == \A rem \in 0..m : g[rem] = Further(g, rem)
             S == {m \in Nat : \E g \in [0..m -> Seq(Link)] : Has(m, g)}
  <1>1. Half \in Nat /\ Half > 0 /\ Digest \in Nat /\ Digest = 2 * Half
    BY HalfDigest
  <1>2. ASSUME NEW m \in Nat PROVE Piece(m, m) \in Seq(Link) /\ Piece(Half, Digest) \in Seq(Link)
    BY <1>1 DEF Piece, Link
  <1>3. 0 \in S
    <2> DEFINE g == [rem \in 0..0 |-> Piece(0, 0)]
    <2>1. g \in [0..0 -> Seq(Link)]
      BY <1>2
    <2>2. Has(0, g)
      BY <1>1 DEF Further
    <2> QED BY <2>1, <2>2
  <1>4. ASSUME NEW m \in Nat, m \in S PROVE m + 1 \in S
    <2> PICK p \in Nat : p = m + 1
      OBVIOUS
    <2>1. PICK h \in [0..m -> Seq(Link)] : Has(m, h)
      BY <1>4
    <2> DEFINE d == Further(h, p)
               g == [rem \in 0..p |-> IF rem = p THEN d ELSE h[rem]]
    <2>2. d \in Seq(Link)
      <3>1. CASE p <= Digest
        BY <1>2, <3>1 DEF Further
      <3>2. CASE ~ p <= Digest
        <4>1. p - Half \in 0..m
          BY <1>1, <3>2
        <4>2. h[p - Half] \in Seq(Link) /\ Piece(Half, Digest) \in Seq(Link)
          BY <1>2, <4>1
        <4>3. d = Piece(Half, Digest) \o h[p - Half]
          BY <3>2, FurtherBeyond
        <4> HIDE DEF d
        <4> QED BY <4>2, <4>3
      <3> QED BY <3>1, <3>2
    <2>3. g \in [0..p -> Seq(Link)]
      BY <2>2
    <2>4. ASSUME NEW rem \in 0..p PROVE g[rem] = Further(g, rem)
      <3>1. CASE rem <= Digest
        BY <2>1, <3>1 DEF Further
      <3>2. CASE ~ rem <= Digest
        <4>1. rem - Half \in 0..m /\ rem - Half \in 0..p /\ rem - Half # p
          BY <1>1, <3>2
        <4>2. g[rem - Half] = h[rem - Half]
          BY <4>1
        <4> HIDE DEF g
        <4>3. Further(g, rem) = Further(h, rem)
          BY <4>2, Zenon DEF Further
        <4> USE DEF g
        <4> HIDE DEF d
        <4>4. CASE rem = p
          BY <4>3, <4>4 DEF d
        <4>5. CASE rem \in 0..m
          <5>1. rem # p
            BY <4>5
          <5> QED BY <2>1, <4>3, <4>5, <5>1
        <4> QED BY <4>4, <4>5
      <3> QED BY <3>1, <3>2
    <2>5. Has(p, g)
      BY <2>4
    <2> HIDE DEF g, Has
    <2>6. \E k \in [0..p -> Seq(Link)] : Has(p, k)
      BY <2>3, <2>5
    <2> QED BY <2>6
  <1> HIDE DEF S
  <1>5. n \in S
    BY <1>3, <1>4, Induction
  <1> QED BY <1>5 DEF S

\* The lengths of the pieces of a long hash, and of the hashes they are of.
LEMMA Pieces ==
  ASSUME NumbersAssumption, NEW n \in Nat, NEW out, out = A!hPrime(n)
  PROVE  /\ (Len(out) - 1) * Half + Last(out).take = n
         /\ \A i \in DOMAIN out :
              IF i = Len(out) THEN out[i].take = out[i].of /\ out[i].of <= Digest
              ELSE out[i] = [take |-> Half, of |-> Digest]
  <1> DEFINE f == CHOOSE f : f = [rem \in 0..n |->
                                    IF rem <= Digest THEN <<[take |-> rem, of |-> rem]>>
                                    ELSE <<[take |-> Digest \div 2, of |-> Digest]>>
                                         \o f[rem - Digest \div 2]]
  <1>1. out = f[n]
    BY DEF A!hPrime
  <1>2. PICK g \in [0..n -> Seq(Link)] : \A rem \in 0..n : g[rem] = Further(g, rem)
    BY FurtherExists
  <1>3. g = [rem \in 0..n |-> IF rem <= Digest THEN <<[take |-> rem, of |-> rem]>>
                              ELSE <<[take |-> Digest \div 2, of |-> Digest]>> \o g[rem - Digest \div 2]]
    BY <1>2 DEF Further, Piece, Half
  <1>4. f = [rem \in 0..n |-> IF rem <= Digest THEN <<[take |-> rem, of |-> rem]>>
                              ELSE <<[take |-> Digest \div 2, of |-> Digest]>> \o f[rem - Digest \div 2]]
    BY <1>3, Zenon
  <1> HIDE DEF f
  <1>5. ASSUME NEW rem \in 0..n PROVE f[rem] = Further(f, rem)
    BY <1>4 DEF Further, Piece, Half
  <1>6. Half \in Nat /\ Half > 0 /\ Digest \in Nat /\ Digest = 2 * Half
    BY HalfDigest
  <1> DEFINE Right(s, m) ==
               /\ s \in Seq(Link) /\ Len(s) >= 1
               /\ (Len(s) - 1) * Half + s[Len(s)].take = m
               /\ \A i \in 1..Len(s) :
                    IF i = Len(s) THEN s[i].take = s[i].of /\ s[i].of <= Digest
                    ELSE s[i] = [take |-> Half, of |-> Digest]
             S == {m \in Nat : \A rem \in 0..m : rem <= n => Right(f[rem], rem)}
  <1>7. ASSUME NEW m \in Nat, m <= Digest, m <= n PROVE Right(f[m], m)
    <2>1. f[m] = <<[take |-> m, of |-> m]>>
      <3>1. m \in 0..n
        BY <1>7
      <3>2. f[m] = Further(f, m)
        BY <1>5, <3>1
      <3> QED BY <1>7, <3>2, Zenon DEF Further, Piece
    <2>2. [take |-> m, of |-> m] \in Link
      BY DEF Link
    <2> QED BY <1>6, <1>7, <2>1, <2>2
  <1> HIDE DEF Right
  <1>8. 0 \in S
    <2>1. \A rem \in 0..0 : rem = 0
      OBVIOUS
    <2>2. Right(f[0], 0)
      BY <1>6, <1>7
    <2> QED BY <2>1, <2>2
  <1>9. ASSUME NEW m \in Nat, m \in S PROVE m + 1 \in S
    <2> PICK p \in Nat : p = m + 1
      OBVIOUS
    <2>0. SUFFICES ASSUME p <= n PROVE Right(f[p], p)
      <3>1. ASSUME NEW rem \in 0..p, rem <= n PROVE Right(f[rem], rem)
        <4>1. CASE rem = p
          BY <2>0, <3>1, <4>1
        <4>2. CASE rem \in 0..m
          BY <1>9, <3>1, <4>2
        <4> QED BY <3>1, <4>1, <4>2
      <3> QED BY <3>1
    <2>1. CASE p <= Digest
      BY <1>7, <2>0, <2>1
    <2>2. CASE ~ p <= Digest
      <3> DEFINE k == p - Half
                 s == f[k]
                 t == f[p]
                 e == [take |-> Half, of |-> Digest]
      <3>1. k \in 0..m /\ k <= n /\ p = k + Half
        BY <1>6, <2>0, <2>2
      <3>2. Right(s, k)
        BY <1>9, <3>1
      <3>3. t = <<e>> \o s
        <4>1. p \in 0..n
          BY <2>0
        <4>2. t = Further(f, p)
          BY <1>5, <4>1
        <4>4. t = Piece(Half, Digest) \o f[p - Half]
          BY <2>2, <4>2, FurtherBeyond
        <4> QED BY <4>4 DEF Piece
      <3>4. e \in Link
        BY <1>6 DEF Link
      <3> HIDE DEF k, t, e, s
      <3> USE DEF Right
      <3>5. /\ t \in Seq(Link) /\ Len(t) = Len(s) + 1 /\ Len(s) \in Nat
            /\ t[1] = e /\ \A i \in 2..Len(t) : t[i] = s[i - 1]
        BY <3>2, <3>3, <3>4
      <3>6. t[Len(t)] = s[Len(s)]
        BY <3>2, <3>5
      <3>7. (Len(t) - 1) * Half + t[Len(t)].take = p
        <4>1. s[Len(s)].take \in Nat
          <5>1. s \in Seq(Link) /\ Len(s) \in 1..Len(s)
            BY <3>2, <3>5
          <5>2. s[Len(s)] \in Link
            BY <5>1
          <5> QED BY <5>2 DEF Link
        <4>2. PICK l \in Nat : Len(s) = 1 + l
          <5>1. Len(s) \in Nat /\ Len(s) >= 1
            BY <3>2, <3>5
          <5> HIDE DEF Right
          <5> QED BY <5>1, Excess
        <4>3. Len(t) - 1 = l + 1
          BY <3>2, <3>5, <4>2
        <4> HIDE DEF Right
        <4>4. PICK lh \in Nat : lh = l * Half
          BY <1>6
        <4>5. PICK last \in Nat : last = s[Len(s)].take
          BY <4>1
        <4>7. (Len(s) - 1) * Half + s[Len(s)].take = k
          BY <3>2 DEF Right
        <4>8. Len(s) - 1 = l
          BY <4>2
        <4>9. lh + last = k
          BY <4>4, <4>5, <4>7, <4>8, Zenon
        <4>10. (l + 1) * Half = lh + Half
          BY <1>6, <4>4
        <4>11. Half \in Nat /\ p = k + Half
          BY <1>6, <3>1
        <4>6. (l + 1) * Half + s[Len(s)].take = p
          <5>1. (lh + Half) + last = p
            BY <4>9, <4>11
          <5> QED BY <4>5, <4>10, <5>1, Zenon
        <4> QED BY <3>6, <4>3, <4>6
      <3>8. ASSUME NEW i \in 1..Len(t)
            PROVE  IF i = Len(t) THEN t[i].take = t[i].of /\ t[i].of <= Digest ELSE t[i] = e
        <4>1. CASE i = Len(t)
          BY <3>2, <3>5, <3>6, <4>1
        <4>2. CASE i = 1
          BY <3>2, <3>5, <4>2
        <4>3. CASE i \in 2..Len(t) - 1
          <5>1. t[i] = s[i - 1] /\ i - 1 \in 1..Len(s) /\ i - 1 # Len(s)
            BY <3>5, <4>3
          <5>2. s[i - 1] = e
            BY <3>2, <5>1 DEF e
          <5> QED BY <3>5, <4>3, <5>1, <5>2
        <4> QED BY <3>5, <4>1, <4>2, <4>3
      <3>9. Right(t, p)
        BY <3>2, <3>5, <3>7, <3>8 DEF e
      <3> QED BY <3>9 DEF t
    <2> QED BY <2>1, <2>2
  <1> HIDE DEF S
  <1>10. n \in S
    BY <1>8, <1>9, Induction
  <1>11. Right(out, n)
    <2>1. n \in 0..n /\ n <= n
      OBVIOUS
    <2> QED BY <1>1, <1>10, <2>1 DEF S
  <1>12. out \in Seq(Link) /\ Last(out) = out[Len(out)] /\ DOMAIN out = 1..Len(out)
    BY <1>11 DEF Last, Right
  <1> QED BY <1>11, <1>12 DEF Right

\* An operation on words or hashes has the exact result.
LEMMA NumbersStep ==
  ASSUME NumbersAssumption, NumbersAreExact, [A!Next]_A!vars
  PROVE  NumbersAreExact'
  <1>1. CASE UNCHANGED result
    BY <1>1 DEF NumbersAreExact, A!NumbersAreExact
  <1>2. CASE A!Mix
    <2>1. PICK al \in 0..A!Word - 1, bl \in 0..A!Word - 1, ah \in Uppers, bh \in Uppers :
            LET r == A!fBlaMka(al, ah, bl, bh)
            IN result' = [op |-> "mix", in |-> <<al + ah * A!Word, bl + bh * A!Word>>,
                          out |-> <<r.lo + r.hi * A!Word>>]
      BY <1>2 DEF A!Mix
    <2>2. ah \in 0..A!Word - 1 /\ bh \in 0..A!Word - 1
      BY DEF NumbersAssumption, A!Word
    <2> PICK a : a = al + ah * A!Word
      OBVIOUS
    <2> PICK b : b = bl + bh * A!Word
      OBVIOUS
    <2> PICK r : r = A!fBlaMka(al, ah, bl, bh)
      OBVIOUS
    <2>3. r.lo + r.hi * A!Word = (a + b + 2 * (a % A!Word) * (b % A!Word)) % (A!Word * A!Word)
      BY <2>2, Mixed
    <2> PICK c : c = r.lo + r.hi * A!Word
      OBVIOUS
    <2>4. result' = [op |-> "mix", in |-> <<a, b>>, out |-> <<c>>]
      BY <2>1
    <2>5. /\ result'.op = "mix" /\ result'.in[1] = a /\ result'.in[2] = b /\ result'.out[1] = c
      BY <2>4
    <2> QED BY <2>3, <2>5 DEF NumbersAreExact, A!NumbersAreExact
  <1>3. CASE A!Square
    <2>1. PICK a \in 0..A!Word - 1 : result' = [op |-> "square", in |-> <<a>>, out |-> <<A!umulHi(a)>>]
      BY <1>3 DEF A!Square
    <2>2. result'.op = "square" /\ result'.in[1] = a /\ result'.out[1] = A!umulHi(a)
      BY <2>1
    <2>3. A!umulHi(a) = (a * a) \div A!Word
      BY Squared
    <2> QED BY <2>2, <2>3 DEF NumbersAreExact, A!NumbersAreExact
  <1>4. CASE A!Hash
    <2>1. PICK n \in Lengths :
            result' \in {[op |-> "blocks", in |-> <<n>>, out |-> A!blake2b(n)],
                         [op |-> "hash", in |-> <<n>>, out |-> A!hPrime(n)]}
      BY <1>4 DEF A!Hash
    <2>2. n \in Nat
      BY DEF NumbersAssumption
    <2>3. CASE result' = [op |-> "blocks", in |-> <<n>>, out |-> A!blake2b(n)]
      <3> PICK out : out = A!blake2b(n)
        OBVIOUS
      <3>1. result'.op = "blocks" /\ result'.in[1] = n /\ result'.out = out
        BY <2>3
      <3>2. \A i \in DOMAIN out :
              /\ out[i].last <=> i = Len(out)
              /\ out[i].tLo + out[i].tHi * A!Word = IF i * 2 * Digest < n THEN i * 2 * Digest ELSE n
              /\ i > 1 => (i - 1) * 2 * Digest < n
        BY <2>2, Counters
      <3> QED BY <3>1, <3>2 DEF NumbersAreExact, A!NumbersAreExact
    <2>4. CASE result' = [op |-> "hash", in |-> <<n>>, out |-> A!hPrime(n)]
      <3> PICK out : out = A!hPrime(n)
        OBVIOUS
      <3>1. result'.op = "hash" /\ result'.in[1] = n /\ result'.out = out
        BY <2>4
      <3>2. /\ (Len(out) - 1) * (Digest \div 2) + Last(out).take = n
            /\ \A i \in DOMAIN out :
                 IF i = Len(out) THEN out[i].take = out[i].of /\ out[i].of <= Digest
                 ELSE out[i] = [take |-> Digest \div 2, of |-> Digest]
        BY <2>2, Pieces DEF Half
      <3>3. Last(out) = A!Last(out)
        BY DEF Last, A!Last
      <3> QED BY <3>1, <3>2, <3>3 DEF NumbersAreExact, A!NumbersAreExact
    <2> QED BY <2>1, <2>3, <2>4
  <1>5. A!Next => UNCHANGED result \/ A!Mix \/ A!Square \/ A!Hash
    BY DEF A!Next, A!argon2, A!Skip
  <1> QED BY <1>1, <1>2, <1>3, <1>4, <1>5 DEF A!vars

\* What argon2 computes on limbs, blake2b on the words of a counter and
\* hPrime on the pieces of a hash is what it would be on integers of any
\* length, for limbs of any even size and digests of any even length.
THEOREM Numbers == A!Spec => []NumbersAreExact
  <1>1. NumbersAssumption
    BY FormatsAssumption
  <1>2. A!Init => NumbersAreExact
    BY DEF A!Init, NumbersAreExact, A!NumbersAreExact
  <1>3. NumbersAreExact /\ [A!Next]_A!vars => NumbersAreExact'
    BY <1>1, NumbersStep
  <1> QED BY <1>2, <1>3, PTL DEF A!Spec

-----------------------------------------------------------------------------
(* The memory of Argon2: where its loops are, and what they have computed *)

\* The unit of the loops, the length of a segment.
U == A!segLen

\* What a, a position of the loops, has before it: nothing in the first two
\* blocks of a lane, which are there from the start, then slice by slice.
Reached(a, l, b) ==
  \/ a.pass > 0 \/ b < 2 \/ b < a.slice * U
  \/ l < a.lane /\ b < (a.slice + 1) * U
  \/ l = a.lane /\ b < a.slice * U + a.idx

Lanes == 0..par.lanes - 1
Positions == 0..A!q - 1

PlaceOK ==
  /\ at \in [pass : Nat, slice : 0..3, lane : Lanes, idx : Nat]
  /\ A!startIdx <= at.idx /\ at.idx <= U

MemoryOK ==
  /\ written \in [Lanes -> [Positions -> Nat]]
  /\ \A l \in Lanes, b \in Positions : Reached(at, l, b) => written[l][b] >= 1

\* While addresses are used, those of the block before are at hand.
AddressesOK ==
  A!dataIndependent /\ at.idx > A!startIdx => addrCounter = (at.idx - 1) \div AddrWords + 1

MemInv == par \in Params /\ PlaceOK /\ MemoryOK /\ AddressesOK /\ RefersAsPrescribed

\* A lane has four segments of at least two blocks.
LEMMA Layout ==
  ASSUME MemoryAssumption, par \in Params
  PROVE  /\ U \in Nat /\ U >= 2 /\ A!q = 4 * U
         /\ par.lanes \in Nat /\ par.lanes > 0 /\ par.passes \in Nat /\ par.variant \in 0..2
  <1>1. /\ par.lanes \in Nat /\ par.lanes > 0 /\ par.memKiB \in Nat /\ par.passes \in Nat
        /\ par.variant \in 0..2
    BY DEF MemoryAssumption
  <1> PICK l \in Nat : l = par.lanes /\ l > 0
    BY <1>1
  <1>2. 4 * l \in Nat /\ 4 * l > 0
    OBVIOUS
  <1>3. par.memKiB \div (4 * l) \in Nat
    BY <1>1, <1>2, Division
  <1> PICK u \in Nat : u = par.memKiB \div (4 * l)
    BY <1>3
  <1>4. A!mPrime = IF 4 * l * u < 8 * l THEN 8 * l ELSE 4 * l * u
    BY DEF A!mPrime
  <1>5. 4 * l * u = (4 * u) * l + 0 /\ 8 * l = 8 * l + 0
    OBVIOUS
  <1>6. A!q = A!mPrime \div l
    BY DEF A!q
  <1>7. U = A!q \div 4
    BY DEF U, A!segLen
  <1>8. CASE 4 * l * u < 8 * l
    <2>1. A!mPrime = 8 * l + 0
      BY <1>4, <1>8
    <2>2. A!q = 8
      BY <1>6, <2>1, Quotient
    <2> QED BY <1>1, <1>7, <2>2
  <1>9. CASE ~ 4 * l * u < 8 * l
    <2>1. A!mPrime = (4 * u) * l + 0
      BY <1>4, <1>5, <1>9
    <2>2. ((4 * u) * l + 0) \div l = 4 * u
      BY Quotient
    <2>3. A!q = 4 * u
      BY <1>6, <2>1, <2>2
    <2>4. u >= 2
      <3> SUFFICES ASSUME u = 0 \/ u = 1 PROVE FALSE
        OBVIOUS
      <3> QED BY <1>9
    <2> QED BY <1>1, <1>7, <2>3, <2>4
  <1> QED BY <1>8, <1>9

\* The loops go through the blocks in the order in which Reached grows.
LEMMA Advance ==
  ASSUME MemoryAssumption, par \in Params, PlaceOK, UNCHANGED par, at' = A!Turn
  PROVE  /\ PlaceOK'
         /\ \A l \in Lanes, b \in Positions : Reached(at', l, b) =>
              \/ Reached(at, l, b)
              \/ l = at.lane /\ b = A!curIdx /\ at.idx < U
  <1>1. U \in Nat /\ U >= 2 /\ A!q = 4 * U /\ par.lanes \in Nat /\ par.lanes > 0
    BY Layout
  <1>2. U' = U /\ A!q' = A!q /\ Lanes' = Lanes
    BY DEF U, A!segLen, A!q, A!mPrime, Lanes
  <1> PICK s \in 0..3 : s = at.slice
    BY DEF PlaceOK
  <1> PICK e \in Nat : e = at.lane /\ e < par.lanes
    BY <1>1 DEF PlaceOK, Lanes
  <1> PICK x \in Nat : x = at.idx /\ x <= U
    BY DEF PlaceOK
  <1> PICK p \in Nat : p = at.pass
    BY DEF PlaceOK
  <1>3. at = [pass |-> p, slice |-> s, lane |-> e, idx |-> x]
    BY DEF PlaceOK
  <1>10. PICK sm \in Nat : sm = s * U
    BY <1>1
  <1>0. ASSUME NEW b \in Nat, b < sm + U, x + 1 >= U
        PROVE  b < sm + x \/ (b = sm + x /\ x < U)
    BY <1>0, <1>1
  <1>4. /\ (s + 1) * U = sm + U /\ s * U = sm /\ sm \in Nat /\ A!curIdx = sm + x
        /\ s = 3 => (s + 1) * U = A!q
    BY <1>1, <1>10 DEF A!curIdx, U
  <1> DEFINE Here(l, b) == l = e /\ b = sm + x /\ x < U
             R(a) == \A l \in Lanes, b \in Positions : Reached(a, l, b) => Reached(at, l, b) \/ Here(l, b)
             Placed(a) == /\ a \in [pass : Nat, slice : 0..3, lane : Lanes, idx : Nat]
                          /\ (IF a.pass = 0 /\ a.slice = 0 THEN 2 ELSE 0) <= a.idx /\ a.idx <= U
  <1>5. CASE x + 1 < U
    <2>1. at' = [pass |-> p, slice |-> s, lane |-> e, idx |-> x + 1]
      BY <1>3, <1>5 DEF A!Turn, U
    <2>2. R(at')
      <3> SUFFICES ASSUME NEW l \in Lanes, NEW b \in Positions, Reached(at', l, b)
                   PROVE  Reached(at, l, b) \/ Here(l, b)
        OBVIOUS
      <3>1. \/ p > 0 \/ b < 2 \/ b < sm \/ (l < e /\ b < (s + 1) * U)
            \/ (l = e /\ b < sm + (x + 1))
        BY <1>4, <2>1 DEF Reached
      <3>2. b < sm + (x + 1) => b < sm + x \/ b = sm + x
        BY <1>1 DEF Positions
      <3>3. x < U
        BY <1>1, <1>5
      <3> QED BY <1>3, <1>4, <3>1, <3>2, <3>3 DEF Reached
    <2>3. Placed(at')
      BY <1>1, <1>5, <2>1 DEF PlaceOK, A!startIdx, A!First
    <2> QED BY <1>2, <1>4, <2>2, <2>3 DEF PlaceOK, A!startIdx, A!First
  <1>6. CASE x + 1 >= U /\ e + 1 # par.lanes
    <2> DEFINE x2 == IF p = 0 /\ s = 0 THEN 2 ELSE 0
    <2>1. at' = [pass |-> p, slice |-> s, lane |-> e + 1, idx |-> x2]
      BY <1>1, <1>3, <1>6 DEF A!Turn, U
    <2>2. R(at')
      <3> SUFFICES ASSUME NEW l \in Lanes, NEW b \in Positions, Reached(at', l, b)
                   PROVE  Reached(at, l, b) \/ Here(l, b)
        OBVIOUS
      <3>1. p > 0 \/ b < 2 \/ b < sm \/ (l < e + 1 /\ b < (s + 1) * U) \/ b < sm + x2
        BY <1>4, <2>1 DEF Reached
      <3>2. b < sm + x2 => b < 2 \/ b < sm
        BY <1>1, <1>4 DEF Positions
      <3>3. l < e + 1 /\ b < (s + 1) * U => l < e \/ (l = e /\ (b < sm + x \/ (b = sm + x /\ x < U)))
        <4>1. l \in Nat /\ b \in Nat
          BY <1>1 DEF Lanes, Positions
        <4>2. l < e + 1 => l < e \/ l = e
          BY <4>1
        <4>3. b < (s + 1) * U => b < sm + x \/ (b = sm + x /\ x < U)
          BY <1>0, <1>4, <1>6, <4>1
        <4> QED BY <4>2, <4>3
      <3> QED BY <1>3, <1>4, <3>1, <3>2, <3>3 DEF Reached
    <2>3. Placed(at')
      <3>1. e + 1 \in Lanes
        BY <1>1, <1>6 DEF Lanes
      <3> QED BY <1>1, <2>1, <3>1
    <2> QED BY <1>2, <1>4, <2>2, <2>3 DEF PlaceOK, A!startIdx, A!First
  <1>7. CASE x + 1 >= U /\ e + 1 = par.lanes
    <2> DEFINE s2 == (s + 1) % 4
               p2 == IF s = 3 THEN p + 1 ELSE p
    <2>1. at' = [pass |-> p2, slice |-> s2, lane |-> 0, idx |-> IF p2 = 0 /\ s2 = 0 THEN 2 ELSE 0]
      BY <1>1, <1>3, <1>7 DEF A!Turn, U
    <2>2. s2 \in 0..3 /\ p2 \in Nat /\ ~ (p2 = 0 /\ s2 = 0) /\ (s # 3 => s2 = s + 1)
      OBVIOUS
    <2> HIDE DEF s2, p2
    <2>3. R(at')
      <3> SUFFICES ASSUME NEW l \in Lanes, NEW b \in Positions, Reached(at', l, b)
                   PROVE  Reached(at, l, b) \/ Here(l, b)
        OBVIOUS
      <3>1. p2 > 0 \/ b < 2 \/ b < s2 * U \/ (l < 0 /\ b < (s2 + 1) * U) \/ (l = 0 /\ b < s2 * U + 0)
        BY <2>1, <2>2 DEF Reached
      <3>2. l \in Nat /\ b \in Nat /\ l < e + 1
        BY <1>1, <1>7 DEF Lanes, Positions
      <3>3. s2 * U + 0 = s2 * U
        BY <1>1, <2>2
      <3>4. p > 0 \/ b < 2 \/ b < (s + 1) * U
        <4>1. CASE s = 3
          BY <1>1, <1>4, <4>1 DEF Positions
        <4>2. CASE s # 3
          BY <2>2, <3>1, <3>2, <3>3, <4>2 DEF p2
        <4> QED BY <4>1, <4>2
      <3>5. l < e \/ l = e
        BY <3>2
      <3>6. b < (s + 1) * U => b < sm + x \/ (b = sm + x /\ x < U)
        BY <1>0, <1>4, <1>7, <3>2
      <3> QED BY <1>3, <1>4, <3>4, <3>5, <3>6 DEF Reached
    <2>4. Placed(at')
      BY <1>1, <2>1, <2>2 DEF Lanes
    <2> QED BY <1>2, <1>4, <2>3, <2>4 DEF PlaceOK, A!startIdx, A!First
  <1>8. x + 1 < U \/ x + 1 >= U
    BY <1>1
  <1> QED BY <1>5, <1>6, <1>7, <1>8

LEMMA Joins ==
  ASSUME NEW S, NEW s \in Seq(S), NEW t \in Seq(S)
  PROVE  /\ s \o t \in Seq(S) /\ Len(s \o t) = Len(s) + Len(t)
         /\ \A i \in 1..Len(s) : (s \o t)[i] = s[i]
         /\ \A i \in 1..Len(t) : (s \o t)[Len(s) + i] = t[i]
  OBVIOUS

\* Sequences of the same length, end to end.
LEMMA FlattenSegments ==
  ASSUME NEW S, NEW ss \in Seq(Seq(S)), NEW n \in Nat, \A i \in 1..Len(ss) : Len(ss[i]) = n
  PROVE  /\ FlattenSeq(ss) \in Seq(S) /\ Len(FlattenSeq(ss)) = Len(ss) * n
         /\ \A i \in Nat, j \in 1..n : i < Len(ss) => FlattenSeq(ss)[i * n + j] = ss[i + 1][j]
  <1>1. PICK g : Sums(g, ss, S) /\ FlattenSeq(ss) = g[Len(ss)]
    BY SumsExist
  <1> PICK l \in Nat : l = Len(ss)
    OBVIOUS
  <1>2. /\ g \in [0..l -> Seq(S)] /\ g[0] = <<>> /\ \A i \in 1..l : g[i] = g[i - 1] \o ss[i]
        /\ \A i \in 1..l : ss[i] \in Seq(S) /\ Len(ss[i]) = n
    <2>1. \A i \in 1..l : ss[i] \in Seq(S)
      OBVIOUS
    <2> QED BY <1>1, <2>1 DEF Sums
  <1> DEFINE Filled(k) == /\ Len(g[k]) = k * n
                          /\ \A i \in Nat, j \in 1..n : i < k => g[k][i * n + j] = ss[i + 1][j]
             T == {k \in Nat : k <= l => Filled(k)}
  <1>3. 0 \in T
    <2>1. g[0] = <<>> /\ 0 * n = 0
      BY <1>2
    <2> QED BY <2>1
  <1>4. ASSUME NEW k \in Nat, k \in T PROVE k + 1 \in T
    <2> HIDE DEF Filled
    <2>1. SUFFICES ASSUME k + 1 <= l PROVE Filled(k + 1)
      OBVIOUS
    <2>2. Filled(k)
      <3>1. k <= l
        BY <2>1
      <3> QED BY <1>4, <3>1
    <2> PICK h : h = k + 1
      OBVIOUS
    <2>3. h \in 1..l /\ h - 1 = k /\ k \in 0..l /\ h \in Nat
      BY <2>1
    <2>4. g[h] = g[k] \o ss[h]
      BY <1>2, <2>3
    <2>5. g[k] \in Seq(S) /\ ss[h] \in Seq(S) /\ Len(ss[h]) = n
      BY <1>2, <2>3
    <2> PICK a \in Nat : a = k * n
      OBVIOUS
    <2>6. h * n = a + n
      <3>1. (k + 1) * n = k * n + n
        OBVIOUS
      <3> QED BY <3>1
    <2>7. Len(g[k]) = a
      BY <2>2 DEF Filled
    <2>8. Len(g[h]) = a + n
      <3>1. Len(g[k] \o ss[h]) = Len(g[k]) + Len(ss[h])
        BY <2>5, Joins
      <3> QED BY <2>4, <2>5, <2>7, <3>1
    <2>9. ASSUME NEW i \in Nat, NEW j \in 1..n, i < h PROVE g[h][i * n + j] = ss[i + 1][j]
      <3>1. CASE i = k
        <4>1. g[h][a + j] = ss[h][j]
          <5>1. (g[k] \o ss[h])[Len(g[k]) + j] = ss[h][j]
            <6>1. j \in 1..Len(ss[h])
              BY <2>5
            <6>2. \A u \in 1..Len(ss[h]) : (g[k] \o ss[h])[Len(g[k]) + u] = ss[h][u]
              <7>1. \A x \in Seq(S), y \in Seq(S) :
                      \A u \in 1..Len(y) : (x \o y)[Len(x) + u] = y[u]
                BY Joins
              <7> QED BY <2>5, <7>1, Zenon
            <6> QED BY <6>1, <6>2, Zenon
          <5> QED BY <2>4, <2>7, <5>1
        <4> QED BY <3>1, <4>1
      <3>2. CASE i + 1 <= k
        <4>1. PICK b \in Nat : b = i * n
          OBVIOUS
        <4>2. (i + 1) * n <= k * n
          BY <3>2, Times
        <4>3. (i + 1) * n = i * n + n
          OBVIOUS
        <4>4. b + n <= a
          BY <4>1, <4>2, <4>3
        <4>5. b + j \in 1..Len(g[k])
          BY <2>7, <4>4
        <4>6. g[h][b + j] = g[k][b + j]
          BY <2>4, <2>5, <4>5
        <4>7. g[k][i * n + j] = ss[i + 1][j]
          <5>1. \A x \in Nat, y \in 1..n : x < k => g[k][x * n + y] = ss[x + 1][y]
            BY <2>2, Zenon DEF Filled
          <5>2. i < k
            BY <3>2
          <5> QED BY <5>1, <5>2, Zenon
        <4> QED BY <4>1, <4>6, <4>7
      <3>3. i = k \/ i + 1 <= k
        BY <2>3, <2>9
      <3> QED BY <3>1, <3>2, <3>3
    <2>10. Filled(h)
      BY <2>6, <2>8, <2>9 DEF Filled
    <2> QED BY <2>10
  <1> HIDE DEF T
  <1>5. l \in T
    BY <1>3, <1>4, Induction
  <1>6. Filled(l)
    BY <1>5 DEF T
  <1>7. FlattenSeq(ss) \in Seq(S)
    BY FlattenType
  <1> QED BY <1>1, <1>6, <1>7

\* The finished segments of the last four, oldest first, and then the one in
\* work: its number is that of the slice.
Span(a, i) == IF a.pass = 0 THEN i ELSE (a.slice + 1 + i) % 4
Finished(a) == IF a.pass = 0 THEN a.slice ELSE 3
Oldest(a) == IF a.pass = 0 THEN 0 ELSE ((a.slice + 1) % 4) * U

LEMMA SpanOf ==
  ASSUME PlaceOK
  PROVE  /\ Finished(at) \in 0..3 /\ Span(at, Finished(at)) = at.slice
         /\ \A i \in 0..Finished(at) : Span(at, i) \in 0..3
         /\ \A i \in 0..Finished(at) : i # Finished(at) => Span(at, i) # at.slice
         /\ at.pass = 0 => \A i \in 0..Finished(at) : Span(at, i) = i
         /\ at.pass # 0 => \A i \in 0..3 :
              ((at.slice + 1) % 4) + i = Span(at, i) \/ ((at.slice + 1) % 4) + i = 4 + Span(at, i)
  <1>1. at.slice \in 0..3
    BY DEF PlaceOK
  <1>2. CASE at.pass = 0
    BY <1>1, <1>2 DEF Span, Finished
  <1>3. CASE at.pass # 0
    <2>1. \A n \in 0..7 : n % 4 = IF n < 4 THEN n ELSE n - 4
      OBVIOUS
    <2> PICK s \in 0..3 : s = at.slice
      BY <1>1
    <2>2. ASSUME NEW i \in 0..3
          PROVE  /\ Span(at, i) \in 0..3 /\ (i # 3 => Span(at, i) # s) /\ Span(at, 3) = s
                 /\ \/ ((s + 1) % 4) + i = Span(at, i)
                    \/ ((s + 1) % 4) + i = 4 + Span(at, i)
      <3>1. Span(at, i) = (s + 1 + i) % 4 /\ Span(at, 3) = (s + 1 + 3) % 4
        BY <1>3 DEF Span
      <3>2. s + 1 + i \in 0..7 /\ s + 1 + 3 \in 0..7 /\ s + 1 \in 0..7
        OBVIOUS
      <3>3. Span(at, i) = IF s + 1 + i < 4 THEN s + 1 + i ELSE s + 1 + i - 4
        <4> PICK n \in 0..7 : n = s + 1 + i
          BY <3>2
        <4>1. n % 4 = IF n < 4 THEN n ELSE n - 4
          BY <2>1
        <4> QED BY <3>1, <4>1
      <3>4. Span(at, 3) = s
        BY <2>1, <3>1, <3>2
      <3>5. (s + 1) % 4 = IF s + 1 < 4 THEN s + 1 ELSE s + 1 - 4
        BY <2>1, <3>2
      <3> QED BY <3>3, <3>4, <3>5
    <2>3. Finished(at) = 3
      BY <1>3 DEF Finished
    <2>4. 3 \in 0..3 /\ at.pass # 0
      BY <1>3
    <2> HIDE DEF Span, Finished
    <2> QED BY <2>2, <2>3, <2>4
  <1> QED BY <1>2, <1>3

\* Counted from the start, the k-th block is in its segment.
LEMMA BlockOf ==
  ASSUME MemoryAssumption, par \in Params, PlaceOK, NEW i \in 0..Finished(at), NEW j \in 1..U
  PROVE  /\ (Oldest(at) + (i * U + j) - 1) % A!q = Span(at, i) * U + j - 1
         /\ Span(at, i) * U + j - 1 \in Positions
  <1>1. U \in Nat /\ U >= 2 /\ A!q = 4 * U
    BY Layout
  <1>2. PICK t \in 0..3 : t = Span(at, i)
    BY SpanOf
  <1>3. t * U + j - 1 \in Nat /\ t * U + j - 1 < 4 * U
    <2>1. t = 0 \/ t = 1 \/ t = 2 \/ t = 3
      BY <1>2
    <2>2. j \in Nat /\ j >= 1 /\ j <= U
      BY <1>1
    <2> QED BY <1>1, <2>1, <2>2
  <1>4. i \in 0..3
    BY SpanOf
  <1>5. CASE at.pass = 0
    <2>1. t = i /\ Oldest(at) = 0
      BY <1>2, <1>5, SpanOf DEF Oldest
    <2>2. Oldest(at) + (i * U + j) - 1 = t * U + j - 1
      BY <1>1, <2>1
    <2>3. (t * U + j - 1) % (4 * U) = t * U + j - 1
      <3> PICK r \in Nat : r = t * U + j - 1
        BY <1>3
      <3>1. r % (4 * U) = r
        <4>1. 4 * U \in Nat /\ r < 4 * U
          BY <1>1, <1>3
        <4> QED BY <4>1, Rest
      <3> QED BY <3>1
    <2> QED BY <1>1, <1>2, <1>3, <2>2, <2>3 DEF Positions
  <1>6. CASE at.pass # 0
    <2> PICK u : u = (at.slice + 1) % 4
      OBVIOUS
    <2>1. u \in 0..3 /\ Oldest(at) = u * U /\ (u + i = t \/ u + i = 4 + t)
      <3>1. at.slice \in 0..3
        BY DEF PlaceOK
      <3>2. u \in 0..3
        BY <3>1
      <3> QED BY <1>2, <1>4, <1>6, <3>2, SpanOf DEF Oldest
    <2>2. Oldest(at) + (i * U + j) - 1 = (u + i) * U + j - 1
      BY <1>1, <1>4, <2>1
    <2> PICK r \in Nat : r = t * U + j - 1 /\ r < 4 * U
      BY <1>3
    <2>3. 4 * U \in Nat /\ 4 * U > 0
      BY <1>1
    <2>4. CASE u + i = t
      <3>1. r % (4 * U) = r
        BY <2>3, Rest
      <3> QED BY <1>1, <1>2, <1>3, <2>2, <2>4, <3>1 DEF Positions
    <2>5. CASE u + i = 4 + t
      <3>1. (u + i) * U + j - 1 = 1 * (4 * U) + r
        BY <1>1, <1>2, <2>5
      <3>2. (1 * (4 * U) + r) % (4 * U) = r
        BY <2>3, Quotient
      <3> QED BY <1>1, <1>2, <1>3, <2>2, <3>1, <3>2 DEF Positions
    <2> QED BY <2>1, <2>4, <2>5
  <1> QED BY <1>5, <1>6

LEMMA Prefix ==
  ASSUME NEW g \in Seq(Nat), NEW x \in 0..Len(g)
  PROVE  /\ SubSeq(g, 1, x) \in Seq(Nat) /\ Len(SubSeq(g, 1, x)) = x
         /\ \A j \in 1..x : SubSeq(g, 1, x)[j] = g[j]
  OBVIOUS

LEMMA SegmentIs ==
  ASSUME MemoryAssumption, par \in Params, NEW t \in 0..3
  PROVE  /\ A!Segment(t) \in Seq(Nat) /\ Len(A!Segment(t)) = U
         /\ \A j \in 1..U : A!Segment(t)[j] = t * U + j - 1
  <1>1. U \in Nat
    BY Layout
  <1>2. A!Segment(t) = [j \in 1..U |-> t * U + j - 1]
    BY DEF A!Segment, U
  <1>3. \A j \in 1..U : t * U + j - 1 \in Nat
    <2> PICK n \in Nat : n = t * U
      BY <1>1
    <2>1. \A j \in 1..U : n + j - 1 \in Nat
      BY <1>1
    <2> QED BY <2>1
  <1> QED BY <1>1, <1>2, <1>3

\* The blocks before at in a lane, its own or another: those of the finished
\* segments, then those of the segment in work, in its lane.
Earlier(same) ==
  LET fin == IF at.pass = 0 THEN [s \in 1..at.slice |-> s - 1]
             ELSE [s \in 1..3 |-> (at.slice + s) % 4]
  IN A!FlattenSeq([i \in DOMAIN fin |-> A!Segment(fin[i])])
     \o (IF same THEN SubSeq(A!Segment(at.slice), 1, at.idx) ELSE <<>>)

InOrder(all, same, c, o) ==
  /\ all \in Seq(Nat) /\ Len(all) = c * U + o
  /\ \A k \in 1..c * U + o : \E i \in 0..c, j \in 1..U :
       /\ k = i * U + j /\ all[k] = Span(at, i) * U + j - 1
       /\ i = c => same /\ j <= at.idx

LEMMA Before ==
  ASSUME MemoryAssumption, par \in Params, PlaceOK, NEW same \in BOOLEAN,
         NEW c, c = Finished(at), NEW o, o = IF same THEN at.idx ELSE 0
  PROVE  InOrder(Earlier(same), same, c, o)
  <1> PICK fin : fin = IF at.pass = 0 THEN [s \in 1..at.slice |-> s - 1]
                       ELSE [s \in 1..3 |-> (at.slice + s) % 4]
    OBVIOUS
  <1> PICK all : all = Earlier(same)
    OBVIOUS
  <1>1. U \in Nat /\ U >= 2
    BY Layout
  <1>2. at.slice \in 0..3 /\ at.idx \in 0..U /\ c \in 0..3
    BY <1>1, SpanOf DEF PlaceOK
  <1> DEFINE ss == [i \in DOMAIN fin |-> A!Segment(fin[i])]
  <1>3. DOMAIN fin = 1..c /\ \A i \in 1..c : fin[i] = Span(at, i - 1) /\ fin[i] \in 0..3
    <2>1. CASE at.pass = 0
      <3>1. \A i \in 1..c : i - 1 \in 0..3 /\ Span(at, i - 1) = i - 1
        BY <1>2, <2>1 DEF Span
      <3> QED BY <1>2, <2>1, <3>1 DEF Finished
    <2>2. CASE at.pass # 0
      <3>1. c = 3 /\ fin = [s \in 1..3 |-> (at.slice + s) % 4]
        BY <2>2 DEF Finished
      <3>2. ASSUME NEW i \in 1..3 PROVE fin[i] = Span(at, i - 1) /\ fin[i] \in 0..3
        <4>1. at.slice + 1 + (i - 1) = at.slice + i
          BY <1>2
        <4>2. Span(at, i - 1) = (at.slice + i) % 4
          BY <2>2, <4>1 DEF Span
        <4>3. i - 1 \in 0..c
          BY <3>1
        <4>4. Span(at, i - 1) \in 0..3
          BY <4>3, SpanOf
        <4> QED BY <3>1, <4>2, <4>4
      <3> QED BY <3>1, <3>2
    <2> QED BY <2>1, <2>2
  <1>4. ss \in Seq(Seq(Nat)) /\ Len(ss) = c /\ \A i \in 1..c : ss[i] = A!Segment(Span(at, i - 1)) /\ Len(ss[i]) = U
    <2>1. \A i \in 1..c : A!Segment(fin[i]) \in Seq(Nat) /\ Len(A!Segment(fin[i])) = U
      BY <1>3, SegmentIs
    <2>2. c \in Nat
      BY <1>2
    <2>3. ss = [i \in 1..c |-> A!Segment(fin[i])]
      BY <1>3
    <2> HIDE DEF ss
    <2>4. \A i \in 1..c : ss[i] \in Seq(Nat) /\ Len(ss[i]) = U /\ ss[i] = A!Segment(fin[i])
      BY <2>1, <2>3
    <2>5. DOMAIN ss = 1..c /\ ss \in [1..c -> Seq(Nat)]
      BY <2>1, <2>3
    <2>6. ss \in Seq(Seq(Nat)) /\ Len(ss) = c
      BY <2>2, <2>5
    <2> QED BY <1>3, <2>4, <2>6
  <1> HIDE DEF ss
  <1> DEFINE F == FlattenSeq(ss)
             own == IF same THEN SubSeq(A!Segment(at.slice), 1, at.idx) ELSE <<>>
  <1>5. all = F \o own
    <2>1. A!FlattenSeq(ss) = FlattenSeq(ss)
      BY Zenon DEF A!FlattenSeq, FlattenSeq
    <2>2. all = A!FlattenSeq(ss) \o own
      BY DEF Earlier, ss
    <2> QED BY <2>1, <2>2
  <1>6. F \in Seq(Nat) /\ Len(F) = c * U
        /\ \A i \in Nat, j \in 1..U : i < c => F[i * U + j] = ss[i + 1][j]
    <2>1. \A i \in 1..Len(ss) : Len(ss[i]) = U
      BY <1>4
    <2>2. U \in Nat /\ ss \in Seq(Seq(Nat))
      BY <1>1, <1>4
    <2>3. /\ FlattenSeq(ss) \in Seq(Nat) /\ Len(FlattenSeq(ss)) = Len(ss) * U
          /\ \A i \in Nat, j \in 1..U : i < Len(ss) => FlattenSeq(ss)[i * U + j] = ss[i + 1][j]
      BY ONLY <2>1, <2>2, FlattenSegments
    <2>4. Len(ss) = c
      BY <1>4
    <2> QED BY <2>3, <2>4
  <1>7. own \in Seq(Nat) /\ Len(own) = o /\ o \in 0..U
        /\ \A j \in 1..o : own[j] = at.slice * U + j - 1
    <2>1. /\ A!Segment(at.slice) \in Seq(Nat) /\ Len(A!Segment(at.slice)) = U
          /\ \A j \in 1..U : A!Segment(at.slice)[j] = at.slice * U + j - 1
      BY <1>2, SegmentIs
    <2>2. CASE same
      <3> PICK g \in Seq(Nat) : g = A!Segment(at.slice)
        BY <2>1
      <3> PICK x \in 0..U : x = at.idx
        BY <1>2
      <3>1. x \in 0..Len(g) /\ Len(g) = U
        BY <2>1
      <3>2. SubSeq(g, 1, x) \in Seq(Nat) /\ Len(SubSeq(g, 1, x)) = x
            /\ \A j \in 1..x : SubSeq(g, 1, x)[j] = g[j]
        BY ONLY <3>1, Prefix, g \in Seq(Nat)
      <3>3. own = SubSeq(g, 1, x) /\ o = x
        BY <2>2
      <3>4. \A j \in 1..x : j \in 1..U
        BY <1>1
      <3>5. x \in 0..U
        OBVIOUS
      <3> HIDE DEF own
      <3> QED BY <2>1, <3>2, <3>3, <3>4, <3>5
    <2>3. CASE ~ same
      BY <1>1, <2>3
    <2> QED BY <2>2, <2>3
  <1> HIDE DEF F, own
  <1>8. all \in Seq(Nat) /\ Len(all) = c * U + o
        /\ (\A k \in 1..c * U : all[k] = F[k]) /\ (\A j \in 1..o : all[c * U + j] = own[j])
    <2>1. /\ F \o own \in Seq(Nat) /\ Len(F \o own) = Len(F) + Len(own)
          /\ \A k \in 1..Len(F) : (F \o own)[k] = F[k]
          /\ \A j \in 1..Len(own) : (F \o own)[Len(F) + j] = own[j]
      <3>1. F \in Seq(Nat) /\ own \in Seq(Nat)
        BY <1>6, <1>7
      <3> QED BY ONLY <3>1, Joins
    <2>2. Len(F) = c * U /\ Len(own) = o
      BY <1>6, <1>7
    <2> PICK cm : cm = c * U
      OBVIOUS
    <2> QED BY <1>5, <2>1, <2>2
  <1>9. ASSUME NEW k \in 1..c * U + o
        PROVE  \E i \in 0..c, j \in 1..U :
                 /\ k = i * U + j /\ all[k] = Span(at, i) * U + j - 1
                 /\ i = c => same /\ j <= at.idx
    <2>0. PICK cm \in Nat : cm = c * U
      BY <1>1, <1>2
    <2>3. k \in Nat /\ k >= 1 /\ k <= cm + o
      BY <1>7, <2>0
    <2>1. CASE k > cm
      <3>1. PICK j \in 1..o : k = cm + j
        <4>1. k - cm \in 1..o /\ k = cm + (k - cm)
          BY <1>7, <2>0, <2>1, <2>3
        <4> QED BY <4>1
      <3>2. all[k] = own[j]
        BY <1>8, <2>0, <3>1
      <3>3. all[k] = at.slice * U + j - 1
        BY <1>7, <3>1, <3>2
      <3>4. o # 0 /\ j \in 1..U
        BY <1>1, <1>7, <3>1
      <3>5. same /\ j <= at.idx
        <4>1. same /\ o = at.idx
          BY <3>4
        <4> QED BY <1>2, <3>1, <4>1
      <3>6. Span(at, c) = at.slice /\ c \in 0..c
        BY <1>2, SpanOf
      <3>7. k = c * U + j
        BY <2>0, <3>1
      <3> QED BY <3>3, <3>4, <3>5, <3>6, <3>7
    <2>2. CASE k <= cm
      <3>0. PICK n \in Nat : k = n + 1
        <4>1. k - 1 \in Nat /\ k = (k - 1) + 1
          BY <2>3
        <4> QED BY <4>1
      <3>1. PICK i \in Nat, r \in Nat : i = n \div U /\ r = n % U /\ r < U /\ n = i * U + r
        <4>1. n \in Nat /\ U \in Nat /\ U > 0
          BY <1>1
        <4> QED BY <4>1, Divided
      <3>2. PICK j \in Nat : j = r + 1
        OBVIOUS
      <3>10. PICK im \in Nat : im = i * U
        BY <1>1
      <3>11. j \in 1..U /\ k = im + j
        BY <1>1, <3>0, <3>1, <3>2, <3>10
      <3>3. i < c
        <4> SUFFICES ASSUME c <= i PROVE FALSE
          BY <1>2
        <4>1. c \in Nat
          BY <1>2
        <4>2. cm <= im
          <5>1. c * U <= i * U
            BY <1>1, <4>1, Times
          <5> QED BY <2>0, <3>10, <5>1
        <4> QED BY <2>2, <3>11, <4>2
      <3>4. F[i * U + j] = ss[i + 1][j]
        BY <1>6, <3>11, <3>3
      <3>12. k = i * U + j
        BY <3>10, <3>11
      <3>5. i + 1 \in 1..c /\ (i + 1) - 1 = i /\ i \in 0..c /\ i # c
        BY <1>2, <3>3
      <3>6. ss[i + 1] = A!Segment(Span(at, i))
        <4> PICK h : h = i + 1
          OBVIOUS
        <4>1. h \in 1..c /\ h - 1 = i
          BY <3>5
        <4> QED BY <1>4, <4>1
      <3>7. Span(at, i) \in 0..3
        BY <3>5, SpanOf
      <3>8. F[k] = Span(at, i) * U + j - 1
        <4>1. A!Segment(Span(at, i))[j] = Span(at, i) * U + j - 1
          BY <3>7, <3>11, SegmentIs
        <4> QED BY <3>4, <3>6, <3>12, <4>1
      <3>9. all[k] = F[k]
        <4>1. k \in 1..cm
          BY <2>2, <2>3
        <4> QED BY <1>8, <2>0, <4>1
      <3>13. all[k] = Span(at, i) * U + j - 1
        BY <3>8, <3>9
      <3>14. i \in 0..c /\ j \in 1..U /\ (i = c => same /\ j <= at.idx)
        BY <3>5, <3>11
      <3> QED BY <3>12, <3>13, <3>14, Zenon
    <2>4. k > cm \/ k <= cm
      BY <2>0, <2>3
    <2> QED BY <2>1, <2>2, <2>4, Zenon
  <1> QED BY <1>8, <1>9 DEF InOrder

\* Without its last block a sequence keeps the others.
LEMMA AllButLast ==
  ASSUME NEW s \in Seq(Nat), Len(s) >= 1
  PROVE  /\ A!Front(s) \in Seq(Nat) /\ Len(A!Front(s)) = Len(s) - 1
         /\ \A k \in 1..Len(s) - 1 : A!Front(s)[k] = s[k]
  <1>1. A!Front(s) = SubSeq(s, 1, Len(s) - 1)
    BY DEF A!Front
  <1>2. Len(s) - 1 \in 0..Len(s)
    OBVIOUS
  <1> QED BY <1>1, <1>2, Prefix

\* refArea counts the blocks of the window: those of the finished segments,
\* and in its own lane those before at, but one.
LEMMA AreaIs ==
  ASSUME MemoryAssumption, par \in Params, PlaceOK, A!Computing, NEW same \in BOOLEAN,
         A!First => same,
         NEW c, c = Finished(at), NEW o, o = IF same THEN at.idx ELSE 0
  PROVE  /\ A!refArea(same) = (IF same \/ at.idx = 0 THEN c * U + o - 1 ELSE c * U + o)
         /\ A!refArea(same) \in Nat /\ A!refArea(same) >= 1 /\ c * U + o \in Nat
         /\ A!refArea(same) <= A!q
  <1>1. U \in Nat /\ U >= 2 /\ A!q = 4 * U
    BY Layout
  <1>2. PICK x \in Nat : x = at.idx /\ x < U /\ A!startIdx <= x
    BY <1>1 DEF PlaceOK, A!Computing, U
  <1>3. PICK s \in 0..3 : s = at.slice
    BY DEF PlaceOK
  <1>4. CASE at.pass = 0
    <2>1. c = s
      BY <1>3, <1>4 DEF Finished
    <2>2. A!refArea(same) = CASE s = 0 -> x - 1
                              [] s # 0 /\ same -> s * U + x - 1
                              [] OTHER -> s * U + (IF x = 0 THEN -1 ELSE 0)
      BY <1>2, <1>3, <1>4 DEF A!refArea, U
    <2>3. CASE s = 0
      <3>1. same /\ x >= 2
        BY <1>2, <1>3, <1>4, <2>3 DEF A!First, A!startIdx
      <3>2. c * U = 0
        BY <1>1, <2>1, <2>3
      <3> QED BY <1>1, <1>2, <2>2, <2>3, <3>1, <3>2
    <2>4. CASE s # 0
      <3>1. PICK sm \in Nat : sm = s * U
        BY <1>1
      <3>2. sm >= U /\ sm <= 3 * U
        <4>1. s = 1 \/ s = 2 \/ s = 3
          BY <2>4
        <4> QED BY <1>1, <3>1, <4>1
      <3>3. c * U = sm
        BY <2>1, <3>1
      <3>4. A!refArea(same) = IF same THEN sm + x - 1 ELSE sm + (IF x = 0 THEN -1 ELSE 0)
        BY <2>2, <2>4, <3>1
      <3> QED BY <1>1, <1>2, <3>1, <3>2, <3>3, <3>4
    <2> QED BY <2>3, <2>4
  <1>5. CASE at.pass # 0
    <2>1. c = 3
      BY <1>5 DEF Finished
    <2>2. A!refArea(same) = IF same THEN A!q - U + x - 1 ELSE A!q - U + (IF x = 0 THEN -1 ELSE 0)
      BY <1>2, <1>5 DEF A!refArea, U
    <2> QED BY <1>1, <1>2, <2>1, <2>2
  <1> QED BY <1>4, <1>5

\* The window has as many blocks as refArea says, in the order of their
\* distance from the start, all of them computed, and in another lane none of
\* the segment that is in work.
LEMMA WindowIs ==
  ASSUME MemoryAssumption, par \in Params, PlaceOK, A!Computing, NEW lane \in Lanes,
         A!First => lane = at.lane,
         NEW n, n = A!refArea(lane = at.lane), NEW W, W = A!Window(at, lane)
  PROVE  /\ n \in Nat /\ n >= 1 /\ Len(W) = n
         /\ \A k \in 1..n :
              /\ W[k] = (Oldest(at) + k - 1) % A!q /\ W[k] \in Positions
              /\ Reached(at, lane, W[k])
              /\ lane # at.lane => \A j \in 1..U : W[k] # at.slice * U + j - 1
  <1>1. U \in Nat /\ U >= 2 /\ A!q = 4 * U
    BY Layout
  <1>2. PICK same \in BOOLEAN : same = (lane = at.lane)
    OBVIOUS
  <1>9. PICK c : c = Finished(at)
    OBVIOUS
  <1>10. PICK o : o = IF same THEN at.idx ELSE 0
    OBVIOUS
  <1>11. PICK all : all = Earlier(same)
    OBVIOUS
  <1>3. W = IF same \/ at.idx = 0 THEN A!Front(all) ELSE all
    BY <1>2, <1>11 DEF A!Window, Earlier
  <1>4. /\ all \in Seq(Nat) /\ Len(all) = c * U + o
        /\ \A k \in 1..c * U + o : \E i \in 0..c, j \in 1..U :
              /\ k = i * U + j /\ all[k] = Span(at, i) * U + j - 1
              /\ i = c => same /\ j <= at.idx
    <2>1. InOrder(all, same, c, o)
      BY <1>9, <1>10, <1>11, Before
    <2> QED BY <2>1 DEF InOrder
  <1>5. n = A!refArea(same)
    BY <1>2
  <1>6. /\ n = (IF same \/ at.idx = 0 THEN c * U + o - 1 ELSE c * U + o)
        /\ n \in Nat /\ n >= 1 /\ c * U + o \in Nat
    <2>2. A!First => same
      BY <1>2
    <2> QED BY <1>5, <1>9, <1>10, <2>2, AreaIs
  <1>7. /\ Len(W) = n /\ \A k \in 1..n : W[k] = all[k] /\ k \in 1..c * U + o
    <2>1. PICK t \in Nat : t = c * U + o
      BY <1>6
    <2>2. CASE same \/ at.idx = 0
      <3>2. W = A!Front(all) /\ n = c * U + o - 1
        BY <1>3, <1>6, <2>2, Zenon
      <3>3. W = A!Front(all) /\ n = t - 1
        <4>1. c \in 0..3 /\ o \in Nat
          BY <1>9, <1>10, SpanOf DEF PlaceOK
        <4>2. PICK cm \in Nat : cm = c * U
          BY <1>1, <4>1
        <4> QED BY <2>1, <3>2, <4>1, <4>2
      <3>4. Len(all) = t
        BY <1>4, <2>1
      <3>1. W = A!Front(all) /\ n = t - 1 /\ Len(all) = t /\ t >= 1
        BY <1>6, <2>1, <3>3, <3>4
      <3>5. Len(A!Front(all)) = t - 1 /\ \A k \in 1..t - 1 : A!Front(all)[k] = all[k]
        BY <1>4, <3>1, AllButLast
      <3> QED BY <2>1, <3>1, <3>5
    <2>3. CASE ~ (same \/ at.idx = 0)
      BY <1>3, <1>4, <1>6, <2>1, <2>3
    <2> QED BY <2>2, <2>3
  <1>8. ASSUME NEW k \in 1..n
        PROVE  /\ W[k] = (Oldest(at) + k - 1) % A!q /\ W[k] \in Positions
               /\ Reached(at, lane, W[k])
               /\ lane # at.lane => \A j \in 1..U : W[k] # at.slice * U + j - 1
    <2>1. PICK i \in 0..c, j \in 1..U :
            /\ k = i * U + j /\ all[k] = Span(at, i) * U + j - 1
            /\ i = c => same /\ j <= at.idx
      BY <1>4, <1>7
    <2>2. i \in 0..Finished(at) /\ i \in Nat /\ j \in Nat /\ j >= 1 /\ j <= U
      BY <1>1, SpanOf, <1>9
    <2>3. /\ (Oldest(at) + (i * U + j) - 1) % A!q = Span(at, i) * U + j - 1
          /\ Span(at, i) * U + j - 1 \in Positions
      BY <2>2, BlockOf
    <2>4. W[k] = Span(at, i) * U + j - 1
      BY <1>7, <2>1
    <2>5. PICK t \in 0..3 : t = Span(at, i)
      BY <2>2, SpanOf
    <2>6. PICK s \in 0..3 : s = at.slice
      BY DEF PlaceOK
    <2>7. (i # c => t # s) /\ (i = c => t = s) /\ (at.pass = 0 => t = i /\ c = s)
      <3>1. i # c => Span(at, i) # at.slice
        BY <2>2, SpanOf, <1>9
      <3>2. i = c => Span(at, i) = at.slice
        BY SpanOf, <1>9
      <3>3. at.pass = 0 => Span(at, i) = i /\ c = at.slice
        BY <2>2, SpanOf, <1>9 DEF Finished
      <3> QED BY <2>5, <2>6, <3>1, <3>2, <3>3
    <2>8. Reached(at, lane, W[k])
      <3>1. CASE at.pass # 0
        BY <3>1 DEF Reached, PlaceOK
      <3>2. CASE at.pass = 0 /\ i = c
        <4>1. lane = at.lane /\ W[k] = s * U + j - 1 /\ j <= at.idx /\ at.idx \in Nat
          BY <1>2, <2>1, <2>4, <2>5, <2>7, <3>2 DEF PlaceOK
        <4>2. PICK sm \in Nat : sm = s * U
          BY <1>1
        <4>3. W[k] < sm + at.idx
          BY <2>2, <4>1, <4>2
        <4> QED BY <2>6, <4>1, <4>2, <4>3 DEF Reached
      <3>3. CASE at.pass = 0 /\ i # c
        <4>1. t + 1 <= s
          BY <2>1, <2>2, <2>6, <2>7, <3>3
        <4>2. (t + 1) * U <= s * U
          BY <1>1, <4>1, Times
        <4>3. PICK tm \in Nat : tm = t * U
          BY <1>1
        <4>4. (t + 1) * U = tm + U
          BY <1>1, <4>3
        <4>5. PICK sm \in Nat : sm = s * U
          BY <1>1
        <4>6. W[k] = tm + j - 1
          BY <2>4, <2>5, <4>3
        <4>7. W[k] < sm
          BY <1>1, <2>2, <4>2, <4>4, <4>5, <4>6
        <4> QED BY <2>6, <4>5, <4>7 DEF Reached
      <3> QED BY <3>1, <3>2, <3>3
    <2>9. ASSUME lane # at.lane, NEW v \in 1..U PROVE W[k] # s * U + v - 1
      <3>1. t # s
        BY <1>2, <2>1, <2>7, <2>9
      <3>2. PICK a \in Nat : a = j - 1 /\ a < U
        <4>1. j - 1 \in Nat /\ j - 1 < U
          BY <1>1, <2>2
        <4> QED BY <4>1
      <3>3. PICK b \in Nat : b = v - 1 /\ b < U
        <4>1. v - 1 \in Nat /\ v - 1 < U
          BY <1>1
        <4> QED BY <4>1
      <3>4. t * U + j - 1 = t * U + a /\ s * U + v - 1 = s * U + b
        BY <1>1, <2>2, <3>2, <3>3
      <3>5. (t * U + a) \div U = t
        BY <1>1, <3>2, Quotient
      <3>6. (s * U + b) \div U = s
        BY <1>1, <3>3, Quotient
      <3> QED BY <2>4, <2>5, <3>1, <3>4, <3>5, <3>6
    <2>10. (Oldest(at) + k - 1) % A!q = W[k] /\ W[k] \in Positions
      BY <2>1, <2>3, <2>4
    <2> QED BY <2>6, <2>8, <2>9, <2>10
  <1> QED BY <1>6, <1>7, <1>8

-----------------------------------------------------------------------------
(* Its steps *)

\* The position argon2 takes is the one in the window that RFC 9106 names.
LEMMA Referred ==
  ASSUME NumbersAssumption, MemoryAssumption, par \in Params, PlaceOK, A!Computing,
         NEW J1 \in 0..A!Word - 1, NEW lane \in Lanes, A!First => lane = at.lane,
         NEW n, n = A!refArea(lane = at.lane), NEW W, W = A!Window(at, lane),
         NEW rel, rel = n - 1 - (n * A!umulHi(J1)) \div A!Word,
         NEW pos, pos = (Oldest(at) + rel) % A!q
  PROVE  /\ pos = W[Len(W) - (Len(W) * ((J1 * J1) \div A!Word)) \div A!Word]
         /\ pos \in Positions /\ Reached(at, lane, pos)
         /\ lane # at.lane => pos \notin A!ToSet(A!Segment(at.slice))
  <1>1. /\ n \in Nat /\ n >= 1 /\ Len(W) = n
        /\ \A k \in 1..n :
             /\ W[k] = (Oldest(at) + k - 1) % A!q /\ W[k] \in Positions
             /\ Reached(at, lane, W[k])
             /\ lane # at.lane => \A j \in 1..U : W[k] # at.slice * U + j - 1
    BY WindowIs
  <1>2. A!umulHi(J1) = (J1 * J1) \div A!Word /\ A!umulHi(J1) \in 0..A!Word - 1
    BY Squared
  <1>3. PICK w \in Nat : w = A!Word /\ w > 0
    BY <1>2 DEF NumbersAssumption, A!Word
  <1>4. PICK x \in Nat : x = A!umulHi(J1) /\ x < w
    BY <1>2, <1>3
  <1>5. PICK y \in Nat : y = (n * x) \div w /\ y < n
    <2>1. PICK h \in Nat : h = n * x
      BY <1>1
    <2>2. PICK y \in Nat, r \in Nat : y = h \div w /\ r = h % w /\ r < w /\ h = y * w + r
      BY <1>3, Divided
    <2>3. y < n
      <3> SUFFICES ASSUME n <= y PROVE FALSE
        BY <1>1
      <3>1. n * w <= y * w /\ n * w \in Nat /\ y * w \in Nat
        BY <1>1, Times
      <3>2. x + 1 <= w
        BY <1>4
      <3>3. (x + 1) * n <= w * n
        BY <1>1, <3>2, Times
      <3>4. (x + 1) * n = n * x + n /\ w * n = n * w
        BY <1>1
      <3>5. h + n <= n * w
        BY <2>1, <3>3, <3>4
      <3>6. PICK yw \in Nat : yw = y * w
        BY <3>1
      <3>7. PICK nw \in Nat : nw = n * w
        BY <3>1
      <3>8. h = yw + r /\ nw <= yw /\ h + n <= nw
        BY <2>2, <3>1, <3>5, <3>6, <3>7
      <3> QED BY <1>1, <3>6, <3>7, <3>8
    <2> QED BY <2>1, <2>2, <2>3
  <1>6. PICK k \in 1..n : k = n - y
    <2>1. n - y \in 1..n
      BY <1>1, <1>5
    <2> QED BY <2>1
  <1>7. rel = k - 1
    BY <1>1, <1>4, <1>3, <1>5, <1>6
  <1>8. pos = W[k]
    <2>1. Oldest(at) \in Nat
      <3>1. U \in Nat /\ at.slice \in 0..3
        BY Layout DEF PlaceOK
      <3>2. PICK u \in 0..3 : u = (at.slice + 1) % 4
        BY <3>1
      <3> QED BY <3>1, <3>2 DEF Oldest
    <2>2. Oldest(at) + rel = Oldest(at) + k - 1
      BY <1>1, <1>7, <2>1
    <2> QED BY <1>1, <2>2
  <1>9. Len(W) - (Len(W) * ((J1 * J1) \div A!Word)) \div A!Word = k
    BY <1>1, <1>2, <1>3, <1>4, <1>5, <1>6
  <1>10. lane # at.lane => pos \notin A!ToSet(A!Segment(at.slice))
    <2> SUFFICES ASSUME lane # at.lane, pos \in A!ToSet(A!Segment(at.slice)) PROVE FALSE
      OBVIOUS
    <2>1. /\ A!Segment(at.slice) \in Seq(Nat) /\ Len(A!Segment(at.slice)) = U
          /\ \A j \in 1..U : A!Segment(at.slice)[j] = at.slice * U + j - 1
      BY SegmentIs DEF PlaceOK
    <2>2. PICK j \in 1..U : pos = A!Segment(at.slice)[j]
      BY <2>1 DEF A!ToSet
    <2> QED BY <1>1, <1>8, <2>1, <2>2
  <1> QED BY <1>1, <1>8, <1>9, <1>10

\* The addresses in use after a block are those that block is in.
LEMMA Addresses ==
  ASSUME MemoryAssumption, par \in Params, PlaceOK, AddressesOK, A!Computing
  PROVE  LET next == IF ~ A!dataIndependent THEN 0
                     ELSE IF at.idx % AddrWords = 0 \/ at.idx = A!startIdx
                          THEN at.idx \div AddrWords + 1 ELSE addrCounter
         IN next = IF A!dataIndependent THEN at.idx \div AddrWords + 1 ELSE 0
  <1>1. U \in Nat /\ AddrWords \in Nat /\ AddrWords > 0
    BY Layout DEF MemoryAssumption
  <1>2. PICK x \in Nat : x = at.idx /\ A!startIdx <= x
    BY DEF PlaceOK
  <1>3. A!startIdx \in Nat
    BY DEF A!startIdx
  <1>4. ASSUME A!dataIndependent, x % AddrWords # 0, x # A!startIdx
        PROVE  addrCounter = x \div AddrWords + 1
    <2>1. x > A!startIdx
      BY <1>2, <1>3, <1>4
    <2>2. addrCounter = (x - 1) \div AddrWords + 1
      BY <1>2, <1>4, <2>1 DEF AddressesOK
    <2>3. PICK c \in Nat, r \in Nat : c = x \div AddrWords /\ r = x % AddrWords /\ r < AddrWords
                                       /\ x = c * AddrWords + r
      BY <1>1, Divided
    <2>4. PICK r1 \in Nat : r = r1 + 1
      <3>1. r - 1 \in Nat /\ r = (r - 1) + 1
        BY <1>4, <2>3
      <3> QED BY <3>1
    <2>5. r1 < AddrWords
      BY <1>1, <2>3, <2>4
    <2>6. (c * AddrWords + r1) \div AddrWords = c
      BY <1>1, <2>5, Quotient
    <2>7. x - 1 = c * AddrWords + r1
      <3>1. PICK ca \in Nat : ca = c * AddrWords
        BY <1>1
      <3> QED BY <2>3, <2>4, <3>1
    <2> QED BY <2>2, <2>3, <2>6, <2>7
  <1> QED BY <1>2, <1>4

\* The window of a block depends on where it is and on the parameters.
LEMMA Unmoved ==
  ASSUME UNCHANGED par
  PROVE  /\ \A b, lane : A!Window(b, lane)' = A!Window(b, lane)
         /\ \A t : A!Segment(t)' = A!Segment(t)
  <1>1. A!segLen' = A!segLen
    BY DEF A!segLen, A!q, A!mPrime
  <1> QED BY <1>1 DEF A!Window, A!Segment

LEMMA Refers ==
  ASSUME UNCHANGED <<par, written, addrCounter, ref>>, RefersAsPrescribed
  PROVE  RefersAsPrescribed'
  BY Unmoved DEF RefersAsPrescribed, A!RefersAsPrescribed, A!Word

\* The addresses at hand stay those of the block before the next one.
LEMMA AddressesStep ==
  ASSUME MemoryAssumption, par \in Params, PlaceOK, UNCHANGED par, at' = A!Turn,
         A!Computing \/ at.idx >= U,
         A!Computing => addrCounter' = IF A!dataIndependent THEN at.idx \div AddrWords + 1 ELSE 0
  PROVE  AddressesOK'
  <1>1. U \in Nat /\ U = A!segLen /\ A!startIdx' = IF at'.pass = 0 /\ at'.slice = 0 THEN 2 ELSE 0
    BY Layout DEF U, A!startIdx, A!First
  <1>2. PICK x \in Nat : x = at.idx
    BY DEF PlaceOK
  <1>3. at = [pass |-> at.pass, slice |-> at.slice, lane |-> at.lane, idx |-> at.idx]
    BY DEF PlaceOK
  <1>4. CASE x + 1 < U
    <2>1. at' = [at EXCEPT !.idx = @ + 1]
      BY <1>1, <1>2, <1>4 DEF A!Turn
    <2>2. at'.pass = at.pass /\ at'.slice = at.slice /\ at'.idx = x + 1
      BY <1>2, <1>3, <2>1
    <2>3. A!dataIndependent' <=> A!dataIndependent
      BY <2>2 DEF A!dataIndependent
    <2>4. A!Computing
      BY <1>1, <1>2, <1>4
    <2>5. (x + 1) - 1 = x
      OBVIOUS
    <2> QED BY <1>2, <2>2, <2>3, <2>4, <2>5 DEF AddressesOK
  <1>5. CASE ~ x + 1 < U
    <2>1. at'.idx = A!startIdx'
      <3> DEFINE done == at.lane + 1 = par.lanes
                 slice == IF done THEN (at.slice + 1) % 4 ELSE at.slice
                 pass == IF done /\ at.slice = 3 THEN at.pass + 1 ELSE at.pass
      <3>1. at' = [pass |-> pass, slice |-> slice, lane |-> IF done THEN 0 ELSE at.lane + 1,
                   idx |-> IF pass = 0 /\ slice = 0 THEN 2 ELSE 0]
        BY <1>1, <1>2, <1>5 DEF A!Turn
      <3> HIDE DEF slice, pass
      <3> QED BY <1>1, <3>1
    <2>2. A!startIdx' \in Nat
      BY <1>1
    <2> QED BY <2>1, <2>2 DEF AddressesOK
  <1> QED BY <1>4, <1>5

LEMMA Step ==
  ASSUME NumbersAssumption, MemoryAssumption, MemInv,
         NEW J1 \in 0..A!Word - 1, NEW J2 \in 0..par.lanes - 1, A!argon2(J1, J2)
  PROVE  MemInv'
  <1>1. /\ par \in Params /\ PlaceOK /\ MemoryOK /\ AddressesOK /\ RefersAsPrescribed
        /\ A!Computing /\ at' = A!Turn /\ UNCHANGED par
    BY DEF MemInv, A!argon2
  <1>2. /\ U \in Nat /\ U >= 2 /\ A!q = 4 * U /\ par.lanes \in Nat /\ par.lanes > 0
    BY <1>1, Layout
  <1>3. U' = U /\ A!q' = A!q /\ Lanes' = Lanes /\ Positions' = Positions
    BY <1>1 DEF U, A!segLen, A!q, A!mPrime, Lanes, Positions
  <1>4. PICK lane : lane = IF A!First THEN at.lane ELSE J2 % par.lanes
    OBVIOUS
  <1>5. lane \in Lanes /\ (A!First => lane = at.lane)
    <2>1. at.lane \in Lanes
      BY <1>1 DEF PlaceOK
    <2>2. J2 % par.lanes \in Lanes
      <3>1. J2 \in Nat /\ par.lanes \in Nat /\ par.lanes > 0
        BY <1>2
      <3>2. J2 % par.lanes \in Nat /\ J2 % par.lanes < par.lanes
        BY <3>1, Division
      <3> QED BY <3>1, <3>2 DEF Lanes
    <2> QED BY <1>4, <2>1, <2>2
  <1>6. PICK n : n = A!refArea(lane = at.lane)
    OBVIOUS
  <1>7. PICK rel : rel = n - 1 - (n * A!umulHi(J1)) \div A!Word
    OBVIOUS
  <1>8. PICK pos : pos = (Oldest(at) + rel) % A!q
    OBVIOUS
  <1>9. PICK W : W = A!Window(at, lane)
    OBVIOUS
  <1>10. /\ ref' = [lane |-> lane, pos |-> pos, J1 |-> J1, at |-> at]
         /\ written' = [written EXCEPT ![at.lane][A!curIdx] = @ + 1]
    BY <1>4, <1>6, <1>7, <1>8 DEF A!argon2, Oldest, U
  <1>11. addrCounter' = IF A!dataIndependent THEN at.idx \div AddrWords + 1 ELSE 0
    <2>1. addrCounter' = IF ~ A!dataIndependent THEN 0
                         ELSE IF at.idx % AddrWords = 0 \/ at.idx = A!startIdx
                              THEN at.idx \div AddrWords + 1 ELSE addrCounter
      BY DEF A!argon2
    <2> QED BY <1>1, <2>1, Addresses
  <1>12. /\ pos = W[Len(W) - (Len(W) * ((J1 * J1) \div A!Word)) \div A!Word]
         /\ pos \in Positions /\ Reached(at, lane, pos)
         /\ lane # at.lane => pos \notin A!ToSet(A!Segment(at.slice))
    BY <1>1, <1>5, <1>6, <1>7, <1>8, <1>9, Referred
  <1>13. /\ written' \in [Lanes -> [Positions -> Nat]]
         /\ \A l \in Lanes, b \in Positions :
              /\ written'[l][b] >= written[l][b]
              /\ l = at.lane /\ b = A!curIdx => written'[l][b] = written[l][b] + 1
    <2>1. written \in [Lanes -> [Positions -> Nat]]
      BY <1>1 DEF MemoryOK
    <2> PICK w \in [Lanes -> [Positions -> Nat]] : w = written
      BY <2>1
    <2> PICK k : k = A!curIdx
      OBVIOUS
    <2>2. at.lane \in Lanes
      BY <1>1 DEF PlaceOK
    <2> PICK e \in Lanes : e = at.lane
      BY <2>2
    <2>3. PICK row \in [Positions -> Nat] : row = w[e]
      OBVIOUS
    <2>4. PICK more : more = [row EXCEPT ![k] = @ + 1]
      OBVIOUS
    <2>5. more \in [Positions -> Nat]
      <3>1. ASSUME NEW f \in [Positions -> Nat] PROVE [f EXCEPT ![k] = @ + 1] \in [Positions -> Nat]
        <4>1. \A b \in Positions : f[b] \in Nat /\ f[b] + 1 \in Nat
          OBVIOUS
        <4> QED BY <4>1
      <3> QED BY <2>3, <2>4, <3>1
    <2>6. written' = [w EXCEPT ![e] = more]
      BY <1>10, <2>3, <2>4
    <2>7. \A b \in Positions : more[b] >= row[b] /\ (b = k => more[b] = row[b] + 1)
      BY <2>4
    <2>8. \A l \in Lanes, b \in Positions : w[l][b] \in Nat /\ w[l][b] >= w[l][b]
      OBVIOUS
    <2> QED BY <2>3, <2>5, <2>6, <2>7, <2>8
  <1>14. \A l \in Lanes, b \in Positions : Reached(at', l, b) =>
           Reached(at, l, b) \/ (l = at.lane /\ b = A!curIdx /\ at.idx < U)
    BY <1>1, Advance
  <1>15. PlaceOK'
    BY <1>1, Advance
  <1>16. \A l \in Lanes, b \in Positions : written[l][b] \in Nat /\ written'[l][b] \in Nat
                                            /\ (Reached(at, l, b) => written[l][b] >= 1)
    BY <1>1, <1>13 DEF MemoryOK
  <1>17. \A l \in Lanes, b \in Positions : Reached(at', l, b) => written'[l][b] >= 1
    BY <1>13, <1>14, <1>16
  <1>18. MemoryOK'
    <2>1. \A l, b : Reached(at, l, b)' <=> Reached(at', l, b)
      BY <1>3 DEF Reached
    <2> QED BY <1>3, <1>13, <1>17, <2>1 DEF MemoryOK
  <1>19. AddressesOK'
    BY <1>1, <1>11, AddressesStep
  <1>20. RefersAsPrescribed'
    <2>1. ref'.lane = lane /\ ref'.pos = pos /\ ref'.J1 = J1 /\ ref'.at = at
      BY <1>10
    <2>2. /\ \A b, l : A!Window(b, l)' = A!Window(b, l)
          /\ \A t : A!Segment(t)' = A!Segment(t)
      BY <1>1, Unmoved
    <2>3. A!Window(ref.at, ref.lane)' = W
      BY <1>9, <2>1, <2>2
    <2>4. A!Segment(ref.at.slice)' = A!Segment(at.slice)
      BY <2>1, <2>2
    <2>5. written'[lane][pos] >= 1
      <3>1. written[lane][pos] \in Nat /\ written[lane][pos] >= 1 /\ written'[lane][pos] \in Nat
            /\ written'[lane][pos] >= written[lane][pos]
        BY <1>5, <1>12, <1>13, <1>16
      <3> QED BY <3>1
    <2>6. addrCounter' # 0 => addrCounter' = at.idx \div AddrWords + 1
      BY <1>11
    <2> PICK x : x = (J1 * J1) \div A!Word
      OBVIOUS
    <2>7. ref'.pos = W[Len(W) - (Len(W) * x) \div A!Word]
      BY <1>12, <2>1
    <2>8. ref'.lane # ref'.at.lane => ref'.pos \notin A!ToSet(A!Segment(at.slice))
      BY <1>12, <2>1
    <2>9. written'[ref'.lane][ref'.pos] >= 1
      BY <2>1, <2>5
    <2>10. addrCounter' # 0 => addrCounter' = ref'.at.idx \div AddrWords + 1
      BY <2>1, <2>6
    <2>11. A!ToSet(A!Segment(ref.at.slice))' = A!ToSet(A!Segment(at.slice))
      BY <2>4 DEF A!ToSet
    <2> QED BY <2>1, <2>3, <2>7, <2>8, <2>9, <2>10, <2>11 DEF RefersAsPrescribed, A!RefersAsPrescribed, A!Word
  <1> QED BY <1>1, <1>15, <1>18, <1>19, <1>20 DEF MemInv

LEMMA MemStep ==
  ASSUME NumbersAssumption, MemoryAssumption, MemInv, [A!Next]_A!vars
  PROVE  MemInv'
  <1>1. CASE \E J1 \in 0..A!Word - 1, J2 \in 0..par.lanes - 1 : A!argon2(J1, J2)
    BY <1>1, Step
  <1>2. CASE A!Skip
    <2>1. /\ par \in Params /\ PlaceOK /\ MemoryOK /\ AddressesOK /\ RefersAsPrescribed
          /\ at' = A!Turn /\ at.idx >= U /\ UNCHANGED <<par, written, addrCounter, ref, result>>
      BY <1>2 DEF MemInv, A!Skip, U
    <2>2. U \in Nat /\ at.idx \in Nat
      BY <2>1, Layout DEF PlaceOK
    <2>3. ~ A!Computing /\ ~ at.idx < U
      BY <2>1, <2>2 DEF A!Computing, U
    <2>4. PlaceOK' /\ \A l \in Lanes, b \in Positions : Reached(at', l, b) => Reached(at, l, b)
      BY <2>1, <2>3, Advance
    <2>5. MemoryOK'
      <3>1. U' = U /\ Lanes' = Lanes /\ Positions' = Positions
        BY <2>1 DEF U, A!segLen, A!q, A!mPrime, Lanes, Positions
      <3>2. \A l, b : Reached(at, l, b)' <=> Reached(at', l, b)
        BY <3>1 DEF Reached
      <3> QED BY <2>1, <2>4, <3>1, <3>2 DEF MemoryOK
    <2>6. AddressesOK'
      BY <2>1, <2>3, AddressesStep
    <2>7. RefersAsPrescribed'
      BY <2>1, Refers
    <2> QED BY <2>1, <2>4, <2>5, <2>6, <2>7 DEF MemInv
  <1>3. CASE UNCHANGED <<par, at, written, addrCounter, ref>>
    <2>1. U' = U /\ Lanes' = Lanes /\ Positions' = Positions
      BY <1>3 DEF U, A!segLen, A!q, A!mPrime, Lanes, Positions
    <2>2. \A l, b : Reached(at, l, b)' <=> Reached(at, l, b)
      BY <1>3, <2>1 DEF Reached
    <2>3. A!startIdx' = A!startIdx /\ (A!dataIndependent' <=> A!dataIndependent)
      BY <1>3 DEF A!startIdx, A!First, A!dataIndependent
    <2>4. PlaceOK' /\ MemoryOK' /\ AddressesOK'
      BY <1>3, <2>1, <2>2, <2>3 DEF MemInv, PlaceOK, MemoryOK, AddressesOK
    <2>5. RefersAsPrescribed'
      BY <1>3, Refers DEF MemInv
    <2> QED BY <1>3, <2>4, <2>5 DEF MemInv
  <1>4. A!Mix \/ A!Square \/ A!Hash \/ UNCHANGED A!vars => UNCHANGED <<par, at, written, addrCounter, ref>>
    BY DEF A!Mix, A!Square, A!Hash, A!vars
  <1> QED BY <1>1, <1>2, <1>3, <1>4 DEF A!Next

LEMMA MemInit ==
  ASSUME MemoryAssumption, A!Init
  PROVE  MemInv
  <1>1. /\ par \in Params /\ at = [pass |-> 0, slice |-> 0, lane |-> 0, idx |-> 2]
        /\ written = [l \in 0..par.lanes - 1 |-> [b \in 0..A!q - 1 |-> IF b < 2 THEN 1 ELSE 0]]
        /\ ref = Nothing
    BY DEF A!Init
  <1>2. U \in Nat /\ U >= 2 /\ A!q = 4 * U /\ par.lanes \in Nat /\ par.lanes > 0
    BY <1>1, Layout
  <1>3. PlaceOK
    BY <1>1, <1>2 DEF PlaceOK, Lanes, A!startIdx, A!First
  <1>4. MemoryOK
    <2>1. written \in [Lanes -> [Positions -> Nat]]
      BY <1>1 DEF Lanes, Positions
    <2>2. \A l \in Lanes, b \in Positions : b < 2 => written[l][b] >= 1
      BY <1>1 DEF Lanes, Positions
    <2>3. 0 * U = 0 /\ (0 + 1) * U = U
      BY <1>2
    <2>4. \A l \in Lanes, b \in Positions : Reached(at, l, b) => b < 2
      <3> SUFFICES ASSUME NEW l \in Lanes, NEW b \in Positions, Reached(at, l, b) PROVE b < 2
        OBVIOUS
      <3>1. l \in Nat /\ b \in Nat
        BY <1>2 DEF Lanes, Positions
      <3>2. b < 2 \/ b < 0 \/ l < 0 \/ (l = 0 /\ b < 0 + 2)
        BY <1>1, <2>3, <3>1 DEF Reached
      <3> QED BY <3>1, <3>2
    <2> QED BY <2>1, <2>2, <2>4 DEF MemoryOK
  <1>5. AddressesOK
    BY <1>1 DEF AddressesOK, A!startIdx, A!First
  <1>6. RefersAsPrescribed
    BY <1>1 DEF RefersAsPrescribed, A!RefersAsPrescribed
  <1> QED BY <1>1, <1>3, <1>4, <1>5, <1>6 DEF MemInv

\* Every block argon2 makes refers to the block RFC 9106 prescribes, which
\* has been computed before and is not one that another lane may be working
\* on, for any number of lanes, any memory and any number of passes.
THEOREM References == A!Spec => []RefersAsPrescribed
  <1>1. NumbersAssumption /\ MemoryAssumption
    BY FormatsAssumption
  <1>2. A!Init => MemInv
    BY <1>1, MemInit
  <1>3. MemInv /\ [A!Next]_A!vars => MemInv'
    BY <1>1, MemStep
  <1>4. MemInv => RefersAsPrescribed
    BY DEF MemInv
  <1> QED BY <1>2, <1>3, <1>4, PTL DEF A!Spec

-----------------------------------------------------------------------------
(* Reading a text, from one state of the parser to another.  P is a row    *)
(* without the cell in work, v is that cell.                               *)

Parsers ==
  [rows : Seq(Seq(Text)), row : Seq(Text) \ {<<>>},
   in : {"start", "plain", "quoted", "quote", "cr"}]

In(R, P, v, st) == [rows |-> R, row |-> Append(P, v), in |-> st]

Nowhere == In(<<>>, <<>>, <<>>, "start")

Reads(t, p, q) ==
  \E f \in [0..Len(t) -> Parsers] :
    f[0] = p /\ f[Len(t)] = q /\ \A i \in 1..Len(t) : f[i] = C!Char(f[i - 1], t[i])

LEMMA InType ==
  ASSUME NEW R \in Seq(Seq(Text)), NEW P \in Seq(Text), NEW v \in Text,
         NEW st \in {"start", "plain", "quoted", "quote", "cr"}
  PROVE  In(R, P, v, st) \in Parsers
  <1>1. Append(P, v) \in Seq(Text) /\ Append(P, v) # <<>>
    <2>1. Len(Append(P, v)) # 0
      OBVIOUS
    <2> QED BY <2>1
  <1> QED BY <1>1 DEF In, Parsers

\* What one more character does.
Grow(row, c) == [row EXCEPT ![Len(row)] = Append(@, c)]

LEMMA Grown ==
  ASSUME NEW P \in Seq(Text), NEW v \in Text, NEW c \in Characters
  PROVE  Grow(Append(P, v), c) = Append(P, Append(v, c))
  <1> PICK row : row = Append(P, v)
    OBVIOUS
  <1> DEFINE w == Append(v, c)
  <1>1. w \in Text
    BY DEF Text
  <1> HIDE DEF w
  <1> DEFINE new == [row EXCEPT ![Len(row)] = w]
  <1>2. row \in Seq(Text) /\ Len(row) = Len(P) + 1 /\ row[Len(row)] = v
        /\ \A i \in 1..Len(P) : row[i] = P[i]
    OBVIOUS
  <1>3. new \in Seq(Text) /\ Len(new) = Len(row) /\ \A i \in 1..Len(row) : new[i] = IF i = Len(row) THEN w ELSE row[i]
    <2> PICK k \in Nat : k = Len(row)
      BY <1>2
    <2>1. \A i \in 1..k : row[i] \in Text
      BY <1>2
    <2>2. DOMAIN row = 1..k
      BY <1>2
    <2>3. [row EXCEPT ![k] = w] = [i \in 1..k |-> IF i = k THEN w ELSE row[i]]
      BY <2>2, Zenon
    <2>4. [i \in 1..k |-> IF i = k THEN w ELSE row[i]] \in [1..k -> Text]
      BY <1>1, <2>1
    <2> QED BY <2>3, <2>4
  <1>4. Append(P, w) \in Seq(Text) /\ Len(Append(P, w)) = Len(P) + 1
        /\ \A i \in 1..Len(P) + 1 : Append(P, w)[i] = IF i = Len(P) + 1 THEN w ELSE P[i]
    BY <1>1, AppendProperties
  <1>5. new = Append(P, w)
    <2>1. \A i \in 1..Len(new) : new[i] = Append(P, w)[i]
      BY <1>2, <1>3, <1>4
    <2> HIDE DEF new
    <2> QED BY <1>2, <1>3, <1>4, <2>1, SeqEqual
  <1>6. [row EXCEPT ![Len(row)] = Append(@, c)] = new
    BY <1>2 DEF w
  <1> HIDE DEF new
  <1> QED BY <1>5, <1>6 DEF w, Grow

LEMMA Special ==
  /\ {"CR", "LF", "quote", "comma", "colon", "semicolon"} \subseteq Characters
  /\ <<>> \in Text /\ \A c \in Characters : <<c>> \in Text
  BY FormatsAssumption DEF CsvAssumption, Text

LEMMA Two ==
  ASSUME NEW a \in Characters, NEW b \in Characters
  PROVE  <<a, b>> = <<a>> \o <<b>> /\ <<a, b>> \in Text
  <1> PICK s : s = <<a, b>>
    OBVIOUS
  <1> PICK t : t = <<a>> \o <<b>>
    OBVIOUS
  <1>1. s \in Text /\ Len(s) = 2 /\ s[1] = a /\ s[2] = b
    BY DEF Text
  <1>2. t \in Text /\ Len(t) = 2 /\ t[1] = a /\ t[2] = b
    BY DEF Text
  <1>3. ASSUME NEW i \in 1..Len(s) PROVE s[i] = t[i]
    <2>1. i = 1 \/ i = 2
      BY <1>1
    <2> QED BY <1>1, <1>2, <2>1
  <1>4. s = t
    BY <1>1, <1>2, <1>3, SeqEqual DEF Text
  <1> QED BY <1>1, <1>4

\* The operator of Csv is that of this module.
LEMMA Flattened ==
  ASSUME NEW ss
  PROVE  C!FlattenSeq(ss) = FlattenSeq(ss)
  BY Zenon DEF C!FlattenSeq, FlattenSeq

LEMMA Chars ==
  ASSUME NEW R \in Seq(Seq(Text)), NEW P \in Seq(Text), NEW v \in Text, NEW c \in Characters
  PROVE  /\ C!Char(In(R, P, <<>>, "start"), "quote") = In(R, P, <<>>, "quoted")
         /\ C!Char(In(R, P, v, "quoted"), "quote") = In(R, P, v, "quote")
         /\ c # "quote" => C!Char(In(R, P, v, "quoted"), c) = In(R, P, Append(v, c), "quoted")
         /\ C!Char(In(R, P, v, "quote"), "quote") = In(R, P, Append(v, "quote"), "quoted")
         /\ \A st \in {"start", "plain"} : c \notin {"quote", "comma", "CR", "LF"} =>
              C!Char(In(R, P, v, st), c) = In(R, P, Append(v, c), "plain")
  <1> DEFINE row == Append(P, v)
  <1>1. ASSUME NEW d \in Characters
        PROVE  [row EXCEPT ![Len(row)] = Append(@, d)] = Append(P, Append(v, d))
    <2>1. Grow(Append(P, v), d) = Append(P, Append(v, d))
      BY Grown
    <2> QED BY <2>1 DEF Grow
  <1>3. "quote" \in Characters
    BY Special
  <1> HIDE DEF row
  <1> USE DEF In, C!Char, C!Quote, C!Comma, C!LF, C!CR
  <1>4. C!Char(In(R, P, <<>>, "start"), "quote") = In(R, P, <<>>, "quoted")
    OBVIOUS
  <1>5. C!Char(In(R, P, v, "quoted"), "quote") = In(R, P, v, "quote")
    OBVIOUS
  <1>6. c # "quote" => C!Char(In(R, P, v, "quoted"), c) = In(R, P, Append(v, c), "quoted")
    BY <1>1 DEF row
  <1>7. C!Char(In(R, P, v, "quote"), "quote") = In(R, P, Append(v, "quote"), "quoted")
    BY <1>1, <1>3 DEF row
  <1>8. ASSUME NEW st \in {"start", "plain"}, c \notin {"quote", "comma", "CR", "LF"}
        PROVE  C!Char(In(R, P, v, st), c) = In(R, P, Append(v, c), "plain")
    BY <1>1, <1>8 DEF row
  <1> QED BY <1>4, <1>5, <1>6, <1>7, <1>8

LEMMA CharsAfter ==
  ASSUME NEW R, NEW P, NEW v, NEW st \in {"start", "plain", "quote"}
  PROVE  /\ C!Char(In(R, P, v, st), "comma") = In(R, Append(P, v), <<>>, "start")
         /\ C!Char(In(R, P, v, st), "LF") = In(Append(R, Append(P, v)), <<>>, <<>>, "start")
         /\ C!Char(In(R, P, v, st), "CR") = In(Append(R, Append(P, v)), <<>>, <<>>, "cr")
         /\ C!Char(In(R, P, v, "cr"), "LF") = In(R, P, v, "start")
  <1>1. Append(<<>>, <<>>) = << <<>> >>
    OBVIOUS
  <1> QED BY <1>1 DEF In, C!Char, C!Quote, C!Comma, C!LF, C!CR

LEMMA ReadsOne ==
  ASSUME NEW p \in Parsers, NEW q \in Parsers, NEW c \in Characters, q = C!Char(p, c)
  PROVE  Reads(<<c>>, p, q)
  <1> DEFINE f == [i \in 0..1 |-> IF i = 0 THEN p ELSE q]
  <1>1. f \in [0..1 -> Parsers] /\ f[0] = p /\ f[1] = q
    OBVIOUS
  <1>2. Len(<<c>>) = 1 /\ <<c>>[1] = c
    OBVIOUS
  <1> HIDE DEF f
  <1>3. \A i \in 1..1 : f[i] = C!Char(f[i - 1], <<c>>[i])
    <2> SUFFICES ASSUME NEW i \in 1..1 PROVE f[i] = C!Char(f[i - 1], <<c>>[i])
      OBVIOUS
    <2>1. i = 1 /\ i - 1 = 0
      OBVIOUS
    <2> QED BY <1>1, <1>2, <2>1
  <1> QED BY <1>1, <1>2, <1>3 DEF Reads

LEMMA ReadsNone ==
  ASSUME NEW p \in Parsers
  PROVE  Reads(<<>>, p, p)
  <1> DEFINE f == [i \in 0..0 |-> p]
  <1>1. f \in [0..0 -> Parsers] /\ f[0] = p /\ Len(<<>>) = 0
    OBVIOUS
  <1> HIDE DEF f
  <1>2. \A i \in 1..0 : f[i] = C!Char(f[i - 1], <<>>[i])
    OBVIOUS
  <1> QED BY <1>1, <1>2 DEF Reads

LEMMA ReadsJoin ==
  ASSUME NEW t \in Text, NEW u \in Text, NEW p, NEW q, NEW r, Reads(t, p, q), Reads(u, q, r)
  PROVE  Reads(t \o u, p, r)
  <1> PICK a \in Nat, b \in Nat : a = Len(t) /\ b = Len(u)
    BY DEF Text
  <1> PICK s : s = t \o u
    OBVIOUS
  <1>1. /\ Len(s) = a + b /\ \A i \in 1..a : s[i] = t[i]
        /\ \A i \in 1..b : s[a + i] = u[i]
    BY DEF Text
  <1>2. PICK g \in [0..a -> Parsers] :
          g[0] = p /\ g[a] = q /\ \A i \in 1..a : g[i] = C!Char(g[i - 1], t[i])
    BY DEF Reads
  <1>3. PICK h \in [0..b -> Parsers] :
          h[0] = q /\ h[b] = r /\ \A i \in 1..b : h[i] = C!Char(h[i - 1], u[i])
    BY DEF Reads
  <1> DEFINE f == [i \in 0..a + b |-> IF i <= a THEN g[i] ELSE h[i - a]]
  <1>4. \A i \in 0..a : f[i] = g[i]
    OBVIOUS
  <1>5. \A i \in 0..b : f[a + i] = h[i]
    <2> SUFFICES ASSUME NEW i \in 0..b PROVE f[a + i] = h[i]
      OBVIOUS
    <2>1. CASE i = 0
      BY <1>2, <1>3, <2>1
    <2>2. CASE i # 0
      <3>1. a + i \in 0..a + b /\ ~(a + i <= a) /\ (a + i) - a = i
        BY <2>2
      <3> QED BY <3>1
    <2> QED BY <2>1, <2>2
  <1>6. f \in [0..a + b -> Parsers]
    <2> SUFFICES ASSUME NEW i \in 0..a + b PROVE (IF i <= a THEN g[i] ELSE h[i - a]) \in Parsers
      OBVIOUS
    <2>1. CASE i <= a
      <3>1. i \in 0..a
        BY <2>1
      <3>2. g[i] \in Parsers
        BY <1>2, <3>1
      <3> QED BY <2>1, <3>2
    <2>2. CASE ~(i <= a)
      <3> PICK j : j = i - a
        OBVIOUS
      <3>1. j \in 0..b
        BY <2>2
      <3>2. h[j] \in Parsers
        BY <1>3, <3>1
      <3> QED BY <2>2, <3>2
    <2> QED BY <2>1, <2>2
  <1> HIDE DEF f
  <1>7. ASSUME NEW i \in 1..a + b PROVE f[i] = C!Char(f[i - 1], s[i])
    <2>1. CASE i <= a
      <3>1. i \in 1..a /\ i \in 0..a /\ i - 1 \in 0..a
        BY <2>1
      <3>2. f[i] = g[i] /\ f[i - 1] = g[i - 1] /\ s[i] = t[i]
        BY <1>1, <1>4, <3>1
      <3> QED BY <1>2, <3>1, <3>2
    <2>2. CASE ~(i <= a)
      <3> PICK j : j = i - a
        OBVIOUS
      <3>1. j \in 1..b /\ j \in 0..b /\ j - 1 \in 0..b /\ a + j = i /\ a + (j - 1) = i - 1
        BY <2>2
      <3>2. f[i] = h[j] /\ f[i - 1] = h[j - 1] /\ s[i] = u[j]
        BY <1>1, <1>5, <3>1
      <3> QED BY <1>3, <3>1, <3>2
    <2> QED BY <2>1, <2>2
  <1>8. f[0] = p /\ f[a + b] = r
    <2>1. 0 \in 0..a /\ b \in 0..b
      OBVIOUS
    <2> QED BY <1>2, <1>3, <1>4, <1>5, <2>1
  <1>9. Reads(s, p, r)
    <2>1. f \in [0..Len(s) -> Parsers] /\ f[Len(s)] = r /\ \A i \in 1..Len(s) : f[i] = C!Char(f[i - 1], s[i])
      BY <1>1, <1>6, <1>7, <1>8
    <2> QED BY <1>8, <2>1, Zenon DEF Reads
  <1> QED BY <1>9

\* One text after the other.
LEMMA ReadsAll ==
  ASSUME NEW ss \in Seq(Text), NEW q, q[0] \in Parsers,
         \A i \in 1..Len(ss) : Reads(ss[i], q[i - 1], q[i])
  PROVE  Reads(FlattenSeq(ss), q[0], q[Len(ss)])
  <1>1. PICK g : Sums(g, ss, Characters) /\ FlattenSeq(ss) = g[Len(ss)]
    BY SumsExist DEF Text
  <1> PICK n \in Nat : n = Len(ss)
    OBVIOUS
  <1>2. /\ g \in [0..n -> Text] /\ g[0] = <<>> /\ \A i \in 1..n : g[i] = g[i - 1] \o ss[i]
        /\ \A i \in 1..n : ss[i] \in Text
    <2>1. \A i \in 1..n : ss[i] \in Text
      OBVIOUS
    <2> QED BY <1>1, <2>1 DEF Sums, Text
  <1> DEFINE T == {i \in Nat : i <= n => Reads(g[i], q[0], q[i])}
  <1>3. 0 \in T
    BY <1>2, ReadsNone
  <1>4. ASSUME NEW i \in Nat, i \in T PROVE i + 1 \in T
    <2> SUFFICES ASSUME i + 1 <= n PROVE Reads(g[i + 1], q[0], q[i + 1])
      OBVIOUS
    <2> PICK k : k = i + 1
      OBVIOUS
    <2>1. k - 1 = i /\ k \in 1..n /\ i \in 0..n /\ Reads(g[i], q[0], q[i])
      BY <1>4
    <2>2. g[k] = g[i] \o ss[k] /\ g[i] \in Text /\ ss[k] \in Text
      BY <1>2, <2>1
    <2>3. Reads(ss[k], q[i], q[k])
      BY <2>1
    <2>4. Reads(g[i] \o ss[k], q[0], q[k])
      BY <2>1, <2>2, <2>3, ReadsJoin, Zenon
    <2> QED BY <2>2, <2>4
  <1> HIDE DEF T
  <1>5. n \in T
    BY <1>3, <1>4, Induction
  <1> QED BY <1>1, <1>5 DEF T

Ended(p) ==
  IF p.row = << <<>> >> /\ p.in \in {"start", "cr"} THEN p.rows ELSE Append(p.rows, p.row)

LEMMA Parsed ==
  ASSUME NEW s \in Text, NEW q, Reads(s, Nowhere, q)
  PROVE  C!parseCSV(s) = Ended(q)
  <1> PICK n \in Nat : n = Len(s)
    BY DEF Text
  <1>1. PICK g \in [0..n -> Parsers] :
          g[0] = Nowhere /\ g[n] = q /\ \A i \in 1..n : g[i] = C!Char(g[i - 1], s[i])
    BY DEF Reads
  <1> DEFINE begin == [rows |-> <<>>, row |-> << <<>> >>, in |-> "start"]
             f == CHOOSE f : f = [i \in 0..n |-> IF i = 0 THEN begin ELSE C!Char(f[i - 1], s[i])]
  <1>2. begin = Nowhere
    <2>1. Append(<<>>, <<>>) = << <<>> >>
      OBVIOUS
    <2> QED BY <2>1 DEF Nowhere, In
  <1> HIDE DEF begin
  <1>3. g = [i \in 0..n |-> IF i = 0 THEN begin ELSE C!Char(g[i - 1], s[i])]
    <2>1. ASSUME NEW i \in 0..n PROVE g[i] = IF i = 0 THEN begin ELSE C!Char(g[i - 1], s[i])
      <3>1. i # 0 => i \in 1..n
        OBVIOUS
      <3> QED BY <1>1, <1>2, <3>1
    <2> QED BY <2>1
  <1>4. f = [i \in 0..n |-> IF i = 0 THEN begin ELSE C!Char(f[i - 1], s[i])]
    BY <1>3, Zenon
  <1> HIDE DEF f
  <1> DEFINE T == {i \in Nat : i <= n => f[i] = g[i]}
  <1>5. 0 \in T
    <2>1. 0 \in 0..n
      OBVIOUS
    <2> QED BY <1>1, <1>2, <1>4, <2>1
  <1>6. ASSUME NEW i \in Nat, i \in T PROVE i + 1 \in T
    <2> SUFFICES ASSUME i + 1 <= n PROVE f[i + 1] = g[i + 1]
      OBVIOUS
    <2> PICK k : k = i + 1
      OBVIOUS
    <2>1. k - 1 = i /\ k \in 1..n /\ k \in 0..n /\ k # 0 /\ f[i] = g[i]
      BY <1>6
    <2>2. f[k] = C!Char(f[i], s[k])
      BY <1>4, <2>1
    <2>3. g[k] = C!Char(g[i], s[k])
      BY <1>1, <2>1
    <2> QED BY <2>1, <2>2, <2>3
  <1> HIDE DEF T
  <1>7. n \in T
    BY <1>5, <1>6, Induction
  <1>8. f[n] = q
    BY <1>1, <1>7 DEF T
  <1>9. C!parseCSV(s) = Ended(f[n])
    BY DEF C!parseCSV, Ended, begin, f
  <1> QED BY <1>8, <1>9

-----------------------------------------------------------------------------
(* What is written is read: cells, rows, tables.  Beginning(s, k) is the   *)
(* first k members of s.                                                   *)

Beginning(s, k) == [i \in 1..k |-> s[i]]

LEMMA Beginnings ==
  ASSUME NEW S, NEW s \in Seq(S)
  PROVE  /\ \A k \in 0..Len(s) : Beginning(s, k) \in Seq(S)
         /\ Beginning(s, 0) = <<>> /\ Beginning(s, Len(s)) = s
         /\ \A k \in 1..Len(s) :
              s[k] \in S /\ k - 1 \in 0..Len(s) /\ Append(Beginning(s, k - 1), s[k]) = Beginning(s, k)
  <1>1. ASSUME NEW k \in 0..Len(s) PROVE Beginning(s, k) \in Seq(S)
    BY DEF Beginning
  <1>2. Beginning(s, 0) = <<>> /\ Beginning(s, Len(s)) = s
    BY DEF Beginning
  <1>3. ASSUME NEW k \in 1..Len(s)
        PROVE s[k] \in S /\ k - 1 \in 0..Len(s) /\ Append(Beginning(s, k - 1), s[k]) = Beginning(s, k)
    <2>1. s[k] \in S /\ k - 1 \in 0..Len(s)
      OBVIOUS
    <2> PICK b \in Seq(S) : b = Beginning(s, k - 1)
      BY <1>1, <2>1
    <2>2. Len(b) = k - 1 /\ \A i \in 1..k - 1 : b[i] = s[i]
      BY <2>1 DEF Beginning
    <2>3. Append(b, s[k]) = [i \in 1..k |-> IF i = k THEN s[k] ELSE b[i]]
      BY <2>1, <2>2
    <2>4. \A i \in 1..k : (IF i = k THEN s[k] ELSE b[i]) = s[i]
      BY <2>2
    <2> QED BY <2>1, <2>3, <2>4 DEF Beginning
  <1> QED BY <1>1, <1>2, <1>3

LEMMA LastOne ==
  ASSUME NEW S, NEW s \in Seq(S), NEW n \in Nat, n = Len(s), n > 0
  PROVE  s[n] \in S /\ Beginning(s, n - 1) \in Seq(S) /\ Append(Beginning(s, n - 1), s[n]) = s
  <1>1. n \in 1..Len(s) /\ n - 1 \in 0..Len(s)
    OBVIOUS
  <1>2. \A k \in 1..Len(s) :
          s[k] \in S /\ k - 1 \in 0..Len(s) /\ Append(Beginning(s, k - 1), s[k]) = Beginning(s, k)
    BY Beginnings, Zenon
  <1>3. Beginning(s, n - 1) \in Seq(S) /\ Beginning(s, Len(s)) = s
    BY <1>1, Beginnings
  <1> QED BY <1>1, <1>2, <1>3

Doubled(v) == [i \in DOMAIN v |-> IF v[i] = C!Quote THEN <<C!Quote, C!Quote>> ELSE <<v[i]>>]

LEMMA QuotedText ==
  ASSUME NEW v \in Text
  PROVE  /\ Doubled(v) \in Seq(Text) /\ Len(Doubled(v)) = Len(v)
         /\ FlattenSeq(Doubled(v)) \in Text /\ C!Quoted(v) \in Text
         /\ C!Quoted(v) = (<<"quote">> \o FlattenSeq(Doubled(v))) \o <<"quote">>
  <1> PICK n \in Nat : n = Len(v)
    BY DEF Text
  <1>1. <<"quote">> \in Text /\ <<"quote", "quote">> \in Text
    BY Special DEF Text
  <1>2. ASSUME NEW i \in 1..n
        PROVE (IF v[i] = C!Quote THEN <<C!Quote, C!Quote>> ELSE <<v[i]>>) \in Text
    <2>1. v[i] \in Characters
      BY DEF Text
    <2>2. <<v[i]>> \in Text
      BY <2>1, Special
    <2> QED BY <1>1, <2>2 DEF C!Quote
  <1>3. DOMAIN v = 1..n
    BY DEF Text
  <1>4. Doubled(v) \in [1..n -> Text]
    BY <1>2, <1>3 DEF Doubled
  <1>5. Doubled(v) \in Seq(Text) /\ Len(Doubled(v)) = n
    BY <1>4
  <1>6. FlattenSeq(Doubled(v)) \in Text
    BY <1>5, FlattenType DEF Text
  <1>7. C!Quoted(v) = (<<"quote">> \o FlattenSeq(Doubled(v))) \o <<"quote">>
    <2>1. C!Quoted(v) = (<<C!Quote>> \o C!FlattenSeq(Doubled(v))) \o <<C!Quote>>
      BY Zenon DEF C!Quoted, Doubled
    <2>2. C!FlattenSeq(Doubled(v)) = FlattenSeq(Doubled(v))
      BY Flattened
    <2> QED BY <2>1, <2>2 DEF C!Quote
  <1>8. (<<"quote">> \o FlattenSeq(Doubled(v))) \o <<"quote">> \in Text
    BY <1>1, <1>6 DEF Text
  <1> QED BY <1>5, <1>6, <1>7, <1>8

LEMMA QuotedIsRead ==
  ASSUME NEW R \in Seq(Seq(Text)), NEW P \in Seq(Text), NEW v \in Text
  PROVE  Reads(C!Quoted(v), In(R, P, <<>>, "start"), In(R, P, v, "quote"))
  <1> DEFINE n == Len(v)
             ss == Doubled(v)
             q == [k \in 0..n |-> In(R, P, Beginning(v, k), "quoted")]
  <1>1. n \in Nat /\ Len(ss) = n /\ <<>> \in Text /\ "quote" \in Characters /\ <<"quote">> \in Text
    BY Special, QuotedText DEF Text
  <1>2. ASSUME NEW i \in 1..n PROVE Reads(ss[i], q[i - 1], q[i])
    <2>1. /\ i - 1 \in 0..n /\ i \in 0..n /\ v[i] \in Characters
          /\ Beginning(v, i - 1) \in Text /\ Beginning(v, i) \in Text
          /\ Append(Beginning(v, i - 1), v[i]) = Beginning(v, i)
      BY Beginnings DEF Text
    <2> PICK w \in Text, c \in Characters : w = Beginning(v, i - 1) /\ c = v[i]
      BY <2>1
    <2>0. ss[i] = IF c = C!Quote THEN <<C!Quote, C!Quote>> ELSE <<c>>
      <3>1. i \in DOMAIN v
        BY DEF Text
      <3> QED BY <3>1 DEF Doubled
    <2>2. q[i - 1] = In(R, P, w, "quoted") /\ q[i] = In(R, P, Append(w, c), "quoted")
      BY <2>1
    <2>3. Append(w, c) \in Text
      BY DEF Text
    <2>4. /\ In(R, P, w, "quoted") \in Parsers /\ In(R, P, w, "quote") \in Parsers
          /\ In(R, P, Append(w, c), "quoted") \in Parsers
      BY <2>3, InType
    <2>5. CASE c = C!Quote
      <3>1. ss[i] = <<"quote">> \o <<"quote">>
        <4>1. <<"quote">> \o <<"quote">> = <<"quote", "quote">>
          BY <1>1, Two
        <4> QED BY <2>0, <2>5, <4>1 DEF C!Quote
      <3>2. Reads(<<"quote">>, In(R, P, w, "quoted"), In(R, P, w, "quote"))
        BY <1>1, <2>4, Chars, ReadsOne
      <3>3. Reads(<<"quote">>, In(R, P, w, "quote"), In(R, P, Append(w, c), "quoted"))
        <4>1. C!Char(In(R, P, w, "quote"), "quote") = In(R, P, Append(w, c), "quoted")
          BY <2>5, Chars DEF C!Quote
        <4> QED BY <1>1, <2>4, <4>1, ReadsOne
      <3>4. Reads(<<"quote">> \o <<"quote">>, In(R, P, w, "quoted"), In(R, P, Append(w, c), "quoted"))
        BY <1>1, <3>2, <3>3, ReadsJoin, Zenon
      <3> HIDE DEF q, ss
      <3> QED BY <2>2, <3>1, <3>4
    <2>6. CASE c # C!Quote
      <3>1. ss[i] = <<c>>
        BY <2>0, <2>6
      <3>2. C!Char(In(R, P, w, "quoted"), c) = In(R, P, Append(w, c), "quoted")
        BY <2>6, Chars DEF C!Quote
      <3>3. Reads(<<c>>, In(R, P, w, "quoted"), In(R, P, Append(w, c), "quoted"))
        BY <2>4, <3>2, ReadsOne
      <3> HIDE DEF q, ss
      <3> QED BY <2>2, <3>1, <3>3
    <2> QED BY <2>5, <2>6
  <1>3. q[0] = In(R, P, <<>>, "quoted") /\ q[n] = In(R, P, v, "quoted")
    BY <1>1, Beginnings DEF Text
  <1>4. /\ In(R, P, <<>>, "quoted") \in Parsers /\ In(R, P, <<>>, "start") \in Parsers
        /\ In(R, P, v, "quoted") \in Parsers /\ In(R, P, v, "quote") \in Parsers
    BY <1>1, InType
  <1>5. ss \in Seq(Text) /\ FlattenSeq(ss) \in Text
    BY QuotedText
  <1>6. C!Quoted(v) = (<<"quote">> \o FlattenSeq(ss)) \o <<"quote">>
    BY QuotedText
  <1> HIDE DEF ss, q
  <1>7. Reads(FlattenSeq(ss), q[0], q[n])
    <2>1. q[0] \in Parsers
      BY <1>3, <1>4
    <2>2. \A i \in 1..Len(ss) : Reads(ss[i], q[i - 1], q[i])
      BY <1>1, <1>2
    <2>3. Reads(FlattenSeq(ss), q[0], q[Len(ss)])
      BY <1>5, <2>1, <2>2, ReadsAll, Zenon
    <2> QED BY <1>1, <2>3
  <1>8. Reads(<<"quote">>, In(R, P, <<>>, "start"), q[0])
    BY <1>1, <1>3, <1>4, Chars, ReadsOne
  <1>9. Reads(<<"quote">>, q[n], In(R, P, v, "quote"))
    BY <1>1, <1>3, <1>4, Chars, ReadsOne
  <1>10. Reads(<<"quote">> \o FlattenSeq(ss), In(R, P, <<>>, "start"), q[n])
    BY <1>1, <1>5, <1>7, <1>8, ReadsJoin, Zenon
  <1>11. <<"quote">> \o FlattenSeq(ss) \in Text
    BY <1>1, <1>5 DEF Text
  <1> QED BY <1>1, <1>6, <1>9, <1>10, <1>11, ReadsJoin, Zenon

\* Where a cell leaves the parser.
Left(v, quoted) ==
  IF quoted \/ C!Has(v, {"quote", "comma", "LF", "CR"}) THEN "quote"
  ELSE IF v = <<>> THEN "start" ELSE "plain"

Encoded(v, quoted) == IF quoted THEN C!Quoted(v) ELSE C!csvCell(v)

LEMMA PlainIsRead ==
  ASSUME NEW R \in Seq(Seq(Text)), NEW P \in Seq(Text), NEW v \in Text,
         ~C!Has(v, {"quote", "comma", "LF", "CR"})
  PROVE  Reads(v, In(R, P, <<>>, "start"), In(R, P, v, IF v = <<>> THEN "start" ELSE "plain"))
  <1> DEFINE n == Len(v)
             f == [k \in 0..n |-> In(R, P, Beginning(v, k), IF k = 0 THEN "start" ELSE "plain")]
  <1>1. n \in Nat /\ (n = 0 <=> v = <<>>)
    BY DEF Text
  <1>2. \A k \in 0..n : Beginning(v, k) \in Text
    BY Beginnings DEF Text
  <1>3. f \in [0..n -> Parsers]
    BY <1>2, InType
  <1>4. f[0] = In(R, P, <<>>, "start") /\ f[n] = In(R, P, v, IF v = <<>> THEN "start" ELSE "plain")
    <2>1. Beginning(v, 0) = <<>> /\ Beginning(v, n) = v
      BY Beginnings DEF Text
    <2> QED BY <1>1, <2>1
  <1>5. ASSUME NEW i \in 1..n PROVE f[i] = C!Char(f[i - 1], v[i])
    <2>1. /\ i - 1 \in 0..n /\ i \in 0..n /\ v[i] \in Characters
          /\ Append(Beginning(v, i - 1), v[i]) = Beginning(v, i)
      BY Beginnings DEF Text
    <2> PICK w \in Text, c \in Characters, st \in {"start", "plain"} :
          w = Beginning(v, i - 1) /\ c = v[i] /\ st = IF i - 1 = 0 THEN "start" ELSE "plain"
      BY <1>2, <2>1
    <2>2. f[i - 1] = In(R, P, w, st) /\ f[i] = In(R, P, Append(w, c), "plain")
      <3> PICK k : k = i - 1
        OBVIOUS
      <3>1. k \in 0..n /\ i # 0 /\ w = Beginning(v, k) /\ st = IF k = 0 THEN "start" ELSE "plain"
        BY <2>1
      <3>2. f[k] = In(R, P, Beginning(v, k), IF k = 0 THEN "start" ELSE "plain")
        BY <3>1
      <3>3. f[i] = In(R, P, Beginning(v, i), "plain")
        BY <2>1, <3>1
      <3> HIDE DEF f
      <3> QED BY <2>1, <3>1, <3>2, <3>3
    <2>3. c \notin {"quote", "comma", "CR", "LF"}
      BY <1>1 DEF C!Has, Text
    <2>4. C!Char(In(R, P, w, st), c) = In(R, P, Append(w, c), "plain")
      BY <2>3, Chars
    <2> HIDE DEF f
    <2> QED BY <2>2, <2>4
  <1> HIDE DEF f
  <1> QED BY <1>3, <1>4, <1>5 DEF Reads

LEMMA CellIsRead ==
  ASSUME NEW R \in Seq(Seq(Text)), NEW P \in Seq(Text), NEW v \in Text, NEW quoted \in BOOLEAN
  PROVE  /\ Encoded(v, quoted) \in Text
         /\ Left(v, quoted) \in {"start", "plain", "quote"}
         /\ In(R, P, v, Left(v, quoted)) \in Parsers
         /\ Reads(Encoded(v, quoted), In(R, P, <<>>, "start"), In(R, P, v, Left(v, quoted)))
  <1>1. Left(v, quoted) \in {"start", "plain", "quote"}
    BY DEF Left
  <1>2. In(R, P, v, Left(v, quoted)) \in Parsers
    BY <1>1, InType
  <1>3. CASE quoted \/ C!Has(v, {"quote", "comma", "LF", "CR"})
    <2>1. Encoded(v, quoted) = C!Quoted(v) /\ Left(v, quoted) = "quote"
      BY <1>3 DEF Encoded, Left, C!csvCell, C!Quote, C!Comma, C!LF, C!CR
    <2> QED BY <1>1, <1>2, <2>1, QuotedText, QuotedIsRead
  <1>4. CASE ~(quoted \/ C!Has(v, {"quote", "comma", "LF", "CR"}))
    <2>1. /\ Encoded(v, quoted) = v
          /\ Left(v, quoted) = IF v = <<>> THEN "start" ELSE "plain"
      BY <1>4 DEF Encoded, Left, C!csvCell, C!Quote, C!Comma, C!LF, C!CR
    <2> QED BY <1>1, <1>2, <1>4, <2>1, PlainIsRead
  <1> QED BY <1>3, <1>4

LEMMA JoinedType ==
  ASSUME NEW ss \in Seq(Text), NEW sep \in Text
  PROVE  /\ C!Joined(ss, sep) \in Text
         /\ [i \in DOMAIN ss |-> IF i = 1 THEN ss[1] ELSE sep \o ss[i]] \in Seq(Text)
  <1> DEFINE tt == [i \in DOMAIN ss |-> IF i = 1 THEN ss[1] ELSE sep \o ss[i]]
  <1>1. \A i \in DOMAIN ss : ss[i] \in Text /\ sep \o ss[i] \in Text
    <2>1. \A i \in DOMAIN ss : ss[i] \in Text
      OBVIOUS
    <2>2. \A t \in Text : sep \o t \in Text
      BY DEF Text
    <2> QED BY <2>1, <2>2
  <1>2. tt \in [1..Len(ss) -> Text]
    BY <1>1
  <1>3. tt \in Seq(Text)
    BY <1>2
  <1> HIDE DEF tt
  <1>4. FlattenSeq(tt) \in Text
    BY <1>3, FlattenType DEF Text
  <1>5. C!FlattenSeq(tt) = FlattenSeq(tt)
    BY Flattened
  <1>6. C!Joined(ss, sep) = C!FlattenSeq(tt)
    BY Zenon DEF tt, C!Joined
  <1> QED BY <1>3, <1>4, <1>5, <1>6 DEF tt

\* Parts with a separator between them, from b[k] to e[k] each.
LEMMA JoinedIsRead ==
  ASSUME NEW ss \in Seq(Text), NEW sep \in Text, Len(ss) > 0, NEW b, NEW e, b[1] \in Parsers,
         \A k \in 1..Len(ss) : Reads(ss[k], b[k], e[k]),
         \A k \in 2..Len(ss) : Reads(sep, e[k - 1], b[k])
  PROVE  Reads(C!Joined(ss, sep), b[1], e[Len(ss)])
  <1> DEFINE tt == [i \in DOMAIN ss |-> IF i = 1 THEN ss[1] ELSE sep \o ss[i]]
  <1> PICK n \in Nat : n = Len(ss) /\ n > 0
    OBVIOUS
  <1> DEFINE q == [k \in 0..n |-> IF k = 0 THEN b[1] ELSE e[k]]
  <1>1. tt \in Seq(Text) /\ Len(tt) = n
    <2>1. DOMAIN tt = 1..n
      OBVIOUS
    <2>2. tt \in Seq(Text)
      BY JoinedType
    <2> HIDE DEF tt
    <2> QED BY <2>1, <2>2
  <1>2. q[0] = b[1] /\ q[n] = e[n] /\ \A k \in 1..n : q[k] = e[k]
    OBVIOUS
  <1>3. ASSUME NEW k \in 1..n PROVE Reads(tt[k], q[k - 1], q[k])
    <2>1. CASE k = 1
      <3>1. tt[k] = ss[1] /\ q[k - 1] = b[1] /\ q[k] = e[1] /\ 1 \in 1..n
        BY <2>1
      <3> HIDE DEF tt, q
      <3> QED BY <3>1
    <2>2. CASE k # 1
      <3>1. k \in 2..n /\ k - 1 \in 1..n /\ ss[k] \in Text
        BY <2>2
      <3>2. tt[k] = sep \o ss[k] /\ q[k - 1] = e[k - 1] /\ q[k] = e[k]
        BY <1>2, <2>2, <3>1
      <3>3. Reads(sep, e[k - 1], b[k]) /\ Reads(ss[k], b[k], e[k])
        BY <3>1
      <3>4. Reads(sep \o ss[k], e[k - 1], e[k])
        BY <3>1, <3>3, ReadsJoin, Zenon
      <3> HIDE DEF tt, q
      <3> QED BY <3>2, <3>4
    <2> QED BY <2>1, <2>2
  <1>4. C!Joined(ss, sep) = FlattenSeq(tt)
    <2>1. C!Joined(ss, sep) = C!FlattenSeq(tt)
      BY Zenon DEF C!Joined
    <2> HIDE DEF tt
    <2> QED BY <2>1, Flattened
  <1> HIDE DEF tt, q
  <1>5. q[0] \in Parsers
    BY <1>2
  <1>6. \A k \in 1..Len(tt) : Reads(tt[k], q[k - 1], q[k])
    BY <1>1, <1>3
  <1>7. Reads(FlattenSeq(tt), q[0], q[Len(tt)])
    BY <1>1, <1>5, <1>6, ReadsAll, Zenon
  <1> QED BY <1>1, <1>2, <1>4, <1>7

RowText(cells, quoted) ==
  C!Joined([j \in DOMAIN cells |-> Encoded(cells[j], quoted)], <<C!Comma>>)

\* The parser at the end of a row.
RowEnd(R, cells, quoted) ==
  In(R, Beginning(cells, Len(cells) - 1), cells[Len(cells)], Left(cells[Len(cells)], quoted))

LEMMA RowIsRead ==
  ASSUME NEW R \in Seq(Seq(Text)), NEW cells \in Seq(Text) \ {<<>>}, NEW quoted \in BOOLEAN
  PROVE  /\ RowText(cells, quoted) \in Text
         /\ Reads(RowText(cells, quoted), In(R, <<>>, <<>>, "start"), RowEnd(R, cells, quoted))
  <1> DEFINE ss == [j \in DOMAIN cells |-> Encoded(cells[j], quoted)]
             Pre(k) == Beginning(cells, k - 1)
  <1> PICK n \in Nat : n = Len(cells) /\ n > 0
    OBVIOUS
  <1> DEFINE b == [k \in 1..n |-> In(R, Pre(k), <<>>, "start")]
             e == [k \in 1..n |-> In(R, Pre(k), cells[k], Left(cells[k], quoted))]
  <1>1. ASSUME NEW k \in 1..n PROVE cells[k] \in Text /\ Pre(k) \in Seq(Text)
    <2>1. k - 1 \in 0..n /\ cells[k] \in Text
      OBVIOUS
    <2> QED BY <2>1, Beginnings
  <1>2. <<>> \in Text /\ <<C!Comma>> \in Text /\ "comma" \in Characters
    BY Special DEF C!Comma
  <1>3. ASSUME NEW k \in 1..n
        PROVE ss[k] \in Text /\ b[k] \in Parsers /\ e[k] \in Parsers /\ Reads(ss[k], b[k], e[k])
    <2>1. ss[k] = Encoded(cells[k], quoted)
      OBVIOUS
    <2>2. b[k] = In(R, Pre(k), <<>>, "start") /\ e[k] = In(R, Pre(k), cells[k], Left(cells[k], quoted))
      OBVIOUS
    <2> HIDE DEF ss, b, e, Pre
    <2>3. b[k] \in Parsers
      BY <1>1, <1>2, <2>2, InType
    <2> QED BY <1>1, <2>1, <2>2, <2>3, CellIsRead
  <1>4. ss \in Seq(Text) /\ Len(ss) = n
    <2>1. ss = [k \in 1..n |-> ss[k]]
      OBVIOUS
    <2>2. ASSUME NEW k \in 1..n PROVE ss[k] \in Text
      BY <1>3
    <2> HIDE DEF ss
    <2>3. [k \in 1..n |-> ss[k]] \in [1..n -> Text]
      BY <2>2
    <2>4. [k \in 1..n |-> ss[k]] \in Seq(Text) /\ Len([k \in 1..n |-> ss[k]]) = n
      BY <2>3
    <2> QED BY <2>1, <2>4
  <1>5. ASSUME NEW k \in 2..n PROVE Reads(<<C!Comma>>, e[k - 1], b[k])
    <2> PICK h \in 1..n : h = k - 1
      OBVIOUS
    <2>1. Append(Pre(h), cells[h]) = Pre(k) /\ k \in 1..n
      <3>1. h \in 1..Len(cells) /\ k - 1 = h
        OBVIOUS
      <3> QED BY <3>1, Beginnings
    <2>2. e[h] = In(R, Pre(h), cells[h], Left(cells[h], quoted)) /\ b[k] = In(R, Pre(k), <<>>, "start")
      BY <2>1
    <2>3. e[h] \in Parsers /\ b[k] \in Parsers /\ cells[h] \in Text /\ Pre(h) \in Seq(Text)
      BY <1>1, <1>3, <2>1
    <2> HIDE DEF b, e, Pre
    <2>4. Left(cells[h], quoted) \in {"start", "plain", "quote"}
      BY <2>3, CellIsRead
    <2> PICK v, u, s : v = cells[h] /\ u = Pre(h) /\ s = Left(cells[h], quoted)
      OBVIOUS
    <2>5. C!Char(e[h], "comma") = b[k]
      <3>1. C!Char(In(R, u, v, s), "comma") = In(R, Append(u, v), <<>>, "start")
        BY <2>4, CharsAfter
      <3> QED BY <2>1, <2>2, <3>1
    <2>6. Reads(<<"comma">>, e[h], b[k])
      BY <1>2, <2>3, <2>5, ReadsOne
    <2> QED BY <2>6 DEF C!Comma
  <1>6. b[1] = In(R, <<>>, <<>>, "start") /\ e[n] = RowEnd(R, cells, quoted)
    <2>1. Beginning(cells, 0) = <<>>
      BY Beginnings
    <2> QED BY <2>1 DEF RowEnd
  <1> HIDE DEF ss, b, e
  <1>7. Reads(C!Joined(ss, <<C!Comma>>), b[1], e[Len(ss)])
    <2>1. \A k \in 1..Len(ss) : Reads(ss[k], b[k], e[k])
      BY <1>3, <1>4
    <2>2. \A k \in 2..Len(ss) : Reads(<<C!Comma>>, e[k - 1], b[k])
      BY <1>4, <1>5
    <2>3. b[1] \in Parsers /\ Len(ss) > 0
      BY <1>3, <1>4
    <2> QED BY <1>2, <1>4, <2>1, <2>2, <2>3, JoinedIsRead
  <1>8. C!Joined(ss, <<C!Comma>>) \in Text
    BY <1>2, <1>4, JoinedType
  <1> QED BY <1>4, <1>6, <1>7, <1>8 DEF RowText, ss

LEMMA EndOfRowIsRead ==
  ASSUME NEW R \in Seq(Seq(Text)), NEW cells \in Seq(Text) \ {<<>>}, NEW quoted \in BOOLEAN,
         NEW eol \in {<<"LF">>, <<"CR", "LF">>}
  PROVE  /\ eol \in Text /\ Append(R, cells) \in Seq(Seq(Text))
         /\ Reads(eol, RowEnd(R, cells, quoted), In(Append(R, cells), <<>>, <<>>, "start"))
  <1> PICK n \in Nat : n = Len(cells) /\ n > 0
    OBVIOUS
  <1>1. /\ cells[n] \in Text /\ Beginning(cells, n - 1) \in Seq(Text)
        /\ Append(Beginning(cells, n - 1), cells[n]) = cells
    BY LastOne
  <1> PICK P \in Seq(Text), v \in Text : P = Beginning(cells, n - 1) /\ v = cells[n]
    BY <1>1
  <1> PICK st : st = Left(v, quoted)
    OBVIOUS
  <1>2. st \in {"start", "plain", "quote"} /\ In(R, P, v, st) \in Parsers
    BY CellIsRead
  <1>3. RowEnd(R, cells, quoted) = In(R, P, v, st)
    BY DEF RowEnd
  <1> PICK next : next = Append(R, cells)
    OBVIOUS
  <1>4. next \in Seq(Seq(Text)) /\ <<>> \in Text /\ <<>> \in Seq(Text)
    BY DEF Text
  <1>5. In(next, <<>>, <<>>, "start") \in Parsers /\ In(next, <<>>, <<>>, "cr") \in Parsers
    BY <1>4, InType
  <1>6. "LF" \in Characters /\ "CR" \in Characters /\ <<"LF">> \in Text /\ <<"CR">> \in Text
    BY Special
  <1>7. /\ C!Char(In(R, P, v, st), "LF") = In(next, <<>>, <<>>, "start")
        /\ C!Char(In(R, P, v, st), "CR") = In(next, <<>>, <<>>, "cr")
    <2>1. Append(P, v) = cells
      BY <1>1
    <2>2. /\ C!Char(In(R, P, v, st), "LF") = In(Append(R, Append(P, v)), <<>>, <<>>, "start")
          /\ C!Char(In(R, P, v, st), "CR") = In(Append(R, Append(P, v)), <<>>, <<>>, "cr")
      BY <1>2, CharsAfter
    <2> QED BY <2>1, <2>2
  <1>8. C!Char(In(next, <<>>, <<>>, "cr"), "LF") = In(next, <<>>, <<>>, "start")
    BY CharsAfter
  <1>9. CASE eol = <<"LF">>
    BY <1>2, <1>3, <1>4, <1>5, <1>6, <1>7, <1>9, ReadsOne
  <1>10. CASE eol = <<"CR", "LF">>
    <2>1. eol = <<"CR">> \o <<"LF">> /\ eol \in Text
      BY <1>6, <1>10, Two
    <2>2. Reads(<<"CR">>, In(R, P, v, st), In(next, <<>>, <<>>, "cr"))
      BY <1>2, <1>5, <1>6, <1>7, ReadsOne
    <2>3. Reads(<<"LF">>, In(next, <<>>, <<>>, "cr"), In(next, <<>>, <<>>, "start"))
      BY <1>5, <1>6, <1>8, ReadsOne
    <2>4. Reads(<<"CR">> \o <<"LF">>, In(R, P, v, st), In(next, <<>>, <<>>, "start"))
      BY <1>6, <2>2, <2>3, ReadsJoin, Zenon
    <2> QED BY <1>3, <1>4, <2>1, <2>4
  <1> QED BY <1>9, <1>10

TableText(all, quoted, eol) ==
  C!Joined([i \in DOMAIN all |-> RowText(all[i], quoted)], eol)

LEMMA TableIsRead ==
  ASSUME NEW all \in Seq(Seq(Text) \ {<<>>}), NEW quoted \in BOOLEAN,
         NEW eol \in {<<"LF">>, <<"CR", "LF">>}, NEW n \in Nat, n = Len(all), n > 0
  PROVE  /\ TableText(all, quoted, eol) \in Text
         /\ all[n] \in Seq(Text) \ {<<>>} /\ Beginning(all, n - 1) \in Seq(Seq(Text))
         /\ Append(Beginning(all, n - 1), all[n]) = all
         /\ Reads(TableText(all, quoted, eol), Nowhere, RowEnd(Beginning(all, n - 1), all[n], quoted))
  <1> DEFINE ss == [i \in DOMAIN all |-> RowText(all[i], quoted)]
             Pre(k) == Beginning(all, k - 1)
             b == [k \in 1..n |-> In(Pre(k), <<>>, <<>>, "start")]
             e == [k \in 1..n |-> RowEnd(Pre(k), all[k], quoted)]
  <1>1. /\ \A k \in 1..n : Pre(k) \in Seq(Seq(Text)) /\ all[k] \in Seq(Text) \ {<<>>}
        /\ \A k \in 1..n : Append(Pre(k), all[k]) = Beginning(all, k)
        /\ Beginning(all, 0) = <<>> /\ Beginning(all, n) = all
    <2>1. all \in Seq(Seq(Text))
      OBVIOUS
    <2>2. /\ \A k \in 0..n : Beginning(all, k) \in Seq(Seq(Text))
          /\ \A k \in 1..n : k - 1 \in 0..n /\ Append(Beginning(all, k - 1), all[k]) = Beginning(all, k)
          /\ Beginning(all, 0) = <<>> /\ Beginning(all, n) = all
      <3>1. \A k \in 0..Len(all) : Beginning(all, k) \in Seq(Seq(Text))
        BY <2>1, Beginnings, Zenon
      <3>2. Beginning(all, 0) = <<>> /\ Beginning(all, Len(all)) = all
        BY <2>1, Beginnings, Zenon
      <3>3. \A k \in 1..Len(all) : all[k] \in Seq(Text) /\ k - 1 \in 0..Len(all)
              /\ Append(Beginning(all, k - 1), all[k]) = Beginning(all, k)
        BY <2>1, Beginnings, Zenon
      <3> QED BY <3>1, <3>2, <3>3
    <2>3. \A k \in 1..n : all[k] \in Seq(Text) \ {<<>>}
      OBVIOUS
    <2> QED BY <2>2, <2>3
  <1>2. <<>> \in Text /\ <<>> \in Seq(Text) /\ eol \in Text
    <2>1. eol \in Text
      BY Special, Two
    <2> QED BY <2>1, Special
  <1>3. ASSUME NEW k \in 1..n
        PROVE  ss[k] \in Text /\ b[k] \in Parsers /\ Reads(ss[k], b[k], e[k])
    <2>1. ss[k] = RowText(all[k], quoted)
      OBVIOUS
    <2>2. b[k] = In(Pre(k), <<>>, <<>>, "start") /\ e[k] = RowEnd(Pre(k), all[k], quoted)
      OBVIOUS
    <2> PICK R \in Seq(Seq(Text)), cells \in Seq(Text) \ {<<>>} : R = Pre(k) /\ cells = all[k]
      BY <1>1
    <2> HIDE DEF ss, b, e, Pre
    <2>3. b[k] \in Parsers
      BY <1>2, <2>2, InType
    <2>4. /\ RowText(cells, quoted) \in Text
          /\ Reads(RowText(cells, quoted), In(R, <<>>, <<>>, "start"), RowEnd(R, cells, quoted))
      BY RowIsRead
    <2> QED BY <2>1, <2>2, <2>3, <2>4
  <1>4. ss \in Seq(Text) /\ Len(ss) = n
    <2>1. ss = [k \in 1..n |-> ss[k]]
      OBVIOUS
    <2>2. ASSUME NEW k \in 1..n PROVE ss[k] \in Text
      BY <1>3
    <2> HIDE DEF ss
    <2>3. [k \in 1..n |-> ss[k]] \in [1..n -> Text]
      BY <2>2
    <2>4. [k \in 1..n |-> ss[k]] \in Seq(Text) /\ Len([k \in 1..n |-> ss[k]]) = n
      BY <2>3
    <2> QED BY <2>1, <2>4
  <1>5. ASSUME NEW k \in 2..n PROVE Reads(eol, e[k - 1], b[k])
    <2> PICK h \in 1..n : h = k - 1
      OBVIOUS
    <2>1. Append(Pre(h), all[h]) = Pre(k) /\ k \in 1..n
      BY <1>1
    <2>2. e[h] = RowEnd(Pre(h), all[h], quoted) /\ b[k] = In(Pre(k), <<>>, <<>>, "start")
      BY <2>1
    <2> PICK R \in Seq(Seq(Text)), cells \in Seq(Text) \ {<<>>} : R = Pre(h) /\ cells = all[h]
      BY <1>1
    <2> HIDE DEF b, e, Pre
    <2>3. Reads(eol, RowEnd(R, cells, quoted), In(Append(R, cells), <<>>, <<>>, "start"))
      BY EndOfRowIsRead
    <2> QED BY <2>1, <2>2, <2>3
  <1>6. b[1] = Nowhere /\ e[n] = RowEnd(Beginning(all, n - 1), all[n], quoted)
    BY <1>1 DEF Nowhere
  <1>7. /\ all[n] \in Seq(Text) \ {<<>>} /\ Beginning(all, n - 1) \in Seq(Seq(Text))
        /\ Append(Beginning(all, n - 1), all[n]) = all
    <2>1. n \in 1..n
      OBVIOUS
    <2>2. Pre(n) \in Seq(Seq(Text)) /\ all[n] \in Seq(Text) \ {<<>>}
      BY <1>1, <2>1, Zenon
    <2>3. Append(Pre(n), all[n]) = all
      BY <1>1, <2>1, Zenon
    <2> QED BY <2>2, <2>3, Zenon
  <1> HIDE DEF ss, b, e
  <1>8. Reads(C!Joined(ss, eol), b[1], e[Len(ss)])
    <2>1. \A k \in 1..Len(ss) : Reads(ss[k], b[k], e[k])
      BY <1>3, <1>4
    <2>2. \A k \in 2..Len(ss) : Reads(eol, e[k - 1], b[k])
      BY <1>4, <1>5
    <2>3. b[1] \in Parsers /\ Len(ss) > 0
      BY <1>3, <1>4
    <2> QED BY <1>2, <1>4, <2>1, <2>2, <2>3, JoinedIsRead
  <1>9. C!Joined(ss, eol) \in Text
    BY <1>2, <1>4, JoinedType
  <1> QED BY <1>4, <1>6, <1>7, <1>8, <1>9 DEF TableText, ss

\* A table whose rows all end is read as it is, one whose last row does not
\* unless nothing is written of that row.
LEMMA TableIsParsed ==
  ASSUME NEW all \in Seq(Seq(Text) \ {<<>>}), NEW quoted \in BOOLEAN,
         NEW eol \in {<<"LF">>, <<"CR", "LF">>}, all # <<>>
  PROVE  /\ C!parseCSV(TableText(all, quoted, eol) \o eol) = all
         /\ quoted \/ all[Len(all)] # << <<>> >> => C!parseCSV(TableText(all, quoted, eol)) = all
  <1> PICK n \in Nat : n = Len(all) /\ n > 0
    OBVIOUS
  <1> PICK R, cells, t : R = Beginning(all, n - 1) /\ cells = all[n] /\ t = TableText(all, quoted, eol)
    OBVIOUS
  <1>1. /\ t \in Text /\ cells \in Seq(Text) \ {<<>>} /\ R \in Seq(Seq(Text)) /\ Append(R, cells) = all
        /\ Reads(t, Nowhere, RowEnd(R, cells, quoted))
    BY TableIsRead
  <1>2. C!parseCSV(t \o eol) = all
    <2>1. /\ eol \in Text
          /\ Reads(eol, RowEnd(R, cells, quoted), In(all, <<>>, <<>>, "start"))
      <3>1. Reads(eol, RowEnd(R, cells, quoted), In(Append(R, cells), <<>>, <<>>, "start"))
        BY <1>1, EndOfRowIsRead
      <3>2. eol \in Text
        BY Special, Two
      <3> QED BY <1>1, <3>1, <3>2
    <2>2. Reads(t \o eol, Nowhere, In(all, <<>>, <<>>, "start"))
      BY <1>1, <2>1, ReadsJoin, Zenon
    <2>3. t \o eol \in Text
      BY <1>1, <2>1 DEF Text
    <2>4. Ended(In(all, <<>>, <<>>, "start")) = all
      <3>1. Append(<<>>, <<>>) = << <<>> >>
        OBVIOUS
      <3> QED BY <3>1 DEF Ended, In
    <2> QED BY <2>2, <2>3, <2>4, Parsed
  <1>3. ASSUME quoted \/ cells # << <<>> >> PROVE C!parseCSV(t) = all
    <2> PICK k \in Nat : k = Len(cells) /\ k > 0
      BY <1>1
    <2> PICK P, v, st : P = Beginning(cells, k - 1) /\ v = cells[k] /\ st = Left(v, quoted)
      OBVIOUS
    <2>1. Append(P, v) = cells /\ v \in Text
      BY <1>1, LastOne
    <2>2. RowEnd(R, cells, quoted) = In(R, P, v, st)
      BY DEF RowEnd
    <2>3. ~(cells = << <<>> >> /\ st \in {"start", "cr"})
      <3> SUFFICES ASSUME cells = << <<>> >>, st \in {"start", "cr"} PROVE FALSE
        OBVIOUS
      <3> QED BY <1>3 DEF Left
    <2>4. Ended(In(R, P, v, st)) = Append(R, cells)
      BY <2>1, <2>3 DEF Ended, In
    <2> QED BY <1>1, <2>2, <2>4, Parsed
  <1> QED BY <1>2, <1>3

LEMMA NothingParsed == C!parseCSV(<<>>) = <<>>
  <1>1. <<>> \in Text /\ <<>> \in Seq(Text) /\ <<>> \in Seq(Seq(Text))
    BY Special
  <1>2. Nowhere \in Parsers
    BY <1>1, InType DEF Nowhere
  <1>3. Ended(Nowhere) = <<>>
    <2>1. Append(<<>>, <<>>) = << <<>> >>
      OBVIOUS
    <2> QED BY <2>1 DEF Ended, In, Nowhere
  <1> QED BY <1>1, <1>2, <1>3, ReadsNone, Parsed

-----------------------------------------------------------------------------
(* The rows of an export *)

\* Sequences from their members.
LEMMA Made ==
  ASSUME NEW S, NEW n \in Nat, NEW e, \A i \in 1..n : e[i] \in S
  PROVE  [i \in 1..n |-> e[i]] \in Seq(S) /\ Len([i \in 1..n |-> e[i]]) = n
  <1>1. [i \in 1..n |-> e[i]] \in [1..n -> S]
    OBVIOUS
  <1> QED BY <1>1

Picked(s, keep) == FlattenSeq([i \in DOMAIN s |-> IF i \in keep THEN <<s[i]>> ELSE <<>>])

LEMMA PickedType ==
  ASSUME NEW S, NEW s \in Seq(S), NEW keep
  PROVE  /\ [i \in DOMAIN s |-> IF i \in keep THEN <<s[i]>> ELSE <<>>] \in Seq(Seq(S))
         /\ Len([i \in DOMAIN s |-> IF i \in keep THEN <<s[i]>> ELSE <<>>]) = Len(s)
         /\ Picked(s, keep) \in Seq(S)
  <1> DEFINE ss == [i \in DOMAIN s |-> IF i \in keep THEN <<s[i]>> ELSE <<>>]
  <1> PICK n \in Nat : n = Len(s)
    OBVIOUS
  <1>1. ss = [i \in 1..n |-> ss[i]]
    OBVIOUS
  <1>2. ASSUME NEW i \in 1..n PROVE ss[i] \in Seq(S)
    <2>1. ss[i] = IF i \in keep THEN <<s[i]>> ELSE <<>>
      OBVIOUS
    <2> HIDE DEF ss
    <2>2. s[i] \in S
      OBVIOUS
    <2>3. <<s[i]>> \in Seq(S) /\ <<>> \in Seq(S)
      BY <2>2
    <2> QED BY <2>1, <2>3
  <1> HIDE DEF ss
  <1>3. ss \in Seq(Seq(S)) /\ Len(ss) = n
    <2>1. [i \in 1..n |-> ss[i]] \in Seq(Seq(S)) /\ Len([i \in 1..n |-> ss[i]]) = n
      BY <1>2, Made
    <2> QED BY <1>1, <2>1
  <1>4. FlattenSeq(ss) \in Seq(S)
    BY <1>3, FlattenType
  <1> QED BY <1>3, <1>4 DEF ss, Picked

\* w is the image of u.
Mapped(u, w, g, S, T) ==
  u \in Seq(S) /\ w \in Seq(T) /\ Len(w) = Len(u) /\ \A k \in 1..Len(u) : w[k] = g[u[k]]

LEMMA MappedJoin ==
  ASSUME NEW S, NEW T, NEW g, NEW u, NEW w, NEW x, NEW y,
         Mapped(u, w, g, S, T), Mapped(x, y, g, S, T)
  PROVE  Mapped(u \o x, w \o y, g, S, T)
  <1> PICK a \in Nat, b \in Nat : a = Len(u) /\ b = Len(x)
    BY DEF Mapped
  <1>0. /\ u \in Seq(S) /\ x \in Seq(S) /\ w \in Seq(T) /\ y \in Seq(T)
        /\ Len(u) = a /\ Len(w) = a /\ Len(x) = b /\ Len(y) = b
        /\ \A k \in 1..a : w[k] = g[u[k]]
        /\ \A k \in 1..b : y[k] = g[x[k]]
    BY DEF Mapped
  <1> PICK p, q : p = u \o x /\ q = w \o y
    OBVIOUS
  <1>1. /\ p \in Seq(S) /\ Len(p) = a + b
        /\ \A i \in 1..a : p[i] = u[i]
        /\ \A i \in 1..b : p[a + i] = x[i]
    BY <1>0, Joins
  <1>2. /\ q \in Seq(T) /\ Len(q) = a + b
        /\ \A i \in 1..a : q[i] = w[i]
        /\ \A i \in 1..b : q[a + i] = y[i]
    <2>1. /\ w \o y \in Seq(T) /\ Len(w \o y) = Len(w) + Len(y)
          /\ \A i \in 1..Len(w) : (w \o y)[i] = w[i]
          /\ \A i \in 1..Len(y) : (w \o y)[Len(w) + i] = y[i]
      <3> PICK c \in Seq(T), d \in Seq(T) : c = w /\ d = y
        BY <1>0
      <3>1. /\ c \o d \in Seq(T) /\ Len(c \o d) = Len(c) + Len(d)
            /\ \A i \in 1..Len(c) : (c \o d)[i] = c[i]
            /\ \A i \in 1..Len(d) : (c \o d)[Len(c) + i] = d[i]
        BY Joins
      <3> QED BY <3>1
    <2> QED BY <1>0, <2>1
  <1>3. ASSUME NEW k \in 1..a + b PROVE q[k] = g[p[k]]
    <2>1. CASE k \in 1..a
      BY <1>0, <1>1, <1>2, <2>1
    <2>2. CASE k \notin 1..a
      <3> PICK j : j = k - a
        OBVIOUS
      <3>1. j \in 1..b /\ k = a + j
        BY <2>2
      <3> QED BY <1>0, <1>1, <1>2, <3>1
    <2> QED BY <2>1, <2>2
  <1>4. Mapped(p, q, g, S, T)
    BY <1>1, <1>2, <1>3 DEF Mapped
  <1> QED BY <1>4

\* To choose and to map may be done in either order.
LEMMA PickedMap ==
  ASSUME NEW S, NEW T, NEW g, NEW s, NEW t, NEW keep, Mapped(s, t, g, S, T)
  PROVE  Mapped(Picked(s, keep), Picked(t, keep), g, S, T)
  <1> DEFINE ss == [i \in DOMAIN s |-> IF i \in keep THEN <<s[i]>> ELSE <<>>]
             tt == [i \in DOMAIN t |-> IF i \in keep THEN <<t[i]>> ELSE <<>>]
  <1> PICK n \in Nat : n = Len(s)
    BY DEF Mapped
  <1>1. s \in Seq(S) /\ t \in Seq(T) /\ Len(s) = n /\ Len(t) = n
    BY DEF Mapped
  <1>2. ss \in Seq(Seq(S)) /\ tt \in Seq(Seq(T)) /\ Len(ss) = n /\ Len(tt) = n
    <2>1. ss \in Seq(Seq(S)) /\ Len(ss) = Len(s)
      BY <1>1, PickedType, Zenon
    <2>2. tt \in Seq(Seq(T)) /\ Len(tt) = Len(t)
      BY <1>1, PickedType, Zenon
    <2> QED BY <1>1, <2>1, <2>2
  <1>3. ASSUME NEW i \in 1..n PROVE Mapped(ss[i], tt[i], g, S, T)
    <2>1. /\ ss[i] = IF i \in keep THEN <<s[i]>> ELSE <<>>
          /\ tt[i] = IF i \in keep THEN <<t[i]>> ELSE <<>>
      BY <1>1
    <2>2. s[i] \in S /\ t[i] \in T /\ t[i] = g[s[i]]
      BY <1>1 DEF Mapped
    <2> HIDE DEF ss, tt
    <2> PICK c \in S, d \in T : c = s[i] /\ d = t[i]
      BY <2>2
    <2>3. Mapped(<<c>>, <<d>>, g, S, T)
      BY <2>2 DEF Mapped
    <2>4. Mapped(<<>>, <<>>, g, S, T)
      BY DEF Mapped
    <2> QED BY <2>1, <2>3, <2>4
  <1> HIDE DEF ss, tt
  <1>4. PICK p : Sums(p, ss, S) /\ FlattenSeq(ss) = p[n]
    BY <1>2, SumsExist
  <1>5. PICK q : Sums(q, tt, T) /\ FlattenSeq(tt) = q[n]
    BY <1>2, SumsExist
  <1> DEFINE Z == {i \in Nat : i <= n => Mapped(p[i], q[i], g, S, T)}
  <1>6. 0 \in Z
    <2>1. Mapped(<<>>, <<>>, g, S, T)
      BY DEF Mapped
    <2> QED BY <1>4, <1>5, <2>1 DEF Sums
  <1>7. ASSUME NEW i \in Nat, i \in Z PROVE i + 1 \in Z
    <2> SUFFICES ASSUME i + 1 <= n PROVE Mapped(p[i + 1], q[i + 1], g, S, T)
      OBVIOUS
    <2> PICK k : k = i + 1
      OBVIOUS
    <2>1. k - 1 = i /\ k \in 1..n /\ Mapped(p[i], q[i], g, S, T)
      BY <1>7
    <2>2. p[k] = p[i] \o ss[k] /\ q[k] = q[i] \o tt[k]
      BY <1>2, <1>4, <1>5, <2>1 DEF Sums
    <2>3. Mapped(ss[k], tt[k], g, S, T)
      BY <1>3, <2>1
    <2>4. Mapped(p[i] \o ss[k], q[i] \o tt[k], g, S, T)
      BY <2>1, <2>3, MappedJoin
    <2> QED BY <2>2, <2>4
  <1> HIDE DEF Z
  <1>8. n \in Z
    BY <1>6, <1>7, Induction
  <1> QED BY <1>4, <1>5, <1>8 DEF Z, Picked, ss, tt

LEMMA NotesType ==
  ASSUME NEW d \in CsvItems
  PROVE  C!Notes(d) \in Text
  <1> DEFINE X == [custom : BOOLEAN, label : Characters, value : Text]
             Shown(x) == x.custom \/ x.value # <<>>
             keep == {i \in DOMAIN d.extras : Shown(d.extras[i])}
             shown == Picked(d.extras, keep)
             parts == [i \in DOMAIN shown |-> <<shown[i].label, "colon">> \o shown[i].value]
             lines == C!Joined(parts, <<C!LF>>)
  <1>1. d.extras \in Seq(X) /\ d.notes \in Text
    BY DEF CsvItems
  <1>2. shown \in Seq(X)
    BY <1>1, PickedType
  <1>3. C!Notes(d) = CASE shown = <<>> -> d.notes
                       [] shown # <<>> /\ d.notes = <<>> -> lines
                       [] OTHER -> d.notes \o <<C!LF>> \o lines
    <2> DEFINE ff == [i \in DOMAIN d.extras |-> IF Shown(d.extras[i]) THEN <<d.extras[i]>> ELSE <<>>]
               fg == [i \in DOMAIN d.extras |-> IF i \in keep THEN <<d.extras[i]>> ELSE <<>>]
               chosen == C!FlattenSeq(ff)
    <2>1. ff = fg
      BY Zenon
    <2>2. chosen = shown
      <3>1. shown = FlattenSeq(fg)
        BY Zenon DEF Picked
      <3> HIDE DEF ff, fg, keep
      <3> QED BY <2>1, <3>1, Flattened
    <2>3. C!Notes(d) =
            LET l == C!Joined([i \in DOMAIN chosen |-> <<chosen[i].label, "colon">> \o chosen[i].value],
                              <<C!LF>>)
            IN CASE chosen = <<>> -> d.notes
                 [] chosen # <<>> /\ d.notes = <<>> -> l
                 [] OTHER -> d.notes \o <<C!LF>> \o l
      BY Zenon DEF C!Notes, C!Where
    <2> HIDE DEF chosen, shown, keep
    <2> QED BY <2>2, <2>3, Zenon
  <1>4. <<C!LF>> \in Text
    BY Special DEF C!LF
  <1>5. parts \in Seq(Text)
    <2> HIDE DEF shown
    <2> PICK n \in Nat : n = Len(shown)
      BY <1>2
    <2>1. parts = [i \in 1..n |-> parts[i]]
      BY <1>2
    <2>2. ASSUME NEW i \in 1..n PROVE parts[i] \in Text
      <3>1. shown[i].label \in Characters /\ shown[i].value \in Text
        <4>1. shown[i] \in X
          <5> HIDE DEF X
          <5> QED BY <1>2
        <4> QED BY <4>1
      <3>2. <<shown[i].label, "colon">> \in Text
        BY <3>1, Special, Two
      <3>3. <<shown[i].label, "colon">> \o shown[i].value \in Text
        BY <3>1, <3>2 DEF Text
      <3>4. i \in DOMAIN shown
        BY <1>2
      <3> QED BY <3>3, <3>4
    <2> HIDE DEF parts
    <2>3. [i \in 1..n |-> parts[i]] \in Seq(Text)
      BY <2>2, Made
    <2> QED BY <2>1, <2>3
  <1> HIDE DEF shown, parts
  <1>6. lines \in Text
    BY <1>4, <1>5, JoinedType
  <1> HIDE DEF lines
  <1>7. d.notes \o <<C!LF>> \o lines \in Text
    BY <1>1, <1>4, <1>6 DEF Text
  <1> QED BY <1>1, <1>3, <1>6, <1>7

LEMMA TagsType ==
  ASSUME NEW s \in Text
  PROVE  C!Joined([i \in DOMAIN s |-> <<s[i]>>], <<"semicolon">>) \in Text
  <1> PICK n \in Nat : n = Len(s)
    BY DEF Text
  <1> DEFINE ss == [i \in DOMAIN s |-> <<s[i]>>]
  <1>1. DOMAIN s = 1..n /\ \A i \in 1..n : s[i] \in Characters
    BY DEF Text
  <1>2. ASSUME NEW i \in 1..n PROVE ss[i] \in Text
    <2>1. <<s[i]>> \in Text
      BY <1>1, Special
    <2> QED BY <1>1, <2>1
  <1>3. ss = [i \in 1..n |-> ss[i]]
    BY <1>1
  <1> HIDE DEF ss
  <1>4. ss \in Seq(Text)
    <2>1. [i \in 1..n |-> ss[i]] \in Seq(Text)
      BY <1>2, Made
    <2> QED BY <1>3, <2>1
  <1>5. <<"semicolon">> \in Text
    BY Special
  <1>6. C!Joined(ss, <<"semicolon">>) \in Text
    BY <1>4, <1>5, JoinedType
  <1> QED BY <1>6 DEF ss

LEMMA Eight ==
  ASSUME NEW S, NEW a \in S, NEW b \in S, NEW c \in S, NEW d \in S,
         NEW e \in S, NEW f \in S, NEW g \in S, NEW h \in S
  PROVE  /\ <<a, b, c, d, e, f, g, h>> \in Seq(S) \ {<<>>} /\ Len(<<a, b, c, d, e, f, g, h>>) = 8
         /\ <<a, b, c, d, e, f, g, h>>[1] = a /\ <<a, b, c, d, e, f, g, h>>[2] = b
         /\ <<a, b, c, d, e, f, g, h>>[3] = c /\ <<a, b, c, d, e, f, g, h>>[4] = d
         /\ <<a, b, c, d, e, f, g, h>>[5] = e /\ <<a, b, c, d, e, f, g, h>>[6] = f
         /\ <<a, b, c, d, e, f, g, h>>[7] = g /\ <<a, b, c, d, e, f, g, h>>[8] = h
  OBVIOUS

LEMMA RowIs ==
  ASSUME NEW d \in CsvItems
  PROVE  /\ C!Row(d) \in Seq(Text) \ {<<>>} /\ Len(C!Row(d)) = 8
         /\ C!Row(d)[1] = <<d.type>> /\ C!Row(d)[2] = d.title /\ C!Row(d)[3] = d.username
         /\ C!Row(d)[4] = d.password /\ C!Row(d)[5] = d.url /\ C!Row(d)[6] = C!Notes(d)
         /\ C!Row(d)[7] = d.totp
  <1> PICK tags : tags = C!Joined([i \in DOMAIN d.tags |-> <<d.tags[i]>>], <<"semicolon">>)
    OBVIOUS
  <1> PICK notes : notes = C!Notes(d)
    OBVIOUS
  <1>1. /\ d.type \in Characters /\ d.title \in Text /\ d.username \in Text /\ d.password \in Text
        /\ d.url \in Text /\ d.totp \in Text /\ d.tags \in Text
    BY DEF CsvItems
  <1>2. <<d.type>> \in Text
    BY <1>1, Special
  <1>3. tags \in Text
    BY <1>1, TagsType
  <1>4. notes \in Text
    BY NotesType
  <1>5. C!Row(d) = <<<<d.type>>, d.title, d.username, d.password, d.url, notes, d.totp, tags>>
    BY Zenon DEF C!Row
  <1> QED BY <1>1, <1>2, <1>3, <1>4, <1>5, Eight

HeaderRow == [i \in DOMAIN C!Header |-> <<C!Header[i]>>]

LEMMA HeaderIs ==
  /\ HeaderRow \in Seq(Text) \ {<<>>} /\ Len(HeaderRow) = 8
  /\ HeaderRow[1] = <<"type">> /\ HeaderRow[2] = <<"title">> /\ HeaderRow[3] = <<"username">>
  /\ HeaderRow[4] = <<"password">> /\ HeaderRow[5] = <<"url">> /\ HeaderRow[6] = <<"notes">>
  /\ HeaderRow[7] = <<"totp">> /\ HeaderRow[8] = <<"tags">>
  <1> PICK s : s = C!Header
    OBVIOUS
  <1>1. {"type", "title", "username", "password", "url", "notes", "totp", "tags"} \subseteq Characters
    BY FormatsAssumption DEF CsvAssumption
  <1>2. /\ s \in Seq(Characters) \ {<<>>} /\ Len(s) = 8
        /\ s[1] = "type" /\ s[2] = "title" /\ s[3] = "username" /\ s[4] = "password"
        /\ s[5] = "url" /\ s[6] = "notes" /\ s[7] = "totp" /\ s[8] = "tags"
    <2>1. s = <<"type", "title", "username", "password", "url", "notes", "totp", "tags">>
      BY DEF C!Header
    <2> QED BY <1>1, <2>1, Eight
  <1> DEFINE r == [i \in 1..8 |-> <<s[i]>>]
  <1>3. r = HeaderRow
    <2>1. DOMAIN s = 1..8
      BY <1>2
    <2> QED BY <2>1 DEF HeaderRow
  <1>4. \A i \in 1..8 : r[i] = <<s[i]>> /\ s[i] \in Characters
    <2>1. \A i \in 1..8 : s[i] \in Characters
      <3>1. s \in Seq(Characters) /\ Len(s) = 8
        BY <1>2
      <3>2. \A i \in 1..Len(s) : s[i] \in Characters
        BY <3>1, ElementOfSeq
      <3> QED BY <3>1, <3>2
    <2>2. \A i \in 1..8 : r[i] = <<s[i]>>
      OBVIOUS
    <2> QED BY <2>1, <2>2
  <1> HIDE DEF r
  <1>5. \A i \in 1..8 : r[i] \in Text
    BY <1>4, Special
  <1>6. r \in Seq(Text) /\ Len(r) = 8
    <2>1. [i \in 1..8 |-> r[i]] \in Seq(Text) /\ Len([i \in 1..8 |-> r[i]]) = 8
      BY <1>5, Made
    <2>2. r = [i \in 1..8 |-> r[i]]
      BY DEF r
    <2> QED BY <2>1, <2>2
  <1>7. /\ r[1] = <<s[1]>> /\ r[2] = <<s[2]>> /\ r[3] = <<s[3]>> /\ r[4] = <<s[4]>>
        /\ r[5] = <<s[5]>> /\ r[6] = <<s[6]>> /\ r[7] = <<s[7]>> /\ r[8] = <<s[8]>>
    BY <1>4
  <1>8. r # <<>>
    BY <1>6
  <1> QED BY <1>2, <1>3, <1>6, <1>7, <1>8

Rows(vault) == [i \in DOMAIN vault |-> C!Row(vault[i])]

LEMMA RowsType ==
  ASSUME NEW vault \in Seq(CsvItems)
  PROVE  /\ Rows(vault) \in Seq(Seq(Text) \ {<<>>}) /\ Len(Rows(vault)) = Len(vault)
         /\ \A i \in 1..Len(vault) : vault[i] \in CsvItems /\ Rows(vault)[i] = C!Row(vault[i])
  <1> PICK n \in Nat : n = Len(vault)
    OBVIOUS
  <1>1. DOMAIN vault = 1..n /\ \A i \in 1..n : vault[i] \in CsvItems
    OBVIOUS
  <1>2. ASSUME NEW i \in 1..n PROVE Rows(vault)[i] = C!Row(vault[i]) /\ Rows(vault)[i] \in Seq(Text) \ {<<>>}
    <2>1. Rows(vault)[i] = C!Row(vault[i])
      BY <1>1 DEF Rows
    <2>2. C!Row(vault[i]) \in Seq(Text) \ {<<>>}
      BY <1>1, RowIs
    <2> QED BY <2>1, <2>2
  <1>3. Rows(vault) = [i \in 1..n |-> Rows(vault)[i]]
    BY <1>1 DEF Rows
  <1> PICK r : r = Rows(vault)
    OBVIOUS
  <1>4. [i \in 1..n |-> r[i]] \in Seq(Seq(Text) \ {<<>>}) /\ Len([i \in 1..n |-> r[i]]) = n
    BY <1>2, Made
  <1> QED BY <1>1, <1>2, <1>3, <1>4

\* One row before others.
LEMMA Headed ==
  ASSUME NEW S, NEW h \in S, NEW s \in Seq(S)
  PROVE  /\ <<h>> \o s \in Seq(S) /\ Len(<<h>> \o s) = Len(s) + 1 /\ <<h>> \o s # <<>>
         /\ (<<h>> \o s)[1] = h /\ \A i \in 1..Len(s) : (<<h>> \o s)[i + 1] = s[i]
         /\ Tail(<<h>> \o s) = s
  <1> PICK t : t = <<h>> \o s
    OBVIOUS
  <1> PICK n \in Nat : n = Len(s)
    OBVIOUS
  <1>1. /\ t \in Seq(S) /\ Len(t) = n + 1 /\ t[1] = h
        /\ \A i \in 1..n : t[i + 1] = s[i]
    <2>1. <<h>> \in Seq(S) /\ Len(<<h>>) = 1 /\ <<h>>[1] = h
      OBVIOUS
    <2>2. /\ t \in Seq(S) /\ Len(t) = Len(<<h>>) + Len(s)
          /\ \A i \in 1..Len(<<h>>) : t[i] = <<h>>[i]
          /\ \A i \in 1..Len(s) : t[Len(<<h>>) + i] = s[i]
      <3> PICK u \in Seq(S) : u = <<h>>
        BY <2>1
      <3>1. /\ u \o s \in Seq(S) /\ Len(u \o s) = Len(u) + Len(s)
            /\ \A i \in 1..Len(u) : (u \o s)[i] = u[i]
            /\ \A i \in 1..Len(s) : (u \o s)[Len(u) + i] = s[i]
        BY Joins
      <3> QED BY <3>1
    <2>3. t[1] = <<h>>[1]
      BY <2>1, <2>2
    <2>4. \A i \in 1..n : t[1 + i] = s[i] /\ 1 + i = i + 1
      BY <2>1, <2>2
    <2> QED BY <2>1, <2>2, <2>3, <2>4
  <1>2. t # <<>>
    BY <1>1
  <1>3. Tail(t) = s
    <2> PICK u : u = Tail(t)
      OBVIOUS
    <2>1. u \in Seq(S) /\ Len(u) = n /\ \A i \in 1..n : u[i] = t[i + 1]
      BY <1>1, <1>2, HeadTailProperties
    <2> QED BY <1>1, <2>1, SeqEqual
  <1> QED BY <1>1, <1>2, <1>3

LEMMA ExportIsTable ==
  ASSUME NEW vault \in Seq(CsvItems)
  PROVE  /\ <<HeaderRow>> \o Rows(vault) \in Seq(Seq(Text) \ {<<>>})
         /\ <<HeaderRow>> \o Rows(vault) # <<>>
         /\ C!buildCsv(vault) =
              TableText(<<HeaderRow>> \o Rows(vault), FALSE, <<"CR", "LF">>) \o <<"CR", "LF">>
  <1> DEFINE L(cells) == RowText(cells, FALSE)
  <1> PICK n \in Nat : n = Len(vault)
    OBVIOUS
  <1> PICK r : r = Rows(vault)
    OBVIOUS
  <1> PICK t : t = <<HeaderRow>> \o r
    OBVIOUS
  <1>1. /\ r \in Seq(Seq(Text) \ {<<>>}) /\ Len(r) = n
        /\ \A i \in 1..n : vault[i] \in CsvItems /\ r[i] = C!Row(vault[i])
    BY RowsType
  <1>2. /\ t \in Seq(Seq(Text) \ {<<>>}) /\ Len(t) = n + 1 /\ t # <<>> /\ t[1] = HeaderRow
        /\ \A i \in 1..n : t[i + 1] = r[i]
    BY <1>1, HeaderIs, Headed
  <1>3. ASSUME NEW cells PROVE C!Line(cells) = L(cells)
    <2>1. ASSUME NEW v PROVE Encoded(v, FALSE) = C!csvCell(v)
      BY DEF Encoded
    <2> QED BY <2>1 DEF C!Line, RowText
  <1>4. \A i \in 1..n + 1 : L(t[i]) \in Text
    <2>1. \A i \in 1..n + 1 : t[i] \in Seq(Text) \ {<<>>}
      BY <1>2
    <2>2. \A c \in Seq(Text) \ {<<>>} : L(c) \in Text
      <3>1. <<>> \in Seq(Seq(Text))
        OBVIOUS
      <3> QED BY <3>1, RowIsRead
    <2> HIDE DEF L
    <2> QED BY <2>1, <2>2
  <1> DEFINE ls == [i \in DOMAIN vault |-> C!Line(C!Row(vault[i]))]
             lines == <<C!Line(HeaderRow)>> \o ls
             texts == [i \in DOMAIN t |-> L(t[i])]
  <1>5. ls \in Seq(Text) /\ Len(ls) = n /\ \A i \in 1..n : ls[i] = L(t[i + 1])
    <2>1. ASSUME NEW i \in 1..n PROVE ls[i] = L(t[i + 1]) /\ ls[i] \in Text
      <3>1. ls[i] = C!Line(C!Row(vault[i]))
        OBVIOUS
      <3>2. t[i + 1] = C!Row(vault[i]) /\ i + 1 \in 1..n + 1
        BY <1>1, <1>2
      <3> HIDE DEF ls, L
      <3> QED BY <1>3, <1>4, <3>1, <3>2
    <2>2. ls = [i \in 1..n |-> ls[i]]
      OBVIOUS
    <2> HIDE DEF ls, L
    <2>3. [i \in 1..n |-> ls[i]] \in Seq(Text) /\ Len([i \in 1..n |-> ls[i]]) = n
      BY <2>1, Made
    <2> QED BY <2>1, <2>2, <2>3
  <1>6. texts \in Seq(Text) /\ Len(texts) = n + 1 /\ \A i \in 1..n + 1 : texts[i] = L(t[i])
    <2>1. DOMAIN t = 1..n + 1
      BY <1>2
    <2>2. \A i \in 1..n + 1 : texts[i] = L(t[i])
      BY <2>1
    <2>3. texts = [i \in 1..n + 1 |-> texts[i]]
      BY <2>1
    <2> HIDE DEF texts, L
    <2>4. [i \in 1..n + 1 |-> texts[i]] \in Seq(Text) /\ Len([i \in 1..n + 1 |-> texts[i]]) = n + 1
      <3> PICK k \in Nat : k = n + 1
        OBVIOUS
      <3>1. \A i \in 1..k : texts[i] \in Text
        BY <1>4, <2>2
      <3>2. [i \in 1..k |-> texts[i]] \in Seq(Text) /\ Len([i \in 1..k |-> texts[i]]) = k
        BY <3>1, Made
      <3> QED BY <3>2
    <2> QED BY <2>2, <2>3, <2>4
  <1>7. C!Line(HeaderRow) = L(t[1]) /\ C!Line(HeaderRow) \in Text
    <2>1. 1 \in 1..n + 1
      OBVIOUS
    <2> HIDE DEF L
    <2> QED BY <1>2, <1>3, <1>4, <2>1
  <1>8. lines = texts
    <2> HIDE DEF ls, texts, L
    <2> PICK a : a = C!Line(HeaderRow)
      OBVIOUS
    <2>1. /\ <<a>> \o ls \in Seq(Text) /\ Len(<<a>> \o ls) = n + 1
          /\ (<<a>> \o ls)[1] = a /\ \A i \in 1..n : (<<a>> \o ls)[i + 1] = ls[i]
      BY <1>5, <1>7, Headed
    <2>2. ASSUME NEW k \in 1..n + 1 PROVE (<<a>> \o ls)[k] = texts[k]
      <3>1. CASE k = 1
        BY <1>6, <1>7, <2>1, <3>1
      <3>2. CASE k # 1
        <4> PICK i : i = k - 1
          OBVIOUS
        <4>1. i \in 1..n /\ k = i + 1
          BY <3>2
        <4> QED BY <1>5, <1>6, <2>1, <4>1
      <3> QED BY <3>1, <3>2
    <2>3. <<a>> \o ls = texts
      <3> PICK w : w = <<a>> \o ls
        OBVIOUS
      <3>1. w \in Seq(Text) /\ Len(w) = Len(texts) /\ \A k \in 1..Len(w) : w[k] = texts[k]
        BY <1>6, <2>1, <2>2
      <3>2. w = texts
        BY <1>6, <3>1, SeqEqual
      <3> QED BY <3>2
    <2> QED BY <2>3
  <1>9. C!buildCsv(vault) = C!Joined(lines, <<C!CR, C!LF>>) \o <<C!CR, C!LF>>
    BY Zenon DEF C!buildCsv, HeaderRow
  <1>10. TableText(t, FALSE, <<"CR", "LF">>) = C!Joined(texts, <<"CR", "LF">>)
    BY Zenon DEF TableText
  <1> HIDE DEF lines, texts
  <1>11. C!buildCsv(vault) = TableText(t, FALSE, <<"CR", "LF">>) \o <<"CR", "LF">>
    BY <1>8, <1>9, <1>10 DEF C!CR, C!LF
  <1> QED BY <1>2, <1>11

LEMMA ExportIsParsed ==
  ASSUME NEW vault \in Seq(CsvItems)
  PROVE  C!parseCSV(C!buildCsv(vault)) = <<HeaderRow>> \o Rows(vault)
  BY ExportIsTable, TableIsParsed

LEMMA OtherIsParsed ==
  ASSUME NEW t \in CsvTables
  PROVE  C!parseCSV(C!Written(t)) = t.rows
  <1>1. /\ t.rows \in Seq(Seq(Text) \ {<<>>}) /\ t.quoted \in BOOLEAN
        /\ t.eol \in {<<"LF">>, <<"CR", "LF">>}
        /\ ~t.quoted /\ t.rows # <<>> => t.rows[Len(t.rows)] # << <<>> >>
    BY FormatsAssumption DEF CsvAssumption
  <1>2. C!Written(t) = TableText(t.rows, t.quoted, t.eol)
    BY Zenon DEF C!Written, TableText, RowText, Encoded
  <1>3. CASE t.rows # <<>>
    <2> PICK all \in Seq(Seq(Text) \ {<<>>}), quoted \in BOOLEAN, eol \in {<<"LF">>, <<"CR", "LF">>} :
          all = t.rows /\ quoted = t.quoted /\ eol = t.eol
      BY <1>1
    <2>1. quoted \/ all[Len(all)] # << <<>> >> => C!parseCSV(TableText(all, quoted, eol)) = all
      BY <1>3, TableIsParsed
    <2> QED BY <1>1, <1>2, <1>3, <2>1
  <1>4. CASE t.rows = <<>>
    <2>1. TableText(<<>>, t.quoted, t.eol) = <<>>
      <3> DEFINE texts == [i \in DOMAIN <<>> |-> RowText(<<>>[i], t.quoted)]
                 parts == [i \in DOMAIN <<>> |-> IF i = 1 THEN <<>>[1] ELSE t.eol \o <<>>[i]]
      <3>1. texts = <<>> /\ parts = <<>>
        OBVIOUS
      <3>2. C!Joined(<<>>, t.eol) = C!FlattenSeq(parts)
        BY Zenon DEF C!Joined
      <3>3. TableText(<<>>, t.quoted, t.eol) = C!Joined(texts, t.eol)
        BY Zenon DEF TableText
      <3> HIDE DEF texts, parts
      <3>4. C!FlattenSeq(<<>>) = <<>>
        BY Flattened, FlattenEmpty
      <3> QED BY <3>1, <3>2, <3>3, <3>4
    <2> QED BY <1>2, <1>4, <2>1, NothingParsed
  <1> QED BY <1>3, <1>4

-----------------------------------------------------------------------------
(* The items of an import *)

LEMMA Trimmed ==
  ASSUME NEW c \in Characters
  PROVE  C!trim(<<c>>) = IF c \in C!Blanks THEN <<>> ELSE <<c>>
  <1> DEFINE solid == {i \in DOMAIN <<c>> : <<c>>[i] \notin C!Blanks}
  <1>1. DOMAIN <<c>> = {1} /\ <<c>>[1] = c
    OBVIOUS
  <1>2. CASE c \in C!Blanks
    <2>1. solid = {}
      BY <1>1, <1>2
    <2> QED BY <1>2, <2>1 DEF C!trim
  <1>3. CASE c \notin C!Blanks
    <2>1. solid = {1}
      BY <1>1, <1>3
    <2> HIDE DEF solid
    <2> DEFINE first == CHOOSE i \in solid : \A j \in solid : i <= j
               last == CHOOSE i \in solid : \A j \in solid : j <= i
    <2>2. first = 1 /\ last = 1
      BY <2>1
    <2>3. C!trim(<<c>>) = IF solid = {} THEN <<>> ELSE SubSeq(<<c>>, first, last)
      BY Zenon DEF C!trim, solid
    <2>4. SubSeq(<<c>>, 1, 1) = <<c>>
      <3> PICK s : s = <<c>>
        OBVIOUS
      <3>1. s \in Seq(Characters) /\ Len(s) = 1
        OBVIOUS
      <3>2. SubSeq(s, 1, Len(s)) = s
        BY <3>1, SubSeqFull
      <3> QED BY <3>1, <3>2
    <2> HIDE DEF first, last
    <2> QED BY <1>3, <2>1, <2>2, <2>3, <2>4
  <1> QED BY <1>2, <1>3

LEMMA HeaderTrimmed ==
  ASSUME NEW i \in 1..8
  PROVE  C!trim(HeaderRow[i]) = HeaderRow[i]
  <1>1. {"type", "title", "username", "password", "url", "notes", "totp", "tags"} \subseteq Characters
    BY FormatsAssumption DEF CsvAssumption
  <1>2. ASSUME NEW c \in {"type", "title", "username", "password", "url", "notes", "totp", "tags"}
        PROVE  C!trim(<<c>>) = <<c>>
    <2>1. c \in Characters
      BY <1>1, <1>2, Zenon
    <2>2. c \notin C!Blanks
      BY <1>2 DEF C!Blanks, C!CR, C!LF
    <2> QED BY <2>1, <2>2, Trimmed
  <1>3. i = 1 \/ i = 2 \/ i = 3 \/ i = 4 \/ i = 5 \/ i = 6 \/ i = 7 \/ i = 8
    OBVIOUS
  <1> QED BY <1>2, <1>3, HeaderIs

LEMMA Index ==
  ASSUME NEW name, NEW k \in 0..8, \A i \in 1..8 : HeaderRow[i] = <<name>> <=> i = k
  PROVE  C!idx(HeaderRow, name) = k
  <1> DEFINE places == {i \in DOMAIN HeaderRow : C!trim(HeaderRow[i]) = <<name>>}
  <1>1. DOMAIN HeaderRow = 1..8
    BY HeaderIs
  <1>2. places = {i \in 1..8 : i = k}
    BY <1>1, HeaderTrimmed
  <1>3. C!idx(HeaderRow, name) =
          IF places = {} THEN 0 ELSE CHOOSE i \in places : \A j \in places : i <= j
    BY Zenon DEF C!idx
  <1> HIDE DEF places
  <1>4. CASE k = 0
    <2>1. places = {}
      BY <1>2, <1>4
    <2> QED BY <1>3, <1>4, <2>1
  <1>5. CASE k # 0
    <2>1. places = {k}
      BY <1>2, <1>5
    <2>2. (CHOOSE i \in places : \A j \in places : i <= j) = k
      BY <2>1
    <2> QED BY <1>3, <2>1, <2>2
  <1> QED BY <1>4, <1>5

HeaderColumns ==
  [title |-> 2, username |-> 3, password |-> 4, url |-> 5, notes |-> 6, otpauth |-> 0, type |-> 1]

LEMMA ColumnsAre == C!csvHasHeaders(HeaderRow) /\ C!Columns(HeaderRow) = HeaderColumns
  <1>1. ASSUME NEW i \in 1..8
        PROVE i = 1 \/ i = 2 \/ i = 3 \/ i = 4 \/ i = 5 \/ i = 6 \/ i = 7 \/ i = 8
    OBVIOUS
  <1>2. \A a, b : <<a>> = <<b>> <=> a = b
    OBVIOUS
  <1>3. C!idx(HeaderRow, "title") = 2
    BY <1>1, <1>2, HeaderIs, Index
  <1>4. C!idx(HeaderRow, "username") = 3
    BY <1>1, <1>2, HeaderIs, Index
  <1>5. C!idx(HeaderRow, "email") = 0
    BY <1>1, <1>2, HeaderIs, Index
  <1>6. C!idx(HeaderRow, "password") = 4
    BY <1>1, <1>2, HeaderIs, Index
  <1>7. C!idx(HeaderRow, "website") = 0
    BY <1>1, <1>2, HeaderIs, Index
  <1>8. C!idx(HeaderRow, "url") = 5
    BY <1>1, <1>2, HeaderIs, Index
  <1>9. C!idx(HeaderRow, "notes") = 6
    BY <1>1, <1>2, HeaderIs, Index
  <1>10. C!idx(HeaderRow, "otpauth") = 0
    BY <1>1, <1>2, HeaderIs, Index
  <1>11. C!idx(HeaderRow, "type") = 1
    BY <1>1, <1>2, HeaderIs, Index
  <1>12. C!Columns(HeaderRow) = HeaderColumns
    BY <1>3, <1>4, <1>5, <1>6, <1>7, <1>8, <1>9, <1>10, <1>11 DEF C!Columns, C!Max2, HeaderColumns
  <1>13. C!csvHasHeaders(HeaderRow)
    <2>1. 2 \in DOMAIN HeaderRow /\ 4 \in DOMAIN HeaderRow
      BY HeaderIs
    <2>2. C!trim(HeaderRow[2]) = <<"title">> /\ C!trim(HeaderRow[4]) = <<"password">>
      <3>1. C!trim(HeaderRow[2]) = HeaderRow[2] /\ C!trim(HeaderRow[4]) = HeaderRow[4]
        BY HeaderTrimmed
      <3> QED BY <3>1, HeaderIs
    <2>3. \A k \in {2, 4} : \E h \in C!KnownHeaders : C!trim(HeaderRow[k]) = <<h>>
      BY <2>2 DEF C!KnownHeaders
    <2>4. 2 # 4
      OBVIOUS
    <2> QED BY <2>1, <2>3, <2>4, Zenon DEF C!csvHasHeaders
  <1> QED BY <1>12, <1>13

\* What mapCSVToItems makes of rows, once it knows the columns.
CellAt(columns, row, k) == IF columns[k] \in DOMAIN row THEN C!trim(row[columns[k]]) ELSE <<>>

ItemBy(columns, row) ==
  [title |-> CellAt(columns, row, "title"), username |-> CellAt(columns, row, "username"),
   password |-> CellAt(columns, row, "password"), url |-> CellAt(columns, row, "url"),
   notes |-> CellAt(columns, row, "notes"), totp |-> C!extractTOTPSecret(CellAt(columns, row, "otpauth"))]

Kept(columns, s) ==
  C!FlattenSeq([i \in DOMAIN s |->
    IF CellAt(columns, s[i], "type") # <<"document">> /\ CellAt(columns, s[i], "title") # <<>>
    THEN <<s[i]>> ELSE <<>>])

ItemsBy(columns, s) == [i \in DOMAIN Kept(columns, s) |-> ItemBy(columns, Kept(columns, s)[i])]

LEMMA MappedBy ==
  ASSUME NEW all, all # <<>>, C!csvHasHeaders(all[1])
  PROVE  C!mapCSVToItems(all) = ItemsBy(C!Columns(all[1]), Tail(all))
  <1> DEFINE headed == all # <<>> /\ C!csvHasHeaders(all[1])
  <1>1. C!mapCSVToItems(all) =
          ItemsBy(IF headed THEN C!Columns(all[1]) ELSE C!OP_CSV_COLUMNS, IF headed THEN Tail(all) ELSE all)
    BY Zenon DEF C!mapCSVToItems, C!Where, ItemsBy, ItemBy, Kept, CellAt
  <1>2. headed
    OBVIOUS
  <1> HIDE DEF headed
  <1> QED BY <1>1, <1>2

\* What comes back of an item.
Returned(d) ==
  [title |-> C!trim(d.title), username |-> C!trim(d.username), password |-> C!trim(d.password),
   url |-> C!trim(d.url), notes |-> C!trim(C!Notes(d)), totp |-> <<>>]

LEMMA ItemComesBack ==
  ASSUME NEW d \in CsvItems
  PROVE  /\ ItemBy(HeaderColumns, C!Row(d)) = Returned(d)
         /\ CellAt(HeaderColumns, C!Row(d), "title") = C!trim(d.title)
         /\ CellAt(HeaderColumns, C!Row(d), "type") # <<"document">> <=> d.type # "document"
  <1> PICK r : r = C!Row(d)
    OBVIOUS
  <1>1. /\ DOMAIN r = 1..8
        /\ r[1] = <<d.type>> /\ r[2] = d.title /\ r[3] = d.username /\ r[4] = d.password
        /\ r[5] = d.url /\ r[6] = C!Notes(d)
    BY RowIs
  <1>2. /\ CellAt(HeaderColumns, r, "title") = C!trim(d.title)
        /\ CellAt(HeaderColumns, r, "username") = C!trim(d.username)
        /\ CellAt(HeaderColumns, r, "password") = C!trim(d.password)
        /\ CellAt(HeaderColumns, r, "url") = C!trim(d.url)
        /\ CellAt(HeaderColumns, r, "notes") = C!trim(C!Notes(d))
        /\ CellAt(HeaderColumns, r, "otpauth") = <<>>
        /\ CellAt(HeaderColumns, r, "type") = C!trim(<<d.type>>)
    BY <1>1 DEF CellAt, HeaderColumns
  <1>3. C!extractTOTPSecret(<<>>) = <<>>
    BY DEF C!extractTOTPSecret
  <1>4. ItemBy(HeaderColumns, r) = Returned(d)
    BY <1>2, <1>3, Zenon DEF ItemBy, Returned
  <1>5. C!trim(<<d.type>>) # <<"document">> <=> d.type # "document"
    <2> PICK c \in Characters : c = d.type
      BY DEF CsvItems
    <2>1. "document" \notin C!Blanks
      BY DEF C!Blanks, C!CR, C!LF
    <2>2. C!trim(<<c>>) = IF c \in C!Blanks THEN <<>> ELSE <<c>>
      BY Trimmed
    <2>3. <<>> # <<"document">> /\ (<<c>> = <<"document">> <=> c = "document")
      OBVIOUS
    <2> QED BY <2>1, <2>2, <2>3
  <1> QED BY <1>2, <1>4, <1>5

\* The items of a vault that an import takes.
Titled(vault) ==
  C!Where(vault, LAMBDA d : C!trim(d.title) # <<>> /\ d.type # "document")

LEMMA ItemsComeBackFromCsv ==
  ASSUME NEW vault \in Seq(CsvItems)
  PROVE  C!mapCSVToItems(<<HeaderRow>> \o Rows(vault)) =
           [i \in DOMAIN Titled(vault) |-> Returned(Titled(vault)[i])]
  <1> PICK n \in Nat : n = Len(vault)
    OBVIOUS
  <1> PICK r : r = Rows(vault)
    OBVIOUS
  <1>1. /\ r \in Seq(Seq(Text) \ {<<>>}) /\ Len(r) = n
        /\ \A i \in 1..n : vault[i] \in CsvItems /\ r[i] = C!Row(vault[i])
    BY RowsType
  <1>2. C!mapCSVToItems(<<HeaderRow>> \o r) = ItemsBy(HeaderColumns, r)
    <2> PICK all : all = <<HeaderRow>> \o r
      OBVIOUS
    <2>1. all # <<>> /\ all[1] = HeaderRow /\ Tail(all) = r
      <3> PICK Z : Z = Seq(Text) \ {<<>>}
        OBVIOUS
      <3>1. HeaderRow \in Z /\ r \in Seq(Z)
        BY <1>1, HeaderIs
      <3>2. /\ <<HeaderRow>> \o r # <<>> /\ (<<HeaderRow>> \o r)[1] = HeaderRow
            /\ Tail(<<HeaderRow>> \o r) = r
        BY <3>1, Headed
      <3> QED BY <3>2
    <2>2. C!mapCSVToItems(all) = ItemsBy(C!Columns(all[1]), Tail(all))
      BY <2>1, ColumnsAre, MappedBy
    <2> QED BY <2>1, <2>2, ColumnsAre
  <1> DEFINE keep == {i \in DOMAIN vault : C!trim(vault[i].title) # <<>> /\ vault[i].type # "document"}
             g == [d \in CsvItems |-> C!Row(d)]
             S == CsvItems
             T == Seq(Text) \ {<<>>}
  <1>3. Mapped(vault, r, g, S, T)
    BY <1>1 DEF Mapped
  <1>4. Kept(HeaderColumns, r) = Picked(r, keep)
    <2> DEFINE ff == [i \in DOMAIN r |->
                 IF CellAt(HeaderColumns, r[i], "type") # <<"document">>
                    /\ CellAt(HeaderColumns, r[i], "title") # <<>>
                 THEN <<r[i]>> ELSE <<>>]
               fg == [i \in DOMAIN r |-> IF i \in keep THEN <<r[i]>> ELSE <<>>]
    <2>1. ASSUME NEW i \in DOMAIN r
          PROVE  i \in keep <=> /\ CellAt(HeaderColumns, r[i], "type") # <<"document">>
                                /\ CellAt(HeaderColumns, r[i], "title") # <<>>
      <3>1. i \in 1..n /\ i \in DOMAIN vault
        BY <1>1
      <3> PICK d \in CsvItems : d = vault[i] /\ r[i] = C!Row(d)
        BY <1>1, <3>1
      <3>2. i \in keep <=> C!trim(d.title) # <<>> /\ d.type # "document"
        BY <3>1
      <3> HIDE DEF keep
      <3> QED BY <3>2, ItemComesBack
    <2> HIDE DEF keep
    <2>2. ff = fg
      BY <2>1
    <2>3. Kept(HeaderColumns, r) = C!FlattenSeq(ff)
      BY Zenon DEF Kept
    <2>4. Picked(r, keep) = FlattenSeq(fg)
      BY Zenon DEF Picked
    <2> HIDE DEF ff, fg
    <2> QED BY <2>2, <2>3, <2>4, Flattened
  <1>5. Titled(vault) = Picked(vault, keep)
    <2> DEFINE ff == [i \in DOMAIN vault |->
                 IF C!trim(vault[i].title) # <<>> /\ vault[i].type # "document"
                 THEN <<vault[i]>> ELSE <<>>]
               fg == [i \in DOMAIN vault |-> IF i \in keep THEN <<vault[i]>> ELSE <<>>]
    <2>1. ff = fg
      BY Zenon
    <2>2. Titled(vault) = C!FlattenSeq(ff)
      BY Zenon DEF Titled, C!Where
    <2>3. Picked(vault, keep) = FlattenSeq(fg)
      BY Zenon DEF Picked
    <2> HIDE DEF ff, fg, keep
    <2> QED BY <2>1, <2>2, <2>3, Flattened
  <1> PICK u, w : u = Picked(vault, keep) /\ w = Picked(r, keep)
    OBVIOUS
  <1>6. Mapped(u, w, g, S, T)
    <2> HIDE DEF keep, g, S, T
    <2> QED BY <1>3, PickedMap
  <1>7. DOMAIN w = DOMAIN u /\ \A i \in DOMAIN u : u[i] \in CsvItems /\ w[i] = C!Row(u[i])
    <2>1. /\ u \in Seq(S) /\ w \in Seq(T) /\ Len(w) = Len(u)
          /\ \A k \in 1..Len(u) : w[k] = g[u[k]]
      <3> HIDE DEF keep, g, S, T
      <3> QED BY <1>6 DEF Mapped
    <2>2. ASSUME NEW i \in 1..Len(u) PROVE u[i] \in CsvItems /\ w[i] = C!Row(u[i])
      <3>1. u[i] \in S
        <4> HIDE DEF S, T, g, keep
        <4> QED BY <2>1, ElementOfSeq
      <3>2. w[i] = g[u[i]]
        <4> HIDE DEF S, T, g, keep
        <4> QED BY <2>1
      <3> HIDE DEF keep
      <3> QED BY <3>1, <3>2
    <2>3. DOMAIN u = 1..Len(u) /\ DOMAIN w = 1..Len(u)
      <3> HIDE DEF S, T, g, keep
      <3> QED BY <2>1
    <2> QED BY <2>2, <2>3
  <1>8. \A i \in DOMAIN u : ItemBy(HeaderColumns, w[i]) = Returned(u[i])
    BY <1>7, ItemComesBack
  <1> HIDE DEF keep, g, S, T
  <1>9. ItemsBy(HeaderColumns, r) = [i \in DOMAIN w |-> ItemBy(HeaderColumns, w[i])]
    BY <1>4, Zenon DEF ItemsBy
  <1>10. [i \in DOMAIN w |-> ItemBy(HeaderColumns, w[i])] = [i \in DOMAIN u |-> Returned(u[i])]
    BY <1>7, <1>8
  <1> QED BY <1>2, <1>5, <1>9, <1>10

-----------------------------------------------------------------------------
(* A file is written, and then read. *)

CsvInv ==
  /\ progress \in {"none", "written", "done"}
  /\ progress # "none" =>
       \/ /\ table.by = "export" /\ table.vault \in CsvVaults
          /\ text = C!buildCsv(table.vault)
       \/ /\ table.by = "other" /\ table.table \in CsvTables
          /\ text = C!Written(table.table)
  /\ progress = "done" => rows = C!parseCSV(text) /\ read = C!mapCSVToItems(rows)

LEMMA CsvStep ==
  ASSUME CsvInv, [C!Next]_C!vars
  PROVE  CsvInv'
  <1>1. ASSUME NEW v \in CsvVaults, C!runExport(v) PROVE CsvInv'
    <2>1. /\ progress' = "written" /\ table' = [by |-> "export", vault |-> v]
          /\ text' = C!buildCsv(v)
      BY <1>1, Zenon DEF C!runExport
    <2>2. table'.by = "export" /\ table'.vault = v
      BY <2>1
    <2> QED BY <2>1, <2>2 DEF CsvInv
  <1>2. ASSUME NEW t \in CsvTables, C!OtherExport(t) PROVE CsvInv'
    <2>1. /\ progress' = "written" /\ table' = [by |-> "other", table |-> t]
          /\ text' = C!Written(t)
      BY <1>2, Zenon DEF C!OtherExport
    <2>2. table'.by = "other" /\ table'.table = t
      BY <2>1
    <2> QED BY <2>1, <2>2 DEF CsvInv
  <1>3. ASSUME C!Import PROVE CsvInv'
    <2>1. /\ progress = "written" /\ progress' = "done" /\ rows' = C!parseCSV(text)
          /\ read' = C!mapCSVToItems(rows') /\ UNCHANGED <<table, text>>
      BY <1>3 DEF C!Import
    <2> QED BY <2>1 DEF CsvInv
  <1>4. ASSUME UNCHANGED C!vars PROVE CsvInv'
    BY <1>4 DEF C!vars, CsvInv
  <1> QED BY <1>1, <1>2, <1>3, <1>4 DEF C!Next

\* The round trip is the invariant, with what was read in place of reading.
LEMMA CsvReadsBack ==
  ASSUME CsvInv
  PROVE  CsvRoundTrip
  <1> SUFFICES ASSUME progress = "done" PROVE CsvRoundTrip
    BY Zenon DEF CsvRoundTrip, C!CsvRoundTrip
  <1>1. rows = C!parseCSV(text) /\ read = C!mapCSVToItems(rows)
    BY DEF CsvInv
  <1>2. CASE table.by = "export" /\ table.vault \in CsvVaults /\ text = C!buildCsv(table.vault)
    <2> PICK vault \in Seq(CsvItems) : vault = table.vault
      BY <1>2, FormatsAssumption DEF CsvAssumption
    <2>1. rows = <<HeaderRow>> \o Rows(vault)
      BY <1>1, <1>2, ExportIsParsed
    <2>2. read = [i \in DOMAIN Titled(vault) |-> Returned(Titled(vault)[i])]
      BY <1>1, <2>1, ItemsComeBackFromCsv
    <2>3. CsvRoundTrip <=>
            /\ rows = <<HeaderRow>> \o Rows(vault)
            /\ read = [i \in DOMAIN Titled(vault) |-> Returned(Titled(vault)[i])]
      BY <1>2, Zenon DEF CsvRoundTrip, C!CsvRoundTrip, HeaderRow, Rows, Titled, Returned
    <2> QED BY <2>1, <2>2, <2>3
  <1>3. CASE table.by = "other" /\ table.table \in CsvTables /\ text = C!Written(table.table)
    <2>1. rows = table.table.rows
      BY <1>1, <1>3, OtherIsParsed
    <2>2. table.by # "export"
      BY <1>3
    <2> QED BY <2>1, <2>2, Zenon DEF CsvRoundTrip, C!CsvRoundTrip
  <1> QED BY <1>2, <1>3 DEF CsvInv

\* The cells of a CSV file are those that were written, whatever quotes,
\* separators and line ends are in them, and each titled item comes back with
\* its login up to the blanks around the values, for any vault and any table.
THEOREM CsvComesBack == C!Spec => []CsvRoundTrip
  <1>1. C!Init => CsvInv
    BY DEF C!Init, CsvInv
  <1>2. CsvInv /\ [C!Next]_C!vars => CsvInv'
    BY CsvStep
  <1>3. CsvInv => CsvRoundTrip
    BY CsvReadsBack
  <1> QED BY <1>1, <1>2, <1>3, PTL DEF C!Spec
================================================================================

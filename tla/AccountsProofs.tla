--------------------------- MODULE AccountsProofs ---------------------------
(***************************************************************************)
(* Proofs about Accounts, for any clients and callers.  Types hold however *)
(* many set-ups run at once; the rest for one at a time (AtOnce = 1), as   *)
(* two of them do mix.  One set-up is still three statements after a look  *)
(* at the row, between which clients log in, recover and break off.  The   *)
(* argument: a recovery works on an account that is complete, and a set-up *)
(* past its check has found one that is not, so the two never write to the *)
(* same account at the same time.  An upload whose check could not read    *)
(* the row is the exception: up to the first that replaces a key pair      *)
(* everything is in order.                                                 *)
(***************************************************************************)
EXTENDS Accounts, FiniteSetTheorems, TLAPS

\* The operations that come by a label.
Kinds(l) ==
    CASE l = "start" -> {"none"}
      [] l = "check" -> {"signup", "bare", "setup", "login"}
      [] l = "insert" -> {"signup", "bare"}
      [] l = "srp" -> {"signup", "bare", "setup"}
      [] l = "keys" -> {"signup", "setup", "login"}
      [] l = "rec" -> {"signup", "setup"}
      [] l \in {"step2", "upload"} -> {"login"}
      [] l \in {"challenge", "recover"} -> {"recover"}
      [] OTHER -> Ops \ {"none"}

\* What an attempt is, whatever the others do.
Attempts ==
    \A c \in Clients :
        /\ op[c] \in Kinds(pc[c])
        /\ op[c] # "login" => pw[c] = c
        /\ op[c] \in {"setup", "login", "recover"} \/ pc[c] \in {"srp", "keys", "rec", "ok"} =>
             row # NoRow
        /\ pc[c] \in {"challenge", "recover"} => key[c] # None

TInv == TypeOK /\ Attempts

\* The server works on one set-up at a time.
OneSetUp == \A c, d \in Clients : pc[c] \in SetUp /\ pc[d] \in SetUp => c = d

\* The columns of the row fill in their order.
RowInOrder ==
    row # NoRow =>
        /\ row.pub = None <=> row.priv = None
        /\ row.pub # None => row.srp # None
        /\ row.rec # None => row.pub # None

\* What a set-up found out in its check is still so at its UPDATEs.
SetUpsInOrder ==
    \A c \in Clients :
        /\ pc[c] = "srp" \/ (pc[c] = "keys" /\ op[c] # "login") => row.pub = None
        /\ pc[c] = "srp" /\ op[c] # "setup" => row.srp = None
        /\ pc[c] = "keys" /\ op[c] # "login" => row.srp = c
        /\ pc[c] = "rec" => /\ row.srp = c /\ row.pub = c /\ row.rec = None
                            /\ row.priv = [key |-> c, pw |-> c]

\* A challenge was met for an account that has a recovery key.
Recoveries ==
    \A c \in Clients : pc[c] = "recover" /\ held[c] # None =>
        row.rec # None /\ row.pub = key[c]

\* A login that may yet upload keys: while there are none, and no set-up has
\* left its verifier without them, the verifier is that of its password.
Logins ==
    \A c \in Clients :
        op[c] = "login" =>
            /\ row.srp # None
            /\ (\/ pc[c] \notin {"step2", "upload", "check", "keys"}
                \/ row.pub # None
                \/ \E d \in Clients : pc[d] = "broken" \/ (pc[d] = "keys" /\ op[d] = "setup")
                \/ row.srp = pw[c])

SInv == /\ OneSetUp /\ RowInOrder /\ SetUpsInOrder /\ Recoveries /\ Logins
        /\ KeyPairMatches /\ PasswordOpensKey /\ AcknowledgedIsUsable

\* What holds until an upload replaces a key pair, and what holds always.
Sound == TInv /\ ~ Overwritten /\ SInv
IInv == TInv /\ (Overwritten \/ SInv)

-----------------------------------------------------------------------------
(* Types *)

\* Before any attempt everything is empty.
LEMMA InitIInv == Init => IInv
  BY SentinelAssumption
  DEF Init, IInv, TInv, SInv, TypeOK, Attempts, OneSetUp, RowInOrder, SetUpsInOrder, Recoveries,
      Logins, KeyPairMatches, PasswordOpensKey, AcknowledgedIsUsable, Kinds, Ops, PC, SetUp

\* What is inserted is a row.
LEMMA NewRows ==
  ASSUME NEW c \in Clients
  PROVE  /\ [srp |-> c, pub |-> c, priv |-> [key |-> c, pw |-> c],
             rec |-> [key |-> c, by |-> c]] \in Row
         /\ [Empty EXCEPT !.srp = c] \in Row
  BY DEF Row, Empty

\* A row, and what its columns hold.
LEMMA RowFields ==
  ASSUME NEW r \in Row
  PROVE  /\ r # NoRow
         /\ r.srp \in Clients \union {None} /\ r.pub \in Clients \union {None}
         /\ r.priv # None => r.priv.key \in Clients /\ r.priv.pw \in Clients
         /\ r.rec # None => r.rec.key \in Clients /\ r.rec.by \in Clients
  BY SentinelAssumption DEF Row

\* An attempt goes from label to label.
LEMMA GotoStep ==
  ASSUME TypeOK, NEW c \in Clients, NEW l \in PC, Goto(c, l)
  PROVE  /\ pc' \in [Clients -> PC] /\ pc'[c] = l
         /\ \A d \in Clients \ {c} : pc'[d] = pc[d]
  BY DEF TypeOK, Goto

\* A step of attempt c keeps the types if what it sets has them.
LEMMA AttemptStep ==
  ASSUME TInv, NEW c \in Clients, TypeOK', row # NoRow => row' # NoRow,
         \A d \in Clients \ {c} : /\ pc'[d] = pc[d] /\ op'[d] = op[d] /\ pw'[d] = pw[d]
                                  /\ key'[d] = key[d],
         /\ op'[c] \in Kinds(pc'[c])
         /\ op'[c] # "login" => pw'[c] = c
         /\ op'[c] \in {"setup", "login", "recover"}
            \/ pc'[c] \in {"srp", "keys", "rec", "ok"} => row' # NoRow
         /\ pc'[c] \in {"challenge", "recover"} => key'[c] # None
  PROVE  TInv'
  BY DEF TInv, Attempts

\* The start of a set-up.
LEMMA SendSetUpTypes == ASSUME TInv, NEW c \in Clients, SendSetUp(c) PROVE TInv'
  <1>1. PICK o \in {"signup", "bare", "setup"} :
          Begin(c, o, "check") /\ (o = "setup" => row # NoRow)
    BY DEF SendSetUp
  <1>2. /\ pc[c] = "start" /\ Goto(c, "check") /\ op' = [op EXCEPT ![c] = o]
        /\ UNCHANGED <<row, key, call, pw, held>> /\ "check" \in PC /\ o \in Ops
    BY <1>1 DEF SendSetUp, Begin, PC, SetUp, Ops
  <1>3. /\ pc' \in [Clients -> PC] /\ pc'[c] = "check"
        /\ \A d \in Clients \ {c} : pc'[d] = pc[d]
    BY <1>2, GotoStep DEF TInv
  <1>4. /\ op' \in [Clients -> Ops] /\ op'[c] = o
        /\ \A d \in Clients \ {c} : op'[d] = op[d]
    BY <1>2 DEF TInv, TypeOK
  <1>5. TypeOK'
    BY <1>2, <1>3, <1>4 DEF TInv, TypeOK, Row
  <1>6. pw[c] = c
    BY <1>2 DEF TInv, Attempts, Kinds
  <1> QED BY <1>1, <1>2, <1>3, <1>4, <1>5, <1>6, AttemptStep DEF Kinds

\* Steps that go from label to label and write at most the row.
LEMMA ServeTypes ==
  ASSUME TInv, NEW c \in Clients,
         \/ SignupCheck(c) \/ SetupCheck(c) \/ UploadCheck(c) \/ SendUploadKeys(c) \/ Break(c)
         \/ SignupInsert(c) \/ UpdateSRPCredentials(c) \/ UpdateKeys(c) \/ UpdateRecoveryKey(c)
  PROVE  TInv'
  <1>1. UNCHANGED <<op, pw, key, held, call>> /\ pw[c] \in Clients
    BY DEF SignupCheck, SetupCheck, UploadCheck, SendUploadKeys, Break, SignupInsert,
           UpdateSRPCredentials, UpdateKeys, UpdateRecoveryKey, TInv, TypeOK
  <1>2. row' \in Row \union {NoRow} /\ (row # NoRow => row' # NoRow)
    <2>1. CASE SignupInsert(c)
      BY <2>1, NewRows, RowFields DEF SignupInsert, TInv, TypeOK
    <2>2. CASE UpdateSRPCredentials(c) \/ UpdateKeys(c) \/ UpdateRecoveryKey(c)
      <3>1. row \in Row
        BY <2>2 DEF UpdateSRPCredentials, UpdateKeys, UpdateRecoveryKey, TInv, TypeOK, Attempts
      <3>2. PICK r \in Row : r = row
        BY <3>1
      <3>3. \/ row' = [r EXCEPT !.srp = c]
            \/ row' = [r EXCEPT !.pub = c, !.priv = [key |-> c, pw |-> pw[c]]]
            \/ row' = [r EXCEPT !.rec = [key |-> c, by |-> c]]
        BY <2>2, <3>2 DEF UpdateSRPCredentials, UpdateKeys, UpdateRecoveryKey
      <3>4. /\ [r EXCEPT !.srp = c] \in Row
            /\ [r EXCEPT !.rec = [key |-> c, by |-> c]] \in Row
            /\ [r EXCEPT !.pub = c, !.priv = [key |-> c, pw |-> pw[c]]] \in Row
        BY <1>1 DEF Row
      <3>5. row' \in Row
        BY <3>3, <3>4
      <3> QED BY <3>5, RowFields
    <2>3. CASE UNCHANGED row
      BY <2>3 DEF TInv, TypeOK
    <2> QED BY <2>1, <2>2, <2>3 DEF SignupCheck, SetupCheck, UploadCheck, SendUploadKeys, Break
  <1>3. PICK l \in PC : /\ Goto(c, l) /\ op[c] \in Kinds(l)
                        /\ l \in {"srp", "keys", "rec", "ok"} => row' # NoRow
                        /\ l \notin {"challenge", "recover"}
    <2>1. /\ op[c] \in Kinds(pc[c])
          /\ pc[c] \in {"srp", "keys", "rec"} \/ op[c] \in {"setup", "login"} => row # NoRow
      BY DEF TInv, Attempts
    <2>2. CASE SignupCheck(c)
      BY <2>1, <2>2 DEF SignupCheck, PC, SetUp, Kinds
    <2>3. CASE SetupCheck(c)
      BY <2>1, <2>3 DEF SetupCheck, PC, SetUp, Kinds, Ops
    <2>4. CASE UploadCheck(c)
      BY <2>1, <2>4 DEF UploadCheck, PC, SetUp, Kinds, Ops
    <2>5. CASE SendUploadKeys(c)
      BY <2>1, <2>5 DEF SendUploadKeys, PC, SetUp, Kinds
    <2>6. CASE Break(c)
      BY <2>1, <2>6 DEF Break, PC, SetUp, Kinds, Ops, TInv, TypeOK
    <2>7. CASE SignupInsert(c)
      <3>1. row = NoRow => row' # NoRow
        BY <2>7, NewRows, RowFields DEF SignupInsert
      <3> QED BY <2>1, <2>7, <3>1 DEF SignupInsert, PC, SetUp, Kinds, Ops
    <2>8. CASE UpdateSRPCredentials(c)
      BY <1>2, <2>1, <2>8 DEF UpdateSRPCredentials, PC, SetUp, Kinds, Ops
    <2>9. CASE UpdateKeys(c)
      BY <1>2, <2>1, <2>9 DEF UpdateKeys, PC, SetUp, Kinds, Ops
    <2>10. CASE UpdateRecoveryKey(c)
      BY <1>2, <2>1, <2>10 DEF UpdateRecoveryKey, PC, SetUp, Kinds, Ops
    <2> QED BY <2>2, <2>3, <2>4, <2>5, <2>6, <2>7, <2>8, <2>9, <2>10
  <1>4. /\ pc' \in [Clients -> PC] /\ pc'[c] = l
        /\ \A d \in Clients \ {c} : pc'[d] = pc[d]
    BY <1>3, GotoStep DEF TInv
  <1>5. TypeOK'
    BY <1>1, <1>2, <1>4 DEF TInv, TypeOK, Row
  <1>6. /\ op[c] # "login" => pw[c] = c
        /\ op[c] \in {"setup", "login", "recover"} => row' # NoRow
    BY <1>2 DEF TInv, Attempts
  <1> QED BY <1>1, <1>2, <1>3, <1>4, <1>5, <1>6, AttemptStep

\* The two steps of a login.
LEMMA LoginTypes == ASSUME TInv, NEW c \in Clients, LoginStep1(c) \/ LoginStep2(c) PROVE TInv'
  <1>1. CASE LoginStep1(c)
    <2>1. /\ pc[c] = "start" /\ Goto(c, "step2") /\ op' = [op EXCEPT ![c] = "login"]
          /\ row # NoRow /\ row.srp # None /\ UNCHANGED <<row, key, call>>
          /\ pw' = [pw EXCEPT ![c] = row.srp] /\ held' = [held EXCEPT ![c] = row.srp]
          /\ "step2" \in PC /\ "login" \in Ops
      BY <1>1 DEF LoginStep1, Begin, PC, Ops
    <2>2. row.srp \in Clients
      BY <2>1, RowFields DEF TInv, TypeOK
    <2>3. /\ pc' \in [Clients -> PC] /\ pc'[c] = "step2"
          /\ \A d \in Clients \ {c} : pc'[d] = pc[d]
      BY <2>1, GotoStep DEF TInv
    <2>4. /\ op' \in [Clients -> Ops] /\ op'[c] = "login"
          /\ \A d \in Clients \ {c} : op'[d] = op[d]
          /\ pw' \in [Clients -> Clients] /\ \A d \in Clients \ {c} : pw'[d] = pw[d]
          /\ held' \in [Clients -> Clients \union {None}]
      BY <2>1, <2>2 DEF TInv, TypeOK
    <2>5. TypeOK'
      BY <2>1, <2>3, <2>4 DEF TInv, TypeOK, Row
    <2> QED BY <2>1, <2>3, <2>4, <2>5, AttemptStep DEF Kinds
  <1>2. CASE LoginStep2(c)
    <2>1. /\ pc[c] = "step2" /\ op[c] = "login" /\ row # NoRow
          /\ UNCHANGED <<row, op, pw, call>> /\ held' = [held EXCEPT ![c] = None]
      BY <1>2 DEF LoginStep2, TInv, Attempts, Kinds
    <2>2. PICK l \in {"error", "upload", "ok", "locked_out"}, k \in Clients \union {None} :
            Goto(c, l) /\ key' = [key EXCEPT ![c] = k]
      <3>1. row.priv # None => row.priv.key \in Clients
        BY <2>1, RowFields DEF TInv, TypeOK
      <3>2. UNCHANGED key => key' = [key EXCEPT ![c] = key[c]] /\ key[c] \in Clients \union {None}
        BY DEF TInv, TypeOK
      <3> QED BY <1>2, <3>1, <3>2 DEF LoginStep2
    <2>3. /\ pc' \in [Clients -> PC] /\ pc'[c] = l
          /\ \A d \in Clients \ {c} : pc'[d] = pc[d]
      BY <2>2, GotoStep DEF TInv, PC
    <2>4. /\ key' \in [Clients -> Clients \union {None}]
          /\ \A d \in Clients \ {c} : key'[d] = key[d]
          /\ held' \in [Clients -> Clients \union {None}]
      BY <2>1, <2>2 DEF TInv, TypeOK
    <2>5. TypeOK'
      BY <2>1, <2>3, <2>4 DEF TInv, TypeOK, Row
    <2>6. op[c] \in Kinds(l)
      BY <2>1, <2>2 DEF Kinds, Ops
    <2> QED BY <2>1, <2>2, <2>3, <2>4, <2>5, <2>6, AttemptStep
  <1> QED BY <1>1, <1>2

\* The three requests of a recovery.
LEMMA RecoverTypes ==
  ASSUME TInv, NEW c \in Clients, GetRecoveryData(c) \/ GetRecoveryChallenge(c) \/ Recover(c)
  PROVE  TInv'
  <1>1. CASE GetRecoveryData(c)
    <2>1. /\ pc[c] = "start" /\ Goto(c, "challenge") /\ op' = [op EXCEPT ![c] = "recover"]
          /\ row # NoRow /\ row.rec # None /\ UNCHANGED <<row, pw, held, call>>
          /\ key' = [key EXCEPT ![c] = row.rec.key]
          /\ "challenge" \in PC /\ "recover" \in Ops
      BY <1>1 DEF GetRecoveryData, HasKeys, PC, Ops
    <2>2. row.rec.key \in Clients /\ row.rec.key # None
      BY <2>1, RowFields, SentinelAssumption DEF TInv, TypeOK
    <2>3. /\ pc' \in [Clients -> PC] /\ pc'[c] = "challenge"
          /\ \A d \in Clients \ {c} : pc'[d] = pc[d]
      BY <2>1, GotoStep DEF TInv
    <2>4. /\ op' \in [Clients -> Ops] /\ op'[c] = "recover"
          /\ \A d \in Clients \ {c} : op'[d] = op[d] /\ key'[d] = key[d]
          /\ key' \in [Clients -> Clients \union {None}] /\ key'[c] # None
      BY <2>1, <2>2 DEF TInv, TypeOK
    <2>5. TypeOK'
      BY <2>1, <2>3, <2>4 DEF TInv, TypeOK, Row
    <2>6. pw[c] = c
      BY <2>1 DEF TInv, Attempts, Kinds
    <2> QED BY <2>1, <2>3, <2>4, <2>5, <2>6, AttemptStep DEF Kinds
  <1>2. CASE GetRecoveryChallenge(c)
    <2>1. /\ pc[c] = "challenge" /\ op[c] = "recover" /\ row # NoRow /\ key[c] # None
          /\ pw[c] = c /\ UNCHANGED <<row, op, pw, key, call>>
      BY <1>2 DEF GetRecoveryChallenge, TInv, Attempts, Kinds
    <2>2. PICK l \in {"recover", "error"} : Goto(c, l)
      BY <1>2 DEF GetRecoveryChallenge
    <2>3. held' \in [Clients -> Clients \union {None}]
      BY <1>2, <2>1, RowFields DEF GetRecoveryChallenge, TInv, TypeOK
    <2>4. /\ pc' \in [Clients -> PC] /\ pc'[c] = l
          /\ \A d \in Clients \ {c} : pc'[d] = pc[d]
      BY <2>2, GotoStep DEF TInv, PC
    <2>5. TypeOK'
      BY <2>1, <2>3, <2>4 DEF TInv, TypeOK, Row
    <2>6. op[c] \in Kinds(l)
      BY <2>1, <2>2 DEF Kinds, Ops
    <2> QED BY <2>1, <2>2, <2>4, <2>5, <2>6, AttemptStep
  <1>3. CASE Recover(c)
    <2>1. /\ pc[c] = "recover" /\ op[c] = "recover" /\ row \in Row /\ key[c] \in Clients
          /\ pw[c] = c /\ UNCHANGED <<op, pw, key, call>>
          /\ held' = [held EXCEPT ![c] = None]
      BY <1>3 DEF Recover, TInv, TypeOK, Attempts, Kinds
    <2>2. PICK l \in {"ok", "error"} : Goto(c, l)
      BY <1>3 DEF Recover
    <2>3. row' \in Row
      <3>1. [row EXCEPT !.srp = c, !.priv = [key |-> key[c], pw |-> c],
                        !.rec = [key |-> key[c], by |-> c]] \in Row
        BY <2>1 DEF Row
      <3> QED BY <1>3, <2>1, <3>1 DEF Recover
    <2>4. /\ pc' \in [Clients -> PC] /\ pc'[c] = l
          /\ \A d \in Clients \ {c} : pc'[d] = pc[d]
      BY <2>2, GotoStep DEF TInv, PC
    <2>5. TypeOK' /\ row' # NoRow
      BY <2>1, <2>3, <2>4, RowFields DEF TInv, TypeOK
    <2>6. op[c] \in Kinds(l)
      BY <2>1, <2>2 DEF Kinds, Ops
    <2> QED BY <2>1, <2>2, <2>4, <2>5, <2>6, AttemptStep
  <1> QED BY <1>1, <1>2, <1>3

\* Stores that expire, and requests that create the account when they see it.
LEMMA OtherTypes ==
  ASSUME TInv,
         (\E c \in Clients : Expire(c)) \/ (\E x \in Callers : GetByEmail(x) \/ Create(x))
  PROVE  TInv'
  <1>1. CASE \E c \in Clients : Expire(c)
    BY <1>1 DEF Expire, TInv, TypeOK, Attempts, Row
  <1>2. CASE \E x \in Callers : GetByEmail(x)
    BY <1>2 DEF GetByEmail, client, TInv, TypeOK, Attempts, Row
  <1>3. ASSUME NEW x \in Callers, Create(x) PROVE TInv'
    <2>1. UNCHANGED <<op, pc, pw, key, held>>
      BY <1>3 DEF Create, client
    <2>2. Empty \in Row /\ Empty # NoRow
      BY RowFields DEF Empty, Row
    <2>3. row' \in Row /\ row' # NoRow
      BY <1>3, <2>2, RowFields DEF Create, TInv, TypeOK
    <2>4. call' \in [Callers -> {"start", "create", "created", "found", "error"}]
      BY <1>3 DEF Create, TInv, TypeOK
    <2> QED BY <2>1, <2>3, <2>4 DEF TInv, TypeOK, Attempts
  <1> QED BY <1>1, <1>2, <1>3

\* Every step keeps the types.
LEMMA NextTypes == TInv /\ [Next]_vars => TInv'
  <1>1. TInv /\ UNCHANGED vars => TInv'
    BY DEF vars, TInv, TypeOK, Attempts, Row
  <1> QED BY <1>1, SendSetUpTypes, ServeTypes, LoginTypes, RecoverTypes, OtherTypes DEF Next

\* The row, the stores and the attempts hold what they may hold, however many
\* set-ups run at the same time.
THEOREM TypeCorrect == Spec => []TypeOK
  <1>1. Init => TInv
    BY InitIInv DEF IInv
  <1>2. TInv => TypeOK
    BY DEF TInv
  <1> QED BY <1>1, <1>2, NextTypes, PTL DEF Spec

-----------------------------------------------------------------------------
(* One set-up at a time *)

\* When the server takes another set-up on, it works on none.
LEMMA NoOtherSetUp ==
  ASSUME AtOnce = 1, OneSetUp, MaySetUp
  PROVE  \A d \in Clients : pc[d] \notin SetUp
  <1> SUFFICES ASSUME NEW d \in Clients, pc[d] \in SetUp PROVE FALSE
    OBVIOUS
  <1>1. {c \in Clients : pc[c] \in SetUp} = {d}
    BY DEF OneSetUp
  <1>2. Cardinality({d}) = 1
    BY FS_Singleton
  <1> QED BY <1>1, <1>2 DEF MaySetUp

\* A step of attempt c that leaves the row alone.
LEMMA ReadStep ==
  ASSUME Sound, NEW c \in Clients, UNCHANGED row,
         \A d \in Clients \ {c} : /\ pc'[d] = pc[d] /\ op'[d] = op[d] /\ pw'[d] = pw[d]
                                  /\ key'[d] = key[d] /\ held'[d] = held[d],
         pc'[c] \in SetUp => pc[c] \in SetUp \/ \A d \in Clients : pc[d] \notin SetUp,
         pc'[c] = "srp" => row.pub = None,
         pc'[c] = "srp" /\ op'[c] # "setup" => row.srp = None,
         pc'[c] # "rec", pc'[c] = "keys" => op'[c] = "login",
         pc'[c] = "recover" /\ held'[c] # None => row.rec # None /\ row.pub = key'[c],
         op'[c] = "login" =>
            /\ row.srp # None
            /\ (\/ pc'[c] \notin {"step2", "upload", "check", "keys"}
                \/ row.pub # None
                \/ \E d \in Clients : pc'[d] = "broken" \/ (pc'[d] = "keys" /\ op'[d] = "setup")
                \/ row.srp = pw'[c]),
         pc'[c] = "ok" => op'[c] \notin {"signup", "setup"},
         pc[c] = "broken" => pc'[c] = "broken",
         pc[c] = "keys" /\ op[c] = "setup" => pc'[c] = "broken",
         op[c] = "recover" => op'[c] = "recover"
  PROVE  SInv'
  <1>1. OneSetUp'
    BY DEF Sound, SInv, OneSetUp
  <1>2. RowInOrder' /\ KeyPairMatches'
    BY DEF Sound, SInv, RowInOrder, KeyPairMatches
  <1>3. SetUpsInOrder' /\ Recoveries'
    BY DEF Sound, SInv, SetUpsInOrder, Recoveries
  <1>4. Logins'
    <2>1. \A d \in Clients : /\ pc[d] = "broken" => pc'[d] = "broken"
                             /\ pc[d] = "keys" /\ op[d] = "setup" =>
                                  pc'[d] = "broken" \/ (pc'[d] = "keys" /\ op'[d] = "setup")
      OBVIOUS
    <2> QED BY <2>1 DEF Sound, SInv, Logins
  <1>5. PasswordOpensKey'
    BY DEF Sound, SInv, PasswordOpensKey
  <1>6. AcknowledgedIsUsable'
    <2> SUFFICES ASSUME NEW d \in Clients, pc'[d] = "ok", op'[d] \in {"signup", "setup"}
                 PROVE  /\ row.pub = d /\ row.priv = [key |-> d, pw |-> row.srp]
                        /\ row.srp = d \/ op'[row.srp] = "recover"
                        /\ row.rec # None /\ row.rec.by = row.srp
      BY DEF AcknowledgedIsUsable
    <2>1. d # c /\ pc[d] = "ok" /\ op[d] \in {"signup", "setup"}
      OBVIOUS
    <2>2. /\ row.pub = d /\ row.priv = [key |-> d, pw |-> row.srp]
          /\ row.srp = d \/ op[row.srp] = "recover"
          /\ row.rec # None /\ row.rec.by = row.srp
      BY <2>1 DEF Sound, SInv, AcknowledgedIsUsable
    <2>3. row.srp \in Clients
      <3>1. row \in Row /\ row.srp # None
        BY <2>1, <2>2, SentinelAssumption
        DEF Sound, TInv, SInv, TypeOK, Attempts, RowInOrder
      <3> QED BY <3>1, RowFields
    <2> QED BY <2>2, <2>3
  <1> QED BY <1>1, <1>2, <1>3, <1>4, <1>5, <1>6 DEF SInv

\* A step from label to label that writes nothing else.
LEMMA GoStep ==
  ASSUME Sound, NEW c \in Clients, NEW l \in PC, Goto(c, l),
         UNCHANGED <<row, op, pw, key, held, call>>,
         l \in SetUp => pc[c] \in SetUp \/ \A d \in Clients : pc[d] \notin SetUp,
         l = "srp" => row.pub = None,
         l = "srp" /\ op[c] # "setup" => row.srp = None,
         l \notin {"rec", "recover"}, l = "keys" => op[c] = "login",
         l \in {"step2", "upload", "check", "keys"} =>
           pc[c] \in {"step2", "upload", "check", "keys"},
         l = "ok" => op[c] \notin {"signup", "setup"},
         pc[c] # "broken", pc[c] = "keys" => l = "broken"
  PROVE  SInv'
  <1>1. /\ pc'[c] = l /\ \A d \in Clients \ {c} : pc'[d] = pc[d]
    BY GotoStep DEF Sound, TInv
  <1>2. op[c] = "login" =>
            /\ row.srp # None
            /\ (\/ l \notin {"step2", "upload", "check", "keys"}
                \/ row.pub # None
                \/ \E d \in Clients : pc'[d] = "broken" \/ (pc'[d] = "keys" /\ op[d] = "setup")
                \/ row.srp = pw[c])
    <2>1. \A d \in Clients : /\ pc[d] = "broken" => pc'[d] = "broken"
                             /\ pc[d] = "keys" /\ op[d] = "setup" =>
                                  pc'[d] = "broken" \/ pc'[d] = "keys"
      BY <1>1
    <2> QED BY <2>1 DEF Sound, SInv, Logins
  <1> QED BY <1>1, <1>2, ReadStep

\* A set-up on its way, up to the statement that writes.
LEMMA ServeStep ==
  ASSUME AtOnce = 1, Sound, NEW c \in Clients,
         \/ SignupCheck(c) \/ SetupCheck(c) \/ UploadCheck(c) \/ SendUploadKeys(c) \/ Break(c)
         \/ SignupInsert(c) /\ row # NoRow
  PROVE  SInv'
  <1>1. UNCHANGED <<row, op, pw, key, held, call>>
    BY DEF SignupCheck, SetupCheck, UploadCheck, SendUploadKeys, Break, SignupInsert
  <1>2. row # NoRow => /\ row.pub = None <=> row.priv = None
                       /\ row.pub # None => row.srp # None
    BY DEF Sound, SInv, RowInOrder
  <1>3. op[c] \in Kinds(pc[c]) /\ (op[c] = "setup" => row # NoRow)
    BY DEF Sound, TInv, Attempts
  <1>4. CASE SignupCheck(c)
    BY <1>1, <1>2, <1>4, GoStep DEF SignupCheck, PC, SetUp
  <1>5. CASE SetupCheck(c)
    BY <1>1, <1>2, <1>3, <1>5, GoStep DEF SetupCheck, HasKeys, PC, SetUp
  <1>6. CASE UploadCheck(c)
    BY <1>1, <1>6, GoStep DEF UploadCheck, PC, SetUp
  <1>7. CASE SendUploadKeys(c)
    <2>1. \A d \in Clients : pc[d] \notin SetUp
      BY <1>7, NoOtherSetUp DEF SendUploadKeys, Sound, SInv
    <2> QED BY <1>1, <1>7, <2>1, GoStep DEF SendUploadKeys, PC, SetUp
  <1>8. CASE Break(c)
    BY <1>1, <1>8, GoStep DEF Break, PC, SetUp
  <1>9. CASE SignupInsert(c) /\ row # NoRow
    BY <1>1, <1>9, GoStep DEF SignupInsert, PC, SetUp
  <1> QED BY <1>4, <1>5, <1>6, <1>7, <1>8, <1>9

\* The start of a set-up, when there is no other.
LEMMA SendSetUpStep == ASSUME AtOnce = 1, Sound, NEW c \in Clients, SendSetUp(c) PROVE SInv'
  <1>1. PICK o \in {"signup", "bare", "setup"} : Begin(c, o, "check")
    BY DEF SendSetUp
  <1>2. /\ pc[c] = "start" /\ Goto(c, "check") /\ op' = [op EXCEPT ![c] = o]
        /\ UNCHANGED <<row, key, call, pw, held>> /\ "check" \in PC
    BY <1>1 DEF SendSetUp, Begin, PC, SetUp
  <1>3. pc'[c] = "check" /\ \A d \in Clients \ {c} : pc'[d] = pc[d]
    BY <1>2, GotoStep DEF Sound, TInv
  <1>4. op'[c] = o /\ \A d \in Clients \ {c} : op'[d] = op[d]
    BY <1>2 DEF Sound, TInv, TypeOK
  <1>5. \A d \in Clients : pc[d] \notin SetUp
    BY NoOtherSetUp DEF SendSetUp, Sound, SInv
  <1>6. op[c] = "none"
    BY <1>2 DEF Sound, TInv, Attempts, Kinds
  <1> QED BY <1>2, <1>3, <1>4, <1>5, <1>6, ReadStep

\* The two steps of a login.
LEMMA LoginStep == ASSUME Sound, NEW c \in Clients, LoginStep1(c) \/ LoginStep2(c) PROVE SInv'
  <1>1. CASE LoginStep1(c)
    <2>1. /\ pc[c] = "start" /\ Goto(c, "step2") /\ op' = [op EXCEPT ![c] = "login"]
          /\ row # NoRow /\ row.srp # None /\ UNCHANGED <<row, key, call>>
          /\ pw' = [pw EXCEPT ![c] = row.srp] /\ held' = [held EXCEPT ![c] = row.srp]
          /\ "step2" \in PC
      BY <1>1 DEF LoginStep1, Begin, PC
    <2>2. pc'[c] = "step2" /\ \A d \in Clients \ {c} : pc'[d] = pc[d]
      BY <2>1, GotoStep DEF Sound, TInv
    <2>3. /\ op'[c] = "login" /\ pw'[c] = row.srp
          /\ \A d \in Clients \ {c} : op'[d] = op[d] /\ pw'[d] = pw[d] /\ held'[d] = held[d]
      BY <2>1 DEF Sound, TInv, TypeOK
    <2>4. op[c] = "none"
      BY <2>1 DEF Sound, TInv, Attempts, Kinds
    <2> QED BY <2>1, <2>2, <2>3, <2>4, ReadStep DEF SetUp
  <1>2. CASE LoginStep2(c)
    <2>1. /\ pc[c] = "step2" /\ op[c] = "login" /\ UNCHANGED <<row, op, pw, call>>
          /\ held' = [held EXCEPT ![c] = None]
      BY <1>2 DEF LoginStep2, Sound, TInv, Attempts, Kinds
    <2>2. PICK l \in {"error", "upload", "ok", "locked_out"} : Goto(c, l)
      BY <1>2 DEF LoginStep2
    <2>3. pc'[c] = l /\ \A d \in Clients \ {c} : pc'[d] = pc[d]
      BY <2>2, GotoStep DEF Sound, TInv, PC
    <2>4. \A d \in Clients \ {c} : key'[d] = key[d] /\ held'[d] = held[d]
      BY <1>2, <2>1 DEF LoginStep2, Sound, TInv, TypeOK
    <2>5. /\ row.srp # None
          /\ \/ row.pub # None
             \/ \E d \in Clients : pc[d] = "broken" \/ (pc[d] = "keys" /\ op[d] = "setup")
             \/ row.srp = pw[c]
      BY <2>1 DEF Sound, SInv, Logins
    <2>6. (\E d \in Clients : pc[d] = "broken" \/ (pc[d] = "keys" /\ op[d] = "setup"))
          => \E d \in Clients : pc'[d] = "broken" \/ (pc'[d] = "keys" /\ op'[d] = "setup")
      BY <2>1, <2>3
    <2> QED BY <2>1, <2>2, <2>3, <2>4, <2>5, <2>6, ReadStep DEF SetUp
  <1> QED BY <1>1, <1>2

\* A recovery before it writes.
LEMMA ChallengeStep ==
  ASSUME Sound, NEW c \in Clients,
         GetRecoveryData(c) \/ GetRecoveryChallenge(c) \/ (Recover(c) /\ held[c] = None)
  PROVE  SInv'
  <1>1. CASE GetRecoveryData(c)
    <2>1. /\ pc[c] = "start" /\ Goto(c, "challenge") /\ op' = [op EXCEPT ![c] = "recover"]
          /\ UNCHANGED <<row, pw, held, call>> /\ key' = [key EXCEPT ![c] = row.rec.key]
          /\ "challenge" \in PC
      BY <1>1 DEF GetRecoveryData, PC
    <2>2. pc'[c] = "challenge" /\ \A d \in Clients \ {c} : pc'[d] = pc[d]
      BY <2>1, GotoStep DEF Sound, TInv
    <2>3. /\ op'[c] = "recover"
          /\ \A d \in Clients \ {c} : op'[d] = op[d] /\ key'[d] = key[d]
      BY <2>1 DEF Sound, TInv, TypeOK
    <2> QED BY <2>1, <2>2, <2>3, ReadStep DEF SetUp
  <1>2. CASE GetRecoveryChallenge(c)
    <2>1. pc[c] = "challenge" /\ op[c] = "recover" /\ UNCHANGED <<row, op, pw, key, call>>
      BY <1>2 DEF GetRecoveryChallenge, Sound, TInv, Attempts, Kinds
    <2>2. PICK l \in {"recover", "error"} :
            Goto(c, l) /\ (l = "recover" => row.rec # None /\ row.pub = key[c])
      BY <1>2 DEF GetRecoveryChallenge
    <2>3. pc'[c] = l /\ \A d \in Clients \ {c} : pc'[d] = pc[d]
      BY <2>2, GotoStep DEF Sound, TInv, PC
    <2>4. \A d \in Clients \ {c} : held'[d] = held[d]
      BY <1>2 DEF GetRecoveryChallenge, Sound, TInv, TypeOK
    <2> QED BY <2>1, <2>2, <2>3, <2>4, ReadStep DEF SetUp
  <1>3. CASE Recover(c) /\ held[c] = None
    <2>1. /\ pc[c] = "recover" /\ op[c] = "recover" /\ UNCHANGED <<row, op, pw, key, call>>
          /\ held' = [held EXCEPT ![c] = None] /\ Goto(c, "error") /\ "error" \in PC
      BY <1>3 DEF Recover, Sound, TInv, Attempts, Kinds, PC
    <2>2. pc'[c] = "error" /\ \A d \in Clients \ {c} : pc'[d] = pc[d]
      BY <2>1, GotoStep DEF Sound, TInv
    <2>3. \A d \in Clients \ {c} : held'[d] = held[d]
      BY <2>1 DEF Sound, TInv, TypeOK
    <2> QED BY <2>1, <2>2, <2>3, ReadStep DEF SetUp
  <1> QED BY <1>1, <1>2, <1>3

\* While there is no account, nothing has come of any attempt.
LEMMA NothingYet ==
  ASSUME TInv, row = NoRow, NEW d \in Clients
  PROVE  /\ pc[d] \notin {"srp", "keys", "rec", "ok", "recover"}
         /\ op[d] \notin {"setup", "login", "recover"}
  BY DEF TInv, Attempts, Kinds

\* The account comes into being, by a sign-up or on the request of a caller.
LEMMA NewAccountStep ==
  ASSUME Sound, row = NoRow, row' # NoRow, UNCHANGED op,
         \A d \in Clients : pc'[d] = pc[d] \/ (pc'[d] = "ok" /\ op[d] \in {"signup", "bare"}),
         \/ row' = Empty /\ UNCHANGED pc
         \/ \E c \in Clients :
              /\ \A d \in Clients \ {c} : pc'[d] = pc[d]
              /\ pc'[c] = "ok"
              /\ \/ op[c] = "bare" /\ row' = [Empty EXCEPT !.srp = c]
                 \/ row' = [srp |-> c, pub |-> c, priv |-> [key |-> c, pw |-> c],
                            rec |-> [key |-> c, by |-> c]]
  PROVE  SInv'
  <1>1. \A d \in Clients : /\ pc[d] \notin {"srp", "keys", "rec", "ok", "recover"}
                           /\ op[d] \notin {"setup", "login", "recover"}
    BY NothingYet DEF Sound
  <1>2. \A d \in Clients : pc'[d] \notin {"srp", "keys", "rec", "recover"}
    BY <1>1
  <1>3. OneSetUp'
    BY DEF Sound, SInv, OneSetUp, SetUp
  <1>4. SetUpsInOrder' /\ Recoveries' /\ Logins'
    BY <1>1, <1>2 DEF SetUpsInOrder, Recoveries, Logins
  <1>5. CASE row' = Empty /\ UNCHANGED pc
    <2>1. row'.srp = None /\ row'.pub = None /\ row'.priv = None /\ row'.rec = None
      BY <1>5 DEF Empty
    <2>2. RowInOrder' /\ KeyPairMatches' /\ PasswordOpensKey'
      BY <2>1 DEF RowInOrder, KeyPairMatches, PasswordOpensKey
    <2>3. AcknowledgedIsUsable'
      BY <1>1, <1>5 DEF AcknowledgedIsUsable
    <2> QED BY <1>3, <1>4, <2>2, <2>3 DEF SInv
  <1>6. ASSUME NEW c \in Clients,
               \A d \in Clients \ {c} : pc'[d] = pc[d], pc'[c] = "ok",
               \/ op[c] = "bare" /\ row' = [Empty EXCEPT !.srp = c]
               \/ row' = [srp |-> c, pub |-> c, priv |-> [key |-> c, pw |-> c],
                          rec |-> [key |-> c, by |-> c]]
        PROVE  SInv'
    <2>1. CASE op[c] = "bare" /\ row' = [Empty EXCEPT !.srp = c]
      <3>1. row'.srp = c /\ row'.pub = None /\ row'.priv = None /\ row'.rec = None
        BY <2>1 DEF Empty
      <3>2. RowInOrder' /\ KeyPairMatches' /\ PasswordOpensKey'
        BY <3>1 DEF RowInOrder, KeyPairMatches, PasswordOpensKey
      <3>3. AcknowledgedIsUsable'
        BY <1>1, <1>6, <2>1 DEF AcknowledgedIsUsable
      <3> QED BY <1>3, <1>4, <3>2, <3>3 DEF SInv
    <2>2. CASE row' = [srp |-> c, pub |-> c, priv |-> [key |-> c, pw |-> c],
                       rec |-> [key |-> c, by |-> c]]
      <3>1. /\ row'.srp = c /\ row'.pub = c /\ row'.priv = [key |-> c, pw |-> c]
            /\ row'.rec = [key |-> c, by |-> c]
            /\ row'.priv.key = c /\ row'.priv.pw = c /\ row'.rec.key = c /\ row'.rec.by = c
            /\ row'.pub # None /\ row'.srp # None /\ row'.priv # None /\ row'.rec # None
        BY <2>2, SentinelAssumption
      <3>2. RowInOrder'
        BY <3>1 DEF RowInOrder
      <3>3. KeyPairMatches' /\ PasswordOpensKey'
        BY <3>1 DEF KeyPairMatches, PasswordOpensKey
      <3>4. AcknowledgedIsUsable'
        <4>1. \A d \in Clients : pc'[d] = "ok" => d = c
          BY <1>1, <1>6
        <4> QED BY <3>1, <4>1 DEF AcknowledgedIsUsable
      <3> QED BY <1>3, <1>4, <3>2, <3>3, <3>4 DEF SInv
    <2> QED BY <1>6, <2>1, <2>2
  <1> QED BY <1>5, <1>6

\* While the account has no public key, no set-up has been acknowledged and no
\* recovery is about to write; nor while it has no recovery key.
LEMMA Unfinished ==
  ASSUME Sound, row.pub = None \/ row.rec = None
  PROVE  \A d \in Clients : /\ ~ (pc[d] = "ok" /\ op[d] \in {"signup", "setup"})
                            /\ ~ (pc[d] = "recover" /\ held[d] # None)
  <1>1. \A d \in Clients : pc[d] = "ok" /\ op[d] \in {"signup", "setup"} =>
                             row # NoRow /\ row.pub # None /\ row.rec # None
    BY SentinelAssumption DEF Sound, TInv, SInv, Attempts, AcknowledgedIsUsable
  <1>2. \A d \in Clients : pc[d] = "recover" /\ held[d] # None =>
                             row.pub # None /\ row.rec # None
    BY DEF Sound, TInv, SInv, Attempts, Recoveries
  <1> QED BY <1>1, <1>2

\* The verifier of a set-up that has found none, or an account to complete.
LEMMA SRPStep == ASSUME Sound, NEW c \in Clients, UpdateSRPCredentials(c) PROVE SInv'
  <1>1. /\ pc[c] = "srp" /\ UNCHANGED <<op, pw, key, held, call>> /\ row \in Row
        /\ row' = [row EXCEPT !.srp = c] /\ op[c] \in {"signup", "bare", "setup"}
    BY DEF UpdateSRPCredentials, Sound, TInv, TypeOK, Attempts, Kinds
  <1>2. row.pub = None /\ row.priv = None /\ row.rec = None /\ row # NoRow
    BY <1>1, RowFields DEF Sound, SInv, SetUpsInOrder, RowInOrder
  <1>3. /\ row'.srp = c /\ row'.pub = None /\ row'.priv = None /\ row'.rec = None
        /\ c # None
    BY <1>1, <1>2, SentinelAssumption DEF Row
  <1>4. PICK l \in {"ok", "keys"} : Goto(c, l) /\ (l = "ok" <=> op[c] = "bare")
    BY DEF UpdateSRPCredentials
  <1>5. pc'[c] = l /\ \A d \in Clients \ {c} : pc'[d] = pc[d]
    BY <1>4, GotoStep DEF Sound, TInv, PC, SetUp
  <1>6. \A d \in Clients : pc[d] \in SetUp => d = c
    BY <1>1 DEF Sound, SInv, OneSetUp, SetUp
  <1>7. OneSetUp'
    BY <1>5, <1>6 DEF OneSetUp
  <1>8. RowInOrder' /\ KeyPairMatches' /\ PasswordOpensKey'
    BY <1>3 DEF RowInOrder, KeyPairMatches, PasswordOpensKey
  <1>9. SetUpsInOrder'
    BY <1>3, <1>4, <1>5, <1>6 DEF SetUpsInOrder, SetUp
  <1>10. Recoveries' /\ AcknowledgedIsUsable'
    <2>1. \A d \in Clients : /\ ~ (pc[d] = "ok" /\ op[d] \in {"signup", "setup"})
                             /\ ~ (pc[d] = "recover" /\ held[d] # None)
      BY <1>2, Unfinished
    <2> QED BY <1>1, <1>4, <1>5, <2>1 DEF Recoveries, AcknowledgedIsUsable
  <1>11. Logins'
    <2>1. CASE op[c] = "setup"
      <3>1. pc'[c] = "keys" /\ op'[c] = "setup"
        BY <1>1, <1>4, <1>5, <2>1
      <3> QED BY <1>3, <3>1 DEF Logins
    <2>2. CASE op[c] # "setup"
      <3>1. row.srp = None
        BY <1>1, <2>2 DEF Sound, SInv, SetUpsInOrder
      <3>2. \A d \in Clients : op[d] # "login"
        BY <3>1 DEF Sound, SInv, Logins
      <3> QED BY <1>1, <3>2 DEF Logins
    <2> QED BY <2>1, <2>2
  <1> QED BY <1>7, <1>8, <1>9, <1>10, <1>11 DEF SInv

\* The key pair, of a set-up or of an upload that replaces none.
LEMMA KeysStep ==
  ASSUME Sound, NEW c \in Clients, UpdateKeys(c), ~ Overwritten'
  PROVE  SInv'
  <1>1. /\ pc[c] = "keys" /\ UNCHANGED <<op, pw, key, held, call>> /\ row \in Row
        /\ row' = [row EXCEPT !.pub = c, !.priv = [key |-> c, pw |-> pw[c]]]
        /\ op[c] \in {"signup", "setup", "login"} /\ pw[c] \in Clients
        /\ op[c] # "login" => pw[c] = c
    BY DEF UpdateKeys, Sound, TInv, TypeOK, Attempts, Kinds
  <1>2. row.pub = None /\ row.priv = None /\ row.rec = None /\ row # NoRow
    <2>1. row.pub = None
      <3>1. CASE op[c] = "login"
        <4>1. row.pub # None => pc'[c] = "overwrote"
          BY <3>1, GotoStep DEF UpdateKeys, Sound, TInv, PC
        <4> QED BY <4>1 DEF Overwritten
      <3>2. CASE op[c] # "login"
        BY <1>1, <3>2 DEF Sound, SInv, SetUpsInOrder
      <3> QED BY <3>1, <3>2
    <2> QED BY <1>1, <2>1, RowFields DEF Sound, SInv, RowInOrder
  <1>3. row.srp # None /\ (op[c] # "login" => row.srp = c)
    BY <1>1, SentinelAssumption DEF Sound, SInv, SetUpsInOrder, Logins
  <1>4. /\ row'.srp = row.srp /\ row'.pub = c /\ row'.priv = [key |-> c, pw |-> pw[c]]
        /\ row'.priv.key = c /\ row'.priv.pw = pw[c] /\ row'.rec = None
        /\ c # None /\ row'.priv # None
    BY <1>1, <1>2, SentinelAssumption DEF Row
  <1>5. PICK l \in {"ok", "rec"} : Goto(c, l) /\ (l = "ok" <=> op[c] = "login")
    BY <1>2 DEF UpdateKeys
  <1>6. pc'[c] = l /\ \A d \in Clients \ {c} : pc'[d] = pc[d]
    BY <1>5, GotoStep DEF Sound, TInv, PC, SetUp
  <1>7. \A d \in Clients : pc[d] \in SetUp => d = c
    BY <1>1 DEF Sound, SInv, OneSetUp, SetUp
  <1>8. OneSetUp'
    BY <1>6, <1>7 DEF OneSetUp
  <1>9. RowInOrder' /\ KeyPairMatches'
    BY <1>3, <1>4 DEF RowInOrder, KeyPairMatches
  <1>10. SetUpsInOrder'
    BY <1>1, <1>3, <1>4, <1>5, <1>6, <1>7 DEF SetUpsInOrder, SetUp
  <1>11. Recoveries' /\ AcknowledgedIsUsable'
    <2>1. \A d \in Clients : /\ ~ (pc[d] = "ok" /\ op[d] \in {"signup", "setup"})
                             /\ ~ (pc[d] = "recover" /\ held[d] # None)
      BY <1>2, Unfinished
    <2> QED BY <1>1, <1>5, <1>6, <2>1 DEF Recoveries, AcknowledgedIsUsable
  <1>12. Logins'
    BY <1>3, <1>4 DEF Logins
  <1>13. PasswordOpensKey'
    <2> SUFFICES ASSUME \A d \in Clients : pc'[d] # "broken" PROVE row.srp = pw[c]
      BY <1>4 DEF PasswordOpensKey
    <2>1. CASE op[c] = "login"
      <3>1. \A d \in Clients : pc[d] # "broken" /\ ~ (pc[d] = "keys" /\ op[d] = "setup")
        BY <1>1, <1>6, <1>7, <2>1 DEF SetUp
      <3> QED BY <1>1, <1>2, <2>1, <3>1 DEF Sound, SInv, Logins
    <2>2. CASE op[c] # "login"
      BY <1>1, <1>3, <2>2
    <2> QED BY <2>1, <2>2
  <1> QED BY <1>8, <1>9, <1>10, <1>11, <1>12, <1>13 DEF SInv

\* The recovery key, which completes a set-up.
LEMMA RecoveryKeyStep == ASSUME Sound, NEW c \in Clients, UpdateRecoveryKey(c) PROVE SInv'
  <1>1. /\ pc[c] = "rec" /\ UNCHANGED <<op, pw, key, held, call>> /\ row \in Row
        /\ row' = [row EXCEPT !.rec = [key |-> c, by |-> c]]
        /\ Goto(c, "ok") /\ "ok" \in PC
    BY DEF UpdateRecoveryKey, Sound, TInv, TypeOK, Attempts, PC
  <1>2. row.srp = c /\ row.pub = c /\ row.rec = None /\ row.priv = [key |-> c, pw |-> c]
    BY <1>1 DEF Sound, SInv, SetUpsInOrder
  <1>3. /\ row'.srp = c /\ row'.pub = c /\ row'.priv = [key |-> c, pw |-> c]
        /\ row'.rec = [key |-> c, by |-> c]
        /\ row'.priv.key = c /\ row'.priv.pw = c /\ row'.rec.key = c /\ row'.rec.by = c
        /\ c # None /\ row'.priv # None /\ row'.rec # None
    BY <1>1, <1>2, SentinelAssumption DEF Row
  <1>4. pc'[c] = "ok" /\ \A d \in Clients \ {c} : pc'[d] = pc[d]
    BY <1>1, GotoStep DEF Sound, TInv
  <1>5. \A d \in Clients : pc[d] \in SetUp => d = c
    BY <1>1 DEF Sound, SInv, OneSetUp, SetUp
  <1>6. \A d \in Clients : pc'[d] \notin SetUp
    BY <1>4, <1>5 DEF SetUp
  <1>7. OneSetUp' /\ SetUpsInOrder'
    BY <1>6 DEF OneSetUp, SetUpsInOrder, SetUp
  <1>8. RowInOrder' /\ KeyPairMatches' /\ PasswordOpensKey' /\ Logins'
    BY <1>3 DEF RowInOrder, KeyPairMatches, PasswordOpensKey, Logins
  <1>9. Recoveries' /\ AcknowledgedIsUsable'
    <2>1. \A d \in Clients : /\ ~ (pc[d] = "ok" /\ op[d] \in {"signup", "setup"})
                             /\ ~ (pc[d] = "recover" /\ held[d] # None)
      BY <1>2, Unfinished
    <2> QED BY <1>1, <1>3, <1>4, <2>1 DEF Recoveries, AcknowledgedIsUsable
  <1> QED BY <1>7, <1>8, <1>9 DEF SInv

\* A recovery that writes finds the account complete.
LEMMA RecoverStep == ASSUME Sound, NEW c \in Clients, Recover(c), held[c] # None PROVE SInv'
  <1>1. /\ pc[c] = "recover" /\ op[c] = "recover" /\ row \in Row /\ key[c] \in Clients
        /\ UNCHANGED <<op, pw, key, call>> /\ held' = [held EXCEPT ![c] = None]
        /\ row' = [row EXCEPT !.srp = c, !.priv = [key |-> key[c], pw |-> c],
                              !.rec = [key |-> key[c], by |-> c]]
        /\ Goto(c, "ok") /\ "ok" \in PC
    BY DEF Recover, Sound, TInv, TypeOK, Attempts, Kinds, PC
  <1>2. row.rec # None /\ row.pub = key[c]
    BY <1>1 DEF Sound, SInv, Recoveries
  <1>3. /\ row'.srp = c /\ row'.pub = key[c] /\ row'.priv = [key |-> key[c], pw |-> c]
        /\ row'.rec = [key |-> key[c], by |-> c]
        /\ row'.priv.key = key[c] /\ row'.priv.pw = c
        /\ row'.rec.key = key[c] /\ row'.rec.by = c
        /\ c # None /\ key[c] # None /\ row'.priv # None /\ row'.rec # None
    BY <1>1, <1>2, SentinelAssumption DEF Row
  <1>4. pc'[c] = "ok" /\ \A d \in Clients \ {c} : pc'[d] = pc[d]
    BY <1>1, GotoStep DEF Sound, TInv
  <1>5. \A d \in Clients : /\ pc[d] \notin {"srp", "rec"}
                           /\ pc[d] = "keys" => op[d] = "login"
    BY <1>2, <1>3 DEF Sound, SInv, SetUpsInOrder
  <1>6. OneSetUp' /\ SetUpsInOrder'
    <2>1. OneSetUp'
      BY <1>4 DEF Sound, SInv, OneSetUp, SetUp
    <2>2. SetUpsInOrder'
      BY <1>1, <1>4, <1>5 DEF SetUpsInOrder
    <2> QED BY <2>1, <2>2
  <1>7. RowInOrder' /\ KeyPairMatches' /\ PasswordOpensKey' /\ Logins'
    BY <1>3 DEF RowInOrder, KeyPairMatches, PasswordOpensKey, Logins
  <1>8. Recoveries'
    <2>1. \A d \in Clients \ {c} : held'[d] = held[d]
      BY <1>1 DEF Sound, TInv, TypeOK
    <2> QED BY <1>1, <1>2, <1>3, <1>4, <2>1 DEF Sound, SInv, Recoveries
  <1>9. AcknowledgedIsUsable'
    <2> SUFFICES ASSUME NEW d \in Clients, pc'[d] = "ok", op'[d] \in {"signup", "setup"}
                 PROVE  row'.pub = d
      BY <1>1, <1>3 DEF AcknowledgedIsUsable
    <2>1. d # c /\ pc[d] = "ok" /\ op[d] \in {"signup", "setup"}
      BY <1>1, <1>4
    <2> QED BY <1>2, <1>3, <2>1 DEF Sound, SInv, AcknowledgedIsUsable
  <1> QED BY <1>6, <1>7, <1>8, <1>9 DEF SInv

\* A key pair that an upload has replaced stays so.
LEMMA OnceOverwritten == TInv /\ Overwritten /\ [Next]_vars => Overwritten'
  <1> SUFFICES ASSUME TInv, [Next]_vars, NEW d \in Clients, pc[d] = "overwrote"
               PROVE  pc'[d] = "overwrote"
    BY DEF Overwritten
  <1>1. pc \in [Clients -> PC]
    BY DEF TInv, TypeOK
  <1>2. ASSUME NEW c \in Clients, NEW l, pc[c] # "overwrote", Goto(c, l)
        PROVE  pc'[d] = "overwrote"
    BY <1>1, <1>2 DEF Goto
  <1>3. CASE UNCHANGED pc
    BY <1>3
  <1>4. ASSUME NEW c \in Clients,
               \/ SendSetUp(c) \/ SignupCheck(c) \/ SignupInsert(c) \/ SetupCheck(c)
               \/ UploadCheck(c) \/ UpdateSRPCredentials(c) \/ UpdateKeys(c)
               \/ UpdateRecoveryKey(c)
        PROVE  pc'[d] = "overwrote"
    BY <1>2, <1>4 DEF SendSetUp, Begin, SignupCheck, SignupInsert, SetupCheck, UploadCheck,
                      UpdateSRPCredentials, UpdateKeys, UpdateRecoveryKey
  <1>5. ASSUME NEW c \in Clients,
               \/ LoginStep1(c) \/ LoginStep2(c) \/ SendUploadKeys(c) \/ GetRecoveryData(c)
               \/ GetRecoveryChallenge(c) \/ Recover(c) \/ Break(c)
        PROVE  pc'[d] = "overwrote"
    BY <1>2, <1>5 DEF LoginStep1, Begin, LoginStep2, SendUploadKeys, GetRecoveryData,
                      GetRecoveryChallenge, Recover, Break
  <1> QED BY <1>3, <1>4, <1>5 DEF Next, Expire, GetByEmail, Create, client, vars

\* Every step keeps what the account and the attempts agree on.
LEMMA NextIInv == ASSUME AtOnce = 1 PROVE IInv /\ [Next]_vars => IInv'
  <1> SUFFICES ASSUME Sound, [Next]_vars, ~ Overwritten' PROVE SInv'
    BY NextTypes, OnceOverwritten DEF IInv, Sound
  <1>1. CASE UNCHANGED vars
    BY <1>1 DEF vars, Overwritten, Sound, SInv, OneSetUp, RowInOrder, SetUpsInOrder, Recoveries, Logins,
                KeyPairMatches, PasswordOpensKey, AcknowledgedIsUsable
  <1>2. ASSUME NEW c \in Clients, SignupInsert(c), row = NoRow PROVE SInv'
    <2>1. /\ pc[c] = "insert" /\ UNCHANGED op /\ Goto(c, "ok") /\ "ok" \in PC
          /\ op[c] \in {"signup", "bare"}
          /\ \/ op[c] = "bare" /\ row' = [Empty EXCEPT !.srp = c]
             \/ row' = [srp |-> c, pub |-> c, priv |-> [key |-> c, pw |-> c],
                        rec |-> [key |-> c, by |-> c]]
      BY <1>2 DEF SignupInsert, Sound, TInv, Attempts, Kinds, PC
    <2>2. pc'[c] = "ok" /\ \A d \in Clients \ {c} : pc'[d] = pc[d]
      BY <2>1, GotoStep DEF Sound, TInv
    <2>3. row' # NoRow
      BY <2>1, NewRows, RowFields
    <2>4. \A d \in Clients : pc'[d] = pc[d] \/ (pc'[d] = "ok" /\ op[d] \in {"signup", "bare"})
      BY <2>1, <2>2
    <2> QED BY <1>2, <2>1, <2>2, <2>3, <2>4, NewAccountStep
  <1>3. ASSUME NEW c \in Clients, Expire(c) PROVE SInv'
    <2>1. /\ UNCHANGED <<row, op, pc, pw, key, call>>
          /\ \A d \in Clients : held'[d] = held[d] \/ held'[d] = None
      BY <1>3 DEF Expire, Sound, TInv, TypeOK
    <2> QED BY <2>1 DEF Sound, SInv, OneSetUp, RowInOrder, SetUpsInOrder, Recoveries, Logins,
                        KeyPairMatches, PasswordOpensKey, AcknowledgedIsUsable
  <1>4. ASSUME NEW x \in Callers, GetByEmail(x) \/ (Create(x) /\ row # NoRow) PROVE SInv'
    <2>1. UNCHANGED <<row, op, pc, pw, key, held>>
      BY <1>4 DEF GetByEmail, Create, client
    <2> QED BY <2>1 DEF Sound, SInv, OneSetUp, RowInOrder, SetUpsInOrder, Recoveries, Logins,
                        KeyPairMatches, PasswordOpensKey, AcknowledgedIsUsable
  <1>5. ASSUME NEW x \in Callers, Create(x), row = NoRow PROVE SInv'
    <2>1. row' = Empty /\ UNCHANGED <<op, pc, pw, key, held>>
      BY <1>5 DEF Create, client
    <2>2. row' # NoRow
      <3>1. Empty \in Row
        BY DEF Empty, Row
      <3> QED BY <2>1, <3>1, RowFields
    <2> QED BY <1>5, <2>1, <2>2, NewAccountStep
  <1> QED BY <1>1, <1>2, <1>3, <1>4, <1>5, ServeStep, SendSetUpStep, LoginStep, ChallengeStep,
             SRPStep, KeysStep, RecoveryKeyStep, RecoverStep DEF Next

\* With one set-up at a time the inductive invariant holds of every behaviour.
THEOREM Invariance == ASSUME AtOnce = 1 PROVE Spec => []IInv
  BY InitIInv, NextIInv, PTL DEF Spec

\* Whatever breaks off, the private key belongs to the public key others
\* encrypt vault keys to (UpdateKeys and Recover, user_repo.go), until an upload
\* that could not read the row replaces the pair (user_handler.go:39).
THEOREM KeyPairs == ASSUME AtOnce = 1 PROVE Spec => []KeyPairMatches
  <1>1. IInv => KeyPairMatches
    BY DEF IInv, SInv, KeyPairMatches
  <1> QED BY <1>1, Invariance, PTL

\* Unless a set-up has broken off or an upload has replaced the key pair, who
\* can log in can open the private key.
THEOREM PasswordsOpenKeys == ASSUME AtOnce = 1 PROVE Spec => []PasswordOpensKey
  <1>1. IInv => PasswordOpensKey
    BY DEF IInv, SInv, PasswordOpensKey
  <1> QED BY <1>1, Invariance, PTL

\* A set-up that has been acknowledged is not undone by a later one, a login, a
\* recovery, or an upload whose check could read the row.
THEOREM AcknowledgedStays == ASSUME AtOnce = 1 PROVE Spec => []AcknowledgedIsUsable
  <1>1. IInv => AcknowledgedIsUsable
    BY DEF IInv, SInv, AcknowledgedIsUsable
  <1> QED BY <1>1, Invariance, PTL
=============================================================================

------------------------------ MODULE Accounts ------------------------------
(***************************************************************************)
(* The account of one email address: internal/service/auth_service.go,     *)
(* internal/repository/user_repo.go, internal/srp/store.go and UploadKeys  *)
(* of internal/handler/user_handler.go, driven by signup, login, iapSetup  *)
(* and recover of web/app.js.                                              *)
(*                                                                         *)
(* The row of an account holds what only its user can make: the verifier   *)
(* of the master password, a key pair whose private half is encrypted      *)
(* under the password, and the same private half under a recovery key.     *)
(* The server writes them in up to three statements after it has looked at *)
(* the row in an earlier one, and other requests write in between.         *)
(*                                                                         *)
(* A client is one attempt in one browser.  It draws a master password, a  *)
(* key pair and a recovery key of its own, and all three bear its name.    *)
(***************************************************************************)
EXTENDS Naturals, FiniteSets

CONSTANTS
    Clients,
    Callers,   \* requests that need the account of an email they have been told
    AtOnce,    \* bound: set-ups the server works on at the same time
    NoRow,     \* the account does not exist
    None       \* NULL in the database; nothing in memory

VARIABLES
    row,     \* the row of the account in users
    op,      \* op[c]: what client c does
    pc,      \* pc[c]: the statement its request has reached
    pw,      \* pw[c]: the master password it works with
    key,     \* key[c]: the private key it has decrypted
    held,    \* held[c]: what the server keeps for it between two requests
    call     \* call[x]: what FindOrCreateByEmail of caller x has come to

client == <<op, pc, pw, key, held>>
vars == <<row, op, pc, pw, key, held, call>>

Row == [srp : Clients \union {None},
        pub : Clients \union {None},
        priv : [key : Clients, pw : Clients] \union {None},
        rec : [key : Clients, by : Clients] \union {None}]
Ops == {"none", "signup", "bare", "setup", "login", "recover"}
SetUp == {"check", "insert", "srp", "keys", "rec"}   \* labels of a set-up
PC == SetUp \union {"start", "step2", "upload", "data", "challenge", "recover",
                    "ok", "error", "locked_out", "overwrote", "broken"}

ASSUME BoundAssumption == AtOnce \in Nat
ASSUME SentinelAssumption ==
    /\ NoRow \notin Row
    /\ None \notin Clients
    /\ None \notin [key : Clients, pw : Clients]
    /\ None \notin [key : Clients, by : Clients]

Empty == [srp |-> None, pub |-> None, priv |-> None, rec |-> None]
HasKeys == row # NoRow /\ row.pub # None /\ row.priv # None
MaySetUp == Cardinality({c \in Clients : pc[c] \in SetUp}) < AtOnce

Goto(c, l) == pc' = [pc EXCEPT ![c] = l]

\* Client c starts operation o at label l.
Begin(c, o, l) ==
    /\ pc[c] = "start"
    /\ op' = [op EXCEPT ![c] = o]
    /\ Goto(c, l)
    /\ UNCHANGED <<row, key, call>>

-----------------------------------------------------------------------------
(* Setting an account up *)

\* A sign-up with keys (the web client) or with nothing but the verifier (the
\* command line client), and the first set-up of an SSO or IAP user.
SendSetUp(c) ==
    /\ MaySetUp
    /\ \/ Begin(c, "signup", "check")
       \/ Begin(c, "bare", "check")
       \/ row # NoRow /\ Begin(c, "setup", "check")
    /\ UNCHANGED <<pw, held>>

\* Mutant of SignupCheck: any account is taken for an invited one.
SignupOverwrites(c) ==
    /\ pc[c] = "check" /\ op[c] \in {"signup", "bare"}
    /\ Goto(c, IF row # NoRow THEN "srp" ELSE "insert")
    /\ UNCHANGED <<row, op, pw, key, held, call>>

\* Signup fills in the row of an invited user; without one, or when its SELECT
\* fails, it inserts.
SignupCheck(c) ==
    /\ pc[c] = "check" /\ op[c] \in {"signup", "bare"}
    /\ \/ row # NoRow /\ row.srp = None /\ Goto(c, "srp")
       \/ Goto(c, "insert")
    /\ UNCHANGED <<row, op, pw, key, held, call>>

\* The email is unique.
SignupInsert(c) ==
    /\ pc[c] = "insert"
    /\ IF row = NoRow
         THEN /\ row' = IF op[c] = "bare" THEN [Empty EXCEPT !.srp = c]
                        ELSE [srp |-> c, pub |-> c, priv |-> [key |-> c, pw |-> c],
                              rec |-> [key |-> c, by |-> c]]
              /\ Goto(c, "ok")
         ELSE Goto(c, "error") /\ UNCHANGED row
    /\ UNCHANGED <<op, pw, key, held, call>>

\* Mutant of SetupCheck: it does not look at what is there.
SetupUnchecked(c) ==
    /\ pc[c] = "check" /\ op[c] = "setup"
    /\ Goto(c, "srp")
    /\ UNCHANGED <<row, op, pw, key, held, call>>

\* SetupEncryption refuses an account that has keys, or that it cannot read.
SetupCheck(c) ==
    /\ pc[c] = "check" /\ op[c] = "setup"
    /\ \/ ~ HasKeys /\ Goto(c, "srp")
       \/ Goto(c, "error")
    /\ UNCHANGED <<row, op, pw, key, held, call>>

\* UploadKeys refuses an account in which it sees keys: when its SELECT fails
\* it sees none.
UploadCheck(c) ==
    /\ pc[c] = "check" /\ op[c] = "login"
    /\ \/ HasKeys /\ Goto(c, "error")
       \/ Goto(c, "keys")
    /\ UNCHANGED <<row, op, pw, key, held, call>>

UpdateSRPCredentials(c) ==
    /\ pc[c] = "srp"
    /\ row' = [row EXCEPT !.srp = c]
    /\ Goto(c, IF op[c] = "bare" THEN "ok" ELSE "keys")
    /\ UNCHANGED <<op, pw, key, held, call>>

\* The keys of an upload or a set-up.  An upload tells its caller the same
\* whether or not there were keys before it: the label is the model's.
UpdateKeys(c) ==
    /\ pc[c] = "keys"
    /\ row' = [row EXCEPT !.pub = c, !.priv = [key |-> c, pw |-> pw[c]]]
    /\ Goto(c, IF op[c] # "login" THEN "rec"
               ELSE IF row.pub = None THEN "ok" ELSE "overwrote")
    /\ UNCHANGED <<op, pw, key, held, call>>

UpdateRecoveryKey(c) ==
    /\ pc[c] = "rec"
    /\ row' = [row EXCEPT !.rec = [key |-> c, by |-> c]]
    /\ Goto(c, "ok")
    /\ UNCHANGED <<op, pw, key, held, call>>

-----------------------------------------------------------------------------
(* Logging in *)

\* A user who knows the password of the moment.  The server keeps the state of
\* the handshake; without a verifier the answer is made up and leads nowhere.
LoginStep1(c) ==
    /\ row # NoRow /\ row.srp # None
    /\ Begin(c, "login", "step2")
    /\ pw' = [pw EXCEPT ![c] = row.srp]
    /\ held' = [held EXCEPT ![c] = row.srp]

\* The proof is checked against the verifier of step 1, the private key comes
\* from the row as it is by now: the password opens it or it does not.  A row
\* that cannot be read is answered like one without keys.
LoginStep2(c) ==
    /\ pc[c] = "step2"
    /\ held' = [held EXCEPT ![c] = None]
    /\ \/ held[c] # pw[c] /\ Goto(c, "error") /\ UNCHANGED key
       \/ held[c] = pw[c] /\ Goto(c, "upload") /\ UNCHANGED key
       \/ /\ held[c] = pw[c] /\ row.priv # None
          /\ IF row.priv.pw = pw[c]
               THEN /\ key' = [key EXCEPT ![c] = row.priv.key]
                    /\ Goto(c, "ok")
               ELSE Goto(c, "locked_out") /\ UNCHANGED key
    /\ UNCHANGED <<row, op, pw, call>>

\* The web client makes up for a key pair that is missing.
SendUploadKeys(c) ==
    /\ pc[c] = "upload" /\ MaySetUp
    /\ Goto(c, "check")
    /\ UNCHANGED <<row, op, pw, key, held, call>>

-----------------------------------------------------------------------------
(* Recovering an account *)

\* GetRecoveryData, for a user with the recovery key of the moment; with any
\* other key the client ends here.
GetRecoveryData(c) ==
    /\ HasKeys /\ row.rec # None
    /\ pc[c] = "start"
    /\ op' = [op EXCEPT ![c] = "recover"]
    /\ Goto(c, "challenge")
    /\ key' = [key EXCEPT ![c] = row.rec.key]
    /\ UNCHANGED <<row, pw, held, call>>

\* A nonce encrypted to the public key, which the client must decrypt.
GetRecoveryChallenge(c) ==
    /\ pc[c] = "challenge"
    /\ IF HasKeys /\ row.rec # None /\ row.pub = key[c]
         THEN /\ held' = [held EXCEPT ![c] = row.pub]
              /\ Goto(c, "recover")
         ELSE Goto(c, "error") /\ UNCHANGED held
    /\ UNCHANGED <<row, op, pw, key, call>>

\* Mutant of Recover: it stores the verifier and leaves the rest.
RecoverCredentials(c) ==
    /\ pc[c] = "recover"
    /\ held' = [held EXCEPT ![c] = None]
    /\ IF held[c] = None
         THEN Goto(c, "error") /\ UNCHANGED row
         ELSE /\ row' = [row EXCEPT !.srp = c]
              /\ Goto(c, "ok")
    /\ UNCHANGED <<op, pw, key, call>>

\* Recover takes the challenge out of the store and writes everything the new
\* password concerns in one statement; the public key stays.
Recover(c) ==
    /\ pc[c] = "recover"
    /\ held' = [held EXCEPT ![c] = None]
    /\ IF held[c] = None
         THEN Goto(c, "error") /\ UNCHANGED row
         ELSE /\ row' = [row EXCEPT !.srp = c, !.priv = [key |-> key[c], pw |-> c],
                                    !.rec = [key |-> key[c], by |-> c]]
              /\ Goto(c, "ok")
    /\ UNCHANGED <<op, pw, key, call>>

-----------------------------------------------------------------------------
(* Failures, and requests that create accounts *)

\* Entries of the stores expire, and a restart of the server loses them all.
Expire(c) ==
    /\ held[c] # None
    /\ held' = [held EXCEPT ![c] = None]
    /\ UNCHANGED <<row, op, pc, pw, key, call>>

\* A request breaks off between two statements; a browser is closed.
Break(c) ==
    /\ pc[c] \notin {"start", "ok", "error", "locked_out", "overwrote", "broken"}
    /\ Goto(c, "broken")
    /\ UNCHANGED <<row, op, pw, key, held, call>>

\* FindOrCreateByEmail, for an SSO callback, an IAP request or an invitation.
GetByEmail(x) ==
    /\ call[x] = "start"
    /\ call' = [call EXCEPT ![x] = IF row = NoRow THEN "create" ELSE "found"]
    /\ UNCHANGED <<row, client>>

\* Create turns the unique violation into ErrEmailExists, which is not the
\* error FindOrCreateByEmail looks for.
Create(x) ==
    /\ call[x] = "create"
    /\ IF row = NoRow
         THEN /\ row' = Empty
              /\ call' = [call EXCEPT ![x] = "created"]
         ELSE /\ call' = [call EXCEPT ![x] = "error"]
              /\ UNCHANGED row
    /\ UNCHANGED client

Init ==
    /\ row = NoRow
    /\ op = [c \in Clients |-> "none"]
    /\ pc = [c \in Clients |-> "start"]
    /\ pw = [c \in Clients |-> c]
    /\ key = [c \in Clients |-> None]
    /\ held = [c \in Clients |-> None]
    /\ call = [x \in Callers |-> "start"]

Next ==
    \/ \E c \in Clients :
         \/ SendSetUp(c) \/ SignupCheck(c) \/ SignupInsert(c) \/ SetupCheck(c)
         \/ UploadCheck(c) \/ UpdateSRPCredentials(c) \/ UpdateKeys(c)
         \/ UpdateRecoveryKey(c) \/ LoginStep1(c) \/ LoginStep2(c)
         \/ SendUploadKeys(c) \/ GetRecoveryData(c) \/ GetRecoveryChallenge(c)
         \/ Recover(c) \/ Expire(c) \/ Break(c)
    \/ \E x \in Callers : GetByEmail(x) \/ Create(x)

Spec == Init /\ [][Next]_vars

-----------------------------------------------------------------------------
(* Properties *)

\* Every variable holds what the row, the stores and the clients may hold.
TypeOK ==
    /\ row \in Row \union {NoRow}
    /\ op \in [Clients -> Ops]
    /\ pc \in [Clients -> PC]
    /\ pw \in [Clients -> Clients]
    /\ key \in [Clients -> Clients \union {None}]
    /\ held \in [Clients -> Clients \union {None}]
    /\ call \in [Callers -> {"start", "create", "created", "found", "error"}]

\* An upload has replaced a key pair: its login was told of none and its guard
\* saw none, as a set-up came in between or a SELECT failed.
Overwritten == \E c \in Clients : pc[c] = "overwrote"

\* The private key, under the password and under the recovery key, belongs to
\* the public key others encrypt vault keys to, whatever breaks off, until an
\* upload replaces a key pair (user_handler.go:39 lets it when it cannot read).
KeyPairMatches ==
    ~ Overwritten /\ row # NoRow =>
        /\ row.priv # None => row.priv.key = row.pub
        /\ row.rec # None => row.rec.key = row.pub

\* Unless a set-up has broken off or an upload has replaced a key pair, whoever
\* can log in can open the private key.
PasswordOpensKey ==
    ~ Overwritten /\ (\A c \in Clients : pc[c] # "broken") =>
        (row # NoRow /\ row.srp # None /\ row.priv # None => row.priv.pw = row.srp)

\* A set-up that has been acknowledged stays: the keys of the account are its
\* keys, and its password opens them until a recovery has set another one, or
\* an upload has replaced the pair.
AcknowledgedIsUsable ==
    ~ Overwritten => \A c \in Clients : pc[c] = "ok" /\ op[c] \in {"signup", "setup"} =>
        /\ row.pub = c
        /\ row.priv = [key |-> c, pw |-> row.srp]
        /\ row.srp = c \/ op[row.srp] = "recover"
        /\ row.rec # None /\ row.rec.by = row.srp

\* The guard of UploadKeys (user_handler.go:36): "never overwrite an existing
\* keypair".  It is refuted: a SELECT that fails passes for an account without.
UploadKeepsKeyPair == ~ Overwritten

\* FindOrCreateByEmail (user_repo.go:24): "a creation lost to a concurrent race
\* reports false": the caller gets the account all the same.
CallersGetTheAccount == \A x \in Callers : call[x] # "error"
=============================================================================

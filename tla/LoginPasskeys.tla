---------------------------- MODULE LoginPasskeys ----------------------------
(***************************************************************************)
(* The passkeys one logs in with: handler/passkey_handler.go over          *)
(* repository/passkey_repo.go, and the authenticators that sign.  A login  *)
(* looks the passkey up, verifies the signature, stores the counter the    *)
(* authenticator sent and issues a session.  Statements of concurrent      *)
(* requests interleave.  A challenge travels in a signed token; it and the *)
(* signature are those of an authenticator, so only the token's age can    *)
(* speak against them.                                                     *)
(***************************************************************************)
EXTENDS Integers

CONSTANTS
  Passkeys,      \* credential ids: no authenticator gives one twice
  Requests, Users,
  challengeTTL,
  MaxTime, MaxCount, \* bounds: of the clock and of the counters
  None

VARIABLES
  now,
  counter,   \* counter[p]: of the authenticator, which a login increments
  row,       \* row[p]: in user_passkeys, or None; one that is gone is deleted
  call       \* call[h]: the request a handler has, or None

vars == <<now, counter, row, call>>

Init ==
  /\ now = 0
  /\ counter = [p \in Passkeys |-> 0]
  /\ row = [p \in Passkeys |-> None]
  /\ call = [h \in Requests |-> None]

Exists(p) == row[p] # None /\ ~row[p].gone
At(h, step) == call[h] # None /\ call[h].step = step
Answered(h) == call' = [call EXCEPT ![h] = None]

\* The authenticator signs a challenge; one that keeps no counter sends 0.
Sign(h) ==
  /\ call[h] = None
  /\ \E p \in Passkeys, at \in 0..now :
       /\ row[p] # None /\ counter[p] < MaxCount
       /\ counter' \in {counter, [counter EXCEPT ![p] = @ + 1]}
       /\ call' = [call EXCEPT ![h] = [step |-> "get", passkey |-> p, issued |-> at, user |-> None,
                                       count |-> IF counter' = counter THEN 0 ELSE counter'[p]]]
  /\ UNCHANGED <<now, row>>

\* Requests with a session: to register a passkey, or to delete one.
SendManage(h) ==
  /\ call[h] = None
  /\ \E step \in {"register", "delete"}, p \in Passkeys, u \in Users :
       /\ step = "delete" => row[p] # None
       /\ step = "register" => row[p] = None /\ ~ \E g \in Requests : call[g] # None /\ call[g].passkey = p
       /\ call' = [call EXCEPT ![h] = [step |-> step, passkey |-> p, issued |-> now, user |-> u, count |-> 0]]
  /\ UNCHANGED <<now, counter, row>>

\* parseChallengeToken, GetByCredentialID and the checks of what it returns.
Get(h) ==
  /\ At(h, "get")
  /\ LET c == call[h]
     IN call' = [call EXCEPT ![h] =
          IF c.issued + challengeTTL <= now \/ ~Exists(c.passkey)
          THEN [c EXCEPT !.step = "refused"]
          ELSE [c EXCEPT !.step = "touch", !.user = row[c.passkey].user,
                         !.count = IF @ > row[c.passkey].signCount THEN @ ELSE row[c.passkey].signCount]]
  /\ UNCHANGED <<now, counter, row>>

\* Mutant of TouchUsed: the row is written back as a whole.
TouchSaves(h) ==
  /\ At(h, "touch")
  /\ call' = [call EXCEPT ![h].step = "issue"]
  /\ row' = [row EXCEPT ![call[h].passkey] = [user |-> call[h].user, signCount |-> call[h].count, gone |-> FALSE]]
  /\ UNCHANGED <<now, counter>>

\* UPDATE ... SET sign_count; whether it works, and on a row at all, is ignored.
TouchUsed(h) ==
  /\ At(h, "touch")
  /\ call' = [call EXCEPT ![h].step = "issue"]
  /\ row' \in {row, IF Exists(call[h].passkey)
                    THEN [row EXCEPT ![call[h].passkey].signCount = call[h].count] ELSE row}
  /\ UNCHANGED <<now, counter>>

Register(h) ==
  /\ At(h, "register") /\ Answered(h)
  /\ row' = [row EXCEPT ![call[h].passkey] = [user |-> call[h].user, signCount |-> 0, gone |-> FALSE]]
  /\ UNCHANGED <<now, counter>>

\* DELETE ... WHERE user_id is the one of the session.
Delete(h) ==
  /\ At(h, "delete") /\ Answered(h)
  /\ LET c == call[h]
     IN row' = IF Exists(c.passkey) /\ row[c.passkey].user = c.user
               THEN [row EXCEPT ![c.passkey].gone = TRUE] ELSE row
  /\ UNCHANGED <<now, counter>>

\* IssueSessionJWT; or the request is refused or breaks off.
Answer(h) ==
  /\ call[h] # None /\ Answered(h)
  /\ UNCHANGED <<now, counter, row>>

Tick ==
  /\ now < MaxTime /\ now' = now + 1
  /\ UNCHANGED <<counter, row, call>>

Next ==
  \/ \E h \in Requests : \/ Sign(h) \/ SendManage(h) \/ Get(h) \/ TouchUsed(h)
                         \/ Register(h) \/ Delete(h) \/ Answer(h)
  \/ Tick

Spec == Init /\ [][Next]_vars

-----------------------------------------------------------------------------
\* A passkey as a credential, and a login as a request that shows it.
LogsIn(h) == call[h] # None /\ call[h].step \in {"get", "touch", "issue", "refused"}
Owner(p) == IF row[p] = None THEN None ELSE row[p].user
Since(p) == IF row[p] = None \/ Exists(p) THEN None ELSE 0
Shown(h) == IF LogsIn(h) THEN call[h].passkey ELSE None
Verdict(h) ==
  IF ~LogsIn(h) \/ call[h].step = "get" THEN None
  ELSE IF call[h].step = "refused" THEN "refused" ELSE call[h].user

\* Passkeys are credentials: a login is let in as the user who registered the
\* passkey, and never after its deletion has been answered, although the
\* counter is stored when the row may be gone.
Abstract == INSTANCE Credential WITH
  Creds <- Passkeys, Times <- {0}, MayExpire <- TRUE,
  owner <- [p \in Passkeys |-> Owner(p)], since <- [p \in Passkeys |-> Since(p)],
  shown <- [h \in Requests |-> Shown(h)], verdict <- [h \in Requests |-> Verdict(h)]
PasskeysAreCredentials == Abstract!Spec

\* "only move ours forward": the counter of a passkey never falls.
CounterMovesForward ==
  [][\A p \in Passkeys : Exists(p) => row'[p].signCount >= row[p].signCount]_vars
==============================================================================

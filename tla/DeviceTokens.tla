---------------------------- MODULE DeviceTokens ----------------------------
(***************************************************************************)
(* The tokens of the mobile apps: handler/device_handler.go and            *)
(* middleware/device.go over repository/device_token_repo.go.  A request to*)
(* the API comes with a session or with a token, which is looked up before *)
(* anything else; it may then create or revoke tokens itself.  Each        *)
(* statement commits on its own, and those of concurrent requests          *)
(* interleave.  Nobody guesses a token, so a hash that differs and an id   *)
(* that is not known are left out.                                         *)
(***************************************************************************)
EXTENDS Naturals

CONSTANTS
  Tokens,    \* tokens in device_tokens; none is generated twice
  Requests, Users,
  MaxTime,   \* bound: the clock stops there
  None

VARIABLES
  now,       \* in steps of deviceTouchInterval
  row,       \* row[d]: its row in device_tokens, or None
  call       \* call[h]: the request a handler has, or None

vars == <<now, row, call>>

Init ==
  /\ now = 0
  /\ row = [d \in Tokens |-> None]
  /\ call = [h \in Requests |-> None]

At(h, step) == call[h] # None /\ call[h].step = step
Go(h, step) == call' = [call EXCEPT ![h].step = step]
Answered(h) == call' = [call EXCEPT ![h] = None]

\* With a session JWTAuth knows the user.  `of` is the token that is asked
\* for, one that will be generated if the request creates it.
Send(h) ==
  /\ call[h] = None
  /\ \E op \in {"create", "revoke", "other"}, d \in Tokens :
       /\ op = "revoke" => row[d] # None
       /\ op = "create" => row[d] = None /\ ~ \E g \in Requests : call[g] # None /\ call[g].of = d
       /\ \/ \E u \in Users :
               call' = [call EXCEPT ![h] = [by |-> None, user |-> u, op |-> op, of |-> d, step |-> "op"]]
          \/ \E t \in Tokens :
               /\ row[t] # None
               /\ call' = [call EXCEPT ![h] = [by |-> t, user |-> None, op |-> op, of |-> d, step |-> "get"]]
  /\ UNCHANGED <<now, row>>

\* DeviceTokenAuth: one SELECT says whose the token is and whether it is revoked.
GetByID(h) ==
  /\ At(h, "get")
  /\ LET r == row[call[h].by]
     IN call' = [call EXCEPT ![h].step = IF r.revoked # None THEN "refused"
                                         ELSE IF r.used = now THEN "op" ELSE "touch",
                             ![h].user = IF r.revoked # None THEN None ELSE r.user]
  /\ UNCHANGED <<now, row>>

\* UPDATE ... SET last_used_at = now(); the request goes on without it, too.
TouchLastUsed(h) ==
  /\ At(h, "touch") /\ Go(h, "op")
  /\ row' \in {row, [row EXCEPT ![call[h].by].used = now]}
  /\ UNCHANGED now

Create(h) ==
  /\ At(h, "op") /\ call[h].op = "create" /\ Answered(h)
  /\ row' = [row EXCEPT ![call[h].of] = [user |-> call[h].user, used |-> None, revoked |-> None]]
  /\ UNCHANGED now

\* Mutant of Revoke: the time of an earlier revocation is overwritten.
RevokeAnew(h) ==
  /\ At(h, "op") /\ call[h].op = "revoke" /\ Answered(h)
  /\ row' = IF row[call[h].of].user = call[h].user
            THEN [row EXCEPT ![call[h].of].revoked = now] ELSE row
  /\ UNCHANGED now

\* revoked_at = COALESCE(revoked_at, now()), for the owner only.
Revoke(h) ==
  /\ At(h, "op") /\ call[h].op = "revoke" /\ Answered(h)
  /\ row' = IF row[call[h].of].user = call[h].user
            THEN [row EXCEPT ![call[h].of].revoked = IF @ = None THEN now ELSE @] ELSE row
  /\ UNCHANGED now

\* Any other request, and the answer to one that is refused or fails.
Answer(h) ==
  /\ call[h] # None /\ Answered(h)
  /\ UNCHANGED <<now, row>>

Tick ==
  /\ now < MaxTime /\ now' = now + 1
  /\ UNCHANGED <<row, call>>

Next ==
  \/ \E h \in Requests :
       Send(h) \/ GetByID(h) \/ TouchLastUsed(h) \/ Create(h) \/ Revoke(h) \/ Answer(h)
  \/ Tick

Spec == Init /\ [][Next]_vars

-----------------------------------------------------------------------------
\* A token as a credential, and a request as one that shows it.
Owner(d) == IF row[d] = None THEN None ELSE row[d].user
Since(d) == IF row[d] = None THEN None ELSE row[d].revoked
Shown(h) == IF call[h] = None THEN None ELSE call[h].by
Verdict(h) ==
  IF call[h] = None \/ Shown(h) = None \/ call[h].step = "get" THEN None
  ELSE IF call[h].step = "refused" THEN "refused" ELSE call[h].user

\* Tokens are credentials: whatever statements of whom interleave, nobody is
\* let in with one whose revocation has been answered, nobody is refused with
\* one that is not revoked, and a revocation keeps its time.
Abstract == INSTANCE Credential WITH
  Creds <- Tokens, Times <- 0..MaxTime, MayExpire <- FALSE,
  owner <- [d \in Tokens |-> Owner(d)], since <- [d \in Tokens |-> Since(d)],
  shown <- [h \in Requests |-> Shown(h)], verdict <- [h \in Requests |-> Verdict(h)]
TokensAreCredentials == Abstract!Spec
=============================================================================

---------------------------- MODULE Credentials ----------------------------
(***************************************************************************)
(* The credentials that need no password, each module of them with state   *)
(* of its own: LoginPasskeys (P), DeviceTokens (D) and the keys of an      *)
(* identity provider, KeyCache (K).  They share the requests and the       *)
(* holders; no step of one is a step of another.                           *)
(***************************************************************************)
EXTENDS Integers

CONSTANTS Holders, \* the users
  Requests, None,
  Passkeys, challengeTTL, MaxPasskeyTime, MaxCount,   \* LoginPasskeys
  Tokens, MaxTokenTime,                               \* DeviceTokens
  Keys, keysTTL, Timeout, Overridden, MaxKeyTime      \* KeyCache

VARIABLES pnow, counter, prow, pcall,
          dnow, drow, dcall,
          know, published, seen, disc, keys, keysAt, req

P == INSTANCE LoginPasskeys WITH
  Users <- Holders, MaxTime <- MaxPasskeyTime, now <- pnow, row <- prow, call <- pcall
D == INSTANCE DeviceTokens WITH
  Users <- Holders, MaxTime <- MaxTokenTime, now <- dnow, row <- drow, call <- dcall
K == INSTANCE KeyCache WITH MaxTime <- MaxKeyTime, now <- know

-----------------------------------------------------------------------------
(* The rows and the requests there may be.  None is none of them, nor any of   *)
(* the values it stands beside, as a model value is not.                       *)

TokenTime == 0..MaxTokenTime \cup {None}
TokenRow == [user : Holders, used : TokenTime, revoked : TokenTime]
TokenCall == [by : Tokens \cup {None}, user : Holders \cup {None},
              op : {"create", "revoke", "other"}, of : Tokens,
              step : {"get", "touch", "op", "refused"}]

TokenConstants ==
  /\ MaxTokenTime \in Nat
  /\ None \notin Tokens /\ None \notin Holders /\ None \notin TokenRow /\ None \notin TokenCall

LoginSteps == {"get", "touch", "issue", "refused"}
PasskeyRow == [user : Holders, signCount : Nat, gone : BOOLEAN]
PasskeyCall == [step : LoginSteps \cup {"register", "delete"}, passkey : Passkeys,
                issued : Nat, user : Holders \cup {None}, count : Nat]

PasskeyConstants ==
  /\ MaxPasskeyTime \in Nat /\ None \notin Passkeys /\ None \notin Holders
  /\ None \notin PasskeyRow /\ None \notin PasskeyCall

Waiting == {"discover", "fetch", "install", "reread"}
KeyRequest == [step : Waiting \cup {"lookup"}, kid : Keys, ok : BOOLEAN, since : Nat,
               got : SUBSET Keys]
KeyVerdict == [step : {"accepted", "stale", "refused"}]

\* A response takes less time than keys stay in the cache: 10 seconds and an
\* hour in the code.
KeyConstants ==
  /\ keysTTL \in Nat /\ Timeout \in Nat /\ Timeout <= keysTTL
  /\ None \notin Nat /\ None \notin KeyRequest /\ None \notin KeyVerdict

ASSUME CredentialsAssumption == TokenConstants /\ PasskeyConstants /\ KeyConstants

-----------------------------------------------------------------------------
\* A login with a passkey is let in as its owner, and not after it was deleted.
PasskeysAreCredentials == P!PasskeysAreCredentials
\* A device token works for its owner until it is revoked, and not after that.
TokensAreCredentials == D!TokensAreCredentials
\* No token of a provider passes with a key that was withdrawn long ago.
AcceptedRecently == K!AcceptedRecently
\* No run lists the last two, since TLC refutes them: the counter of a passkey
\* never falls,
CounterMovesForward == P!CounterMovesForward
\* and a key that is published is found by a request that fetches the keys.
PublishedKeyIsFound == K!PublishedKeyIsFound
=============================================================================

------------------------------ MODULE KeyCache ------------------------------
(***************************************************************************)
(* The keys of an identity provider that sign its tokens, as a server      *)
(* process caches them: getKey and fetchKeys of oidc/client.go, of which   *)
(* iap/validator.go is a copy without discovery.  The requests of a process*)
(* share the cache; each may find it old and fetch the keys anew, and they *)
(* lock it only to read and to replace it.  The provider rotates its keys. *)
(* The rest of a token is valid: issuer, audience, age and nonce are of    *)
(* the token alone and not a matter of the cache.                          *)
(***************************************************************************)
EXTENDS Integers

CONSTANTS
  Keys,        \* the keys of the provider, named by their kid
  Requests,    \* requests that validate a token at the same time
  keysTTL,
  Timeout,     \* of httpc, for the response to the end of its body
  Overridden,  \* whether the environment gives the endpoints
  MaxTime,     \* bound: the clock stops there
  None

VARIABLES
  now,
  published,   \* the keys the provider publishes
  seen,        \* seen[k]: when k was last published, or None
  disc,        \* whether the discovery document is cached
  keys, keysAt,
  req          \* req[h]: the validation in progress, or None

vars == <<now, published, seen, disc, keys, keysAt, req>>

\* keysAt is the zero time, long before now.
Init ==
  /\ now = 0
  /\ published \in SUBSET Keys /\ seen = [k \in Keys |-> IF k \in published THEN 0 ELSE None]
  /\ disc = FALSE /\ keys = {} /\ keysAt = -(keysTTL + 1)
  /\ req = [h \in Requests |-> None]

At(h, step) == req[h] # None /\ req[h].step = step
Ends(h, verdict) == req' = [req EXCEPT ![h] = [step |-> verdict]]
Waits(h) == req[h] # None /\ req[h].step \in {"discover", "fetch", "install", "reread"}

\* A token that some key of the provider has signed.
Arrive(h) ==
  /\ req[h] = None
  /\ \E k \in Keys :
       /\ seen[k] # None
       /\ req' = [req EXCEPT ![h] = [step |-> "lookup", kid |-> k, ok |-> FALSE,
                                     since |-> 0, got |-> {}]]
  /\ UNCHANGED <<now, published, seen, disc, keys, keysAt>>

\* The first lock of getKey.
Lookup(h) ==
  /\ At(h, "lookup")
  /\ LET ok == req[h].kid \in keys
         expired == now - keysAt > keysTTL
     IN IF ok /\ ~expired
        THEN Ends(h, "accepted")
        ELSE req' = [req EXCEPT ![h].ok = ok, ![h].since = now,
                                ![h].step = IF disc \/ Overridden THEN "fetch" ELSE "discover"]
  /\ UNCHANGED <<now, published, seen, disc, keys, keysAt>>

Discover(h) ==
  /\ At(h, "discover")
  /\ disc' = TRUE
  /\ req' = [req EXCEPT ![h].step = "fetch", ![h].since = now]
  /\ UNCHANGED <<now, published, seen, keys, keysAt>>

\* The provider answers with the keys it publishes at that moment.
Fetch(h) ==
  /\ At(h, "fetch")
  /\ req' = [req EXCEPT ![h].step = "install", ![h].got = published]
  /\ UNCHANGED <<now, published, seen, disc, keys, keysAt>>

\* The end of fetchKeys: the map and its time are replaced together.
Install(h) ==
  /\ At(h, "install")
  /\ keys' = req[h].got /\ keysAt' = now
  /\ req' = [req EXCEPT ![h].step = "reread", ![h].got = {}]
  /\ UNCHANGED <<now, published, seen, disc>>

\* The last lock of getKey.
Reread(h) ==
  /\ At(h, "reread")
  /\ Ends(h, IF req[h].kid \in keys THEN "accepted" ELSE "refused")
  /\ UNCHANGED <<now, published, seen, disc, keys, keysAt>>

\* Mutant of Fail: a failure is not followed by another attempt for a while.
FailBacksOff(h) ==
  /\ At(h, "discover") \/ At(h, "fetch") \/ At(h, "install")
  /\ Ends(h, IF req[h].ok THEN "stale" ELSE "refused")
  /\ keysAt' = now
  /\ UNCHANGED <<now, published, seen, disc, keys>>

\* A request fails, times out or is cancelled: a stale key beats a failed fetch.
Fail(h) ==
  /\ At(h, "discover") \/ At(h, "fetch") \/ At(h, "install")
  /\ Ends(h, IF req[h].ok THEN "stale" ELSE "refused")
  /\ UNCHANGED <<now, published, seen, disc, keys, keysAt>>

End(h) ==
  /\ req[h] # None /\ req[h].step \in {"accepted", "stale", "refused"}
  /\ req' = [req EXCEPT ![h] = None]
  /\ UNCHANGED <<now, published, seen, disc, keys, keysAt>>

\* The provider starts to publish a key it never used, or withdraws one.
Rotate ==
  /\ \E k \in Keys :
       \/ seen[k] = None /\ published' = published \cup {k} /\ seen' = [seen EXCEPT ![k] = now]
       \/ k \in published /\ published' = published \ {k} /\ UNCHANGED seen
  /\ UNCHANGED <<now, disc, keys, keysAt, req>>

\* A request to the provider lasts no longer than Timeout.
Tick ==
  /\ now < MaxTime /\ now' = now + 1
  /\ \A h \in Requests : Waits(h) => now - req[h].since < Timeout
  /\ seen' = [k \in Keys |-> IF k \in published THEN now' ELSE seen[k]]
  /\ UNCHANGED <<published, disc, keys, keysAt, req>>

\* The process ends with its cache, and another one takes its place.
Restart ==
  /\ disc' = FALSE /\ keys' = {} /\ keysAt' = -(keysTTL + 1)
  /\ req' = [h \in Requests |-> None]
  /\ UNCHANGED <<now, published, seen>>

Next ==
  \/ \E h \in Requests : \/ Arrive(h) \/ Lookup(h) \/ Discover(h) \/ Fetch(h) \/ Install(h)
                         \/ Reread(h) \/ Fail(h) \/ End(h)
  \/ Rotate \/ Tick \/ Restart

Spec == Init /\ [][Next]_vars

-----------------------------------------------------------------------------
\* A token is accepted with a key the provider published no longer ago than
\* keysTTL and the time a response may take, although responses are installed
\* in any order; with an older one only by a request whose own fetch failed.
AcceptedRecently ==
  [][\A h \in Requests :
       req'[h] # None /\ req'[h].step = "accepted" /\ ~At(h, "accepted")
       => seen[req[h].kid] + keysTTL + Timeout >= now]_vars

\* A token is refused for its kid only if its key was not published while the
\* request asked for it.  An older response that is installed last refutes it.
PublishedKeyIsFound ==
  [][\A h \in Requests : At(h, "reread") /\ req'[h] # None /\ req'[h].step = "refused"
       => req[h].kid \notin published]_vars
=============================================================================

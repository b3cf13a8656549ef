----------------------------- MODULE Credential -----------------------------
(***************************************************************************)
(* What the server promises of a credential, a device token or a passkey:  *)
(* it is issued to one user and withdrawn at most once, for good, and a    *)
(* request that shows it is let in as that user while it is valid, at one  *)
(* moment between its arrival and its answer, and never otherwise.         *)
(***************************************************************************)
CONSTANTS
  Creds, Requests, Users,
  Times,      \* when a credential may be withdrawn
  MayExpire,  \* a request may be refused for its age alone
  None

VARIABLES
  owner,    \* owner[c]: the user it was issued to, or None
  since,    \* since[c]: when it was withdrawn, or None
  shown,    \* shown[r]: the credential a request shows, or None
  verdict   \* verdict[r]: the user it is let in as, "refused", or None

vars == <<owner, since, shown, verdict>>

Init ==
  /\ owner = [c \in Creds |-> None] /\ since = [c \in Creds |-> None]
  /\ shown = [r \in Requests |-> None] /\ verdict = [r \in Requests |-> None]

Valid(c) == owner[c] # None /\ since[c] = None

Issue(c, u) ==
  /\ owner[c] = None /\ owner' = [owner EXCEPT ![c] = u]
  /\ UNCHANGED since

Withdraw(c, t) ==
  /\ Valid(c) /\ since' = [since EXCEPT ![c] = t]
  /\ UNCHANGED owner

Show(r, c) ==
  /\ shown[r] = None /\ owner[c] # None
  /\ shown' = [shown EXCEPT ![r] = c]
  /\ UNCHANGED <<owner, since, verdict>>

Decide(r) ==
  /\ shown[r] # None /\ verdict[r] = None
  /\ \/ Valid(shown[r]) /\ verdict' = [verdict EXCEPT ![r] = owner[shown[r]]]
     \/ (~Valid(shown[r]) \/ MayExpire) /\ verdict' = [verdict EXCEPT ![r] = "refused"]
  /\ UNCHANGED <<owner, since, shown>>

\* Answered, or broken off, which a request may be at any time.
End(r) ==
  /\ shown[r] # None
  /\ shown' = [shown EXCEPT ![r] = None] /\ verdict' = [verdict EXCEPT ![r] = None]

\* A request that was let in may issue or withdraw as its last step.
Next ==
  \/ \E r \in Requests : Decide(r) \/ \E c \in Creds : Show(r, c)
  \/ /\ \/ UNCHANGED <<owner, since>>
        \/ \E c \in Creds : (\E u \in Users : Issue(c, u)) \/ (\E t \in Times : Withdraw(c, t))
     /\ UNCHANGED <<shown, verdict>> \/ \E r \in Requests : End(r)

Spec == Init /\ [][Next]_vars
=============================================================================

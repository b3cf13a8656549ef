---------------------------- MODULE OneTimeSecret ----------------------------
(***************************************************************************)
(* What a share link promises, whatever happens on the way: a secret is    *)
(* offered once, and is then taken by one visitor or withdrawn, for good.  *)
(* An offer that has run out of time can only be withdrawn.                *)
(***************************************************************************)
CONSTANTS Secrets, Visitors, Nobody

VARIABLES
    offer,   \* offer[s]: "new", "open", "closed" (ran out), "taken", "withdrawn"
    taker    \* taker[s]: who has got the secret, or Nobody

vars == <<offer, taker>>

Init ==
    /\ offer = [s \in Secrets |-> "new"]
    /\ taker = [s \in Secrets |-> Nobody]

Offer(s) ==
    /\ offer[s] = "new"
    /\ offer' = [offer EXCEPT ![s] = "open"]
    /\ UNCHANGED taker

Take(s, x) ==
    /\ offer[s] = "open"
    /\ offer' = [offer EXCEPT ![s] = "taken"]
    /\ taker' = [taker EXCEPT ![s] = x]

\* Time passes for every secret at once, and one step may withdraw several.
Close(S) ==
    /\ \A s \in S : offer[s] = "open"
    /\ offer' = [s \in Secrets |-> IF s \in S THEN "closed" ELSE offer[s]]
    /\ UNCHANGED taker

Withdraw(S) ==
    /\ \A s \in S : offer[s] \in {"open", "closed", "taken"}
    /\ offer' = [s \in Secrets |-> IF s \in S THEN "withdrawn" ELSE offer[s]]
    /\ UNCHANGED taker

Next ==
    \/ \E s \in Secrets : Offer(s) \/ \E x \in Visitors : Take(s, x)
    \/ \E S \in SUBSET Secrets : Close(S) \/ Withdraw(S)

Spec == Init /\ [][Next]_vars
=============================================================================

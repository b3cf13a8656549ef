------------------------------- MODULE ItemLog -------------------------------
(***************************************************************************)
(* What the item store promises its clients: every item is an append-only  *)
(* log of authored versions.  Version n is the n-th entry, the current     *)
(* value is the last one, what the history lists is the rest.  Only a user *)
(* with access appends, and only on top of a version it was told.  An item *)
(* that is removed is gone, with its log, for good.                        *)
(***************************************************************************)
EXTENDS Naturals, Sequences

CONSTANTS Users, Items, Data,
          Authors   \* Authors[i]: the users with access to the vault of item i

VARIABLES
    log,   \* log[i]: the versions of item i, oldest first; empty if none
    gone,  \* the items that have been removed
    told   \* told[u][i]: the last version of i user u was told, 0 if none

vars == <<log, gone, told>>

Init ==
    /\ log = [i \in Items |-> << >>]
    /\ gone = {}
    /\ told = [u \in Users |-> [i \in Items |-> 0]]

\* u writes d over the version it was told, which is the current one: the
\* first version of an item lies over version 0.
Write(u, i, d) ==
    /\ i \notin gone
    /\ u \in Authors[i]
    /\ told[u][i] >= Len(log[i])
    /\ log' = [log EXCEPT ![i] =
                 Append(@, [data |-> d, version |-> Len(@) + 1, by |-> u])]
    /\ UNCHANGED <<gone, told>>

Remove(I) ==
    /\ \A i \in I : log[i] # << >>
    /\ log' = [i \in Items |-> IF i \in I THEN << >> ELSE log[i]]
    /\ gone' = gone \union I
    /\ UNCHANGED told

\* u is told, for some items, a version the log has, later than what it knew.
Tell(u) ==
    /\ told' \in [Users -> [Items -> Nat]]
    /\ \A w \in Users \ {u} : told'[w] = told[w]
    /\ \A i \in Items : \/ told'[u][i] = told[u][i]
                        \/ /\ told'[u][i] > told[u][i]
                           /\ told'[u][i] <= Len(log[i]) \/ i \in gone
    /\ UNCHANGED <<log, gone>>

Next ==
    \/ \E u \in Users, i \in Items, d \in Data : Write(u, i, d)
    \/ \E I \in SUBSET Items : Remove(I)
    \/ \E u \in Users : Tell(u)

Spec == Init /\ [][Next]_vars
=============================================================================

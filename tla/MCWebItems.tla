----------------------------- MODULE MCWebItems -----------------------------
(* WebItems on a personal vault p and a team vault t, with an item in each. *)
EXTENDS WebItems, TLC

CONSTANTS p, t, i1, i2, i3

MCHome == (i1 :> t) @@ (i2 :> p) @@ (i3 :> None)
=============================================================================

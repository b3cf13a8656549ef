---------------------------- MODULE MCExtension ----------------------------
(* Extension with the user's own vault, which has an item, and a team's.     *)
EXTENDS Extension, TLC

CONSTANTS own, team, i1, i2

MCHome == [i \in Items |-> IF i = i1 THEN own ELSE None]
=============================================================================

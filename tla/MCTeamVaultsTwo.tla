--------------------------- MODULE MCTeamVaultsTwo ---------------------------
(* TeamVaults with two teams of one owner, who has both of them in a tab.     *)
EXTENDS TeamVaults, TLC

CONSTANTS o, m, t1, t2, v1, p

MCOwnerOf == t1 :> o @@ t2 :> o
MCUserOf == p :> o
=============================================================================

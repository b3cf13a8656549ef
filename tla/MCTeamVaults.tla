---------------------------- MODULE MCTeamVaults ----------------------------
(* TeamVaults with one team: its owner, two more users and a tab of each of   *)
(* the owner and one of them.                                                 *)
EXTENDS TeamVaults, TLC

CONSTANTS o, a, m, t1, v1, p, q

MCOwnerOf == t1 :> o
MCUserOf == p :> o @@ q :> a
=============================================================================

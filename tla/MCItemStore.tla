---------------------------- MODULE MCItemStore ----------------------------
(* ItemStore on two accounts and two vaults: v1 is u1's own, and v2 is       *)
(* shared with u2.  The two handlers serve two devices.                      *)
EXTENDS ItemStore, TLC

CONSTANTS u1, u2, v1, v2

MCAccess == (v1 :> {u1}) @@ (v2 :> {u1, u2})
MCVaultOf == [i \in Items |-> v1]
=============================================================================

------------------------------ MODULE MCTokens ------------------------------
(* What lets somebody in without a password, each part on its own: share links,*)
(* login passkeys, device tokens and the keys of an identity provider.         *)
EXTENDS ShareLinks, Credentials, TLC

CONSTANTS u1, u2, i1, i2, vp, vt

MCVaultOf == i1 :> vp @@ i2 :> vt
MCOwnerOf == vp :> u1 @@ vt :> u1
Symmetry ==
  Permutations(Visitors) \cup Permutations(Requests) \cup Permutations(Tokens) \cup Permutations(Keys)

VARIABLE part

pvars == <<pnow, counter, prow, pcall>>
dvars == <<dnow, drow, dcall>>
kvars == <<know, published, seen, disc, keys, keysAt, req>>

MCInit ==
  /\ part \in {"links", "passkeys", "devices", "keys"}
  /\ Init /\ P!Init /\ D!Init /\ K!Init /\ (part # "keys" => published = {})

MCNext ==
  /\ UNCHANGED part
  /\ \/ part = "links" /\ Next /\ UNCHANGED <<pvars, dvars, kvars>>
     \/ part = "passkeys" /\ P!Next /\ UNCHANGED <<vars, dvars, kvars>>
     \/ part = "devices" /\ D!Next /\ UNCHANGED <<vars, pvars, kvars>>
     \/ part = "keys" /\ K!Next /\ UNCHANGED <<vars, pvars, dvars>>

MCSpec == MCInit /\ [][MCNext]_<<vars, pvars, dvars, kvars, part>>
=============================================================================

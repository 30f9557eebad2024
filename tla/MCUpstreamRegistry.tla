------------------------- MODULE MCUpstreamRegistry -------------------------
(***************************************************************************)
(* UpstreamRegistry for TLC: two connections, which replace each other if  *)
(* they carry the same self id and share the replies without a target if   *)
(* they do not; one reply with a target and one without.                   *)
(***************************************************************************)
EXTENDS UpstreamRegistry

CONSTANTS u1, u2, a, b, toA, toAll

MCConns   == {u1, u2}
MCIds     == {a, b}
MCReplies == {toA, toAll}
MCTo      == [r \in MCReplies |-> IF r = toA THEN a ELSE All]
=============================================================================

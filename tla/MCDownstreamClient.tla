------------------------- MODULE MCDownstreamClient -------------------------
(***************************************************************************)
(* DownstreamClient for TLC: two frames the filter lets through, which can *)
(* meet in one connection, and one it refuses.                             *)
(***************************************************************************)
EXTENDS DownstreamClient

CONSTANTS ok1, ok2, no

MCMsgs    == {ok1, ok2, no}
MCBlocked == {no}
=============================================================================

----------------------------- MODULE MCManager -----------------------------
(***************************************************************************)
(* Manager for TLC.  Two apps, so that one client is stopped while another *)
(* runs; two requests, so that one edits while the other reloads.  Safety  *)
(* is checked with two outward configurations, so that an edit can change  *)
(* the rules of an app only, and an internal one; liveness needs one app   *)
(* and one configuration, and three callers that contend for m.mu.         *)
(***************************************************************************)
EXTENDS Manager, TLC

CONSTANTS a, b, v1, v2, int, here, r1, r2

MCApps     == {a, b}
MCConfigs  == {v1, v2, int}
MCInternal == {int}
MCAddrs    == {here}
MCRequests == {r1, r2}

\* Apps, requests and outward configurations are interchangeable.
Symmetric ==
    Permutations({a, b}) \cup Permutations({r1, r2}) \cup Permutations({v1, v2})

OneApp     == {a}
OneConfig  == {v1}
NoInternal == {}
=============================================================================

----------------------------- MODULE MCEventBus -----------------------------
(***************************************************************************)
(* EventBus for TLC: a client's goroutine and an upstream's handler        *)
(* publish, two pages subscribe.  The ring of two wraps, and a channel of  *)
(* one fills.                                                              *)
(***************************************************************************)
EXTENDS EventBus

CONSTANTS client, handler, page1, page2

MCPublishers  == {client, handler}
MCHandlers    == {handler}
MCSubscribers == {page1, page2}
=============================================================================

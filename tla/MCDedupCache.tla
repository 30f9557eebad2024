---------------------------- MODULE MCDedupCache ----------------------------
(***************************************************************************)
(* DedupCache for TLC: four frames of one group, sender and second.  Two   *)
(* are copies of one message from upstreams that number it differently,    *)
(* one of them without a raw_message but with an equal message; two have   *)
(* no content but an id, which in the first of them reads like the content *)
(* of the copies.                                                          *)
(***************************************************************************)
EXTENDS DedupCache

CONSTANTS one, two, like, voice, hello, id1, id2

MCCalls == {one, two, like, voice}

Frame(raw, message, id) ==
    [post |-> "message", kind |-> "group", group |-> 7, user |-> 8, time |-> 9,
     raw |-> raw, message |-> message, alt |-> Nothing, ids |-> <<id, Nothing>>]

MCProbe ==
    [c \in MCCalls |->
        CASE c = one     -> Frame(hello, hello, id1)
          [] c = two     -> Frame(Nothing, hello, id2)
          [] c = like    -> Frame(Nothing, Nothing, hello)
          [] c = voice   -> Frame(Nothing, Nothing, id1)]
=============================================================================

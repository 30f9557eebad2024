------------------------------ MODULE EventFeed ------------------------------
(***************************************************************************)
(* What the event bus promises: a window on the last Window events in the  *)
(* order of their numbers, and for each subscriber the events published    *)
(* while it is subscribed, each at most once.  An event may be lost, and   *)
(* the order in which a subscriber gets them is not promised.  EventBus    *)
(* implements this.                                                        *)
(***************************************************************************)
EXTENDS Naturals, Sequences

CONSTANTS
    Publishers,
    Subscribers,
    Window        \* how many events are kept

VARIABLES
    recent,       \* the window: the events and their numbers, oldest first
    members,      \* who is subscribed
    mail,         \* for each subscriber, the events that may still reach it
    got           \* for each subscriber, the events it has got

feedVars == <<recent, members, mail, got>>

FeedInit ==
    /\ recent = << >>
    /\ members = {}
    /\ mail = [s \in Subscribers |-> {}]
    /\ got = [s \in Subscribers |-> << >>]

Numbered == IF recent = << >> THEN 1 ELSE recent[Len(recent)].seq + 1

Announce(p) ==
    LET e == [seq |-> Numbered, from |-> p]
    IN  /\ recent' = IF Len(recent) < Window THEN Append(recent, e)
                                             ELSE Append(Tail(recent), e)
        /\ mail' = [s \in Subscribers |-> IF s \in members THEN mail[s] \cup {e} ELSE mail[s]]
        /\ UNCHANGED <<members, got>>

Join(s) ==
    /\ s \notin members
    /\ members' = members \cup {s}
    /\ UNCHANGED <<recent, mail, got>>

Leave(s) ==
    /\ s \in members
    /\ members' = members \ {s}
    /\ mail' = [mail EXCEPT ![s] = {}]
    /\ UNCHANGED <<recent, got>>

Deliver(s) ==
    /\ \E e \in mail[s] :
         /\ mail' = [mail EXCEPT ![s] = @ \ {e}]
         /\ got' = [got EXCEPT ![s] = Append(@, e)]
    /\ UNCHANGED <<recent, members>>

\* One event is lost on the way to one subscriber, or to all it has not reached.
Lose ==
    /\ \E s \in Subscribers : \E e \in mail[s] :
         \/ mail' = [mail EXCEPT ![s] = @ \ {e}]
         \/ \E S \in SUBSET Subscribers :
              mail' = [t \in Subscribers |-> IF t \in S THEN mail[t] \ {e} ELSE mail[t]]
    /\ UNCHANGED <<recent, members, got>>

FeedNext ==
    \/ \E p \in Publishers : Announce(p)
    \/ \E s \in Subscribers : Join(s) \/ Leave(s) \/ Deliver(s)
    \/ Lose

FeedSafety == FeedInit /\ [][FeedNext]_feedVars
=============================================================================

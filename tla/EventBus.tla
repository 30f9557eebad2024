------------------------------ MODULE EventBus ------------------------------
(***************************************************************************)
(* The event bus of internal/filter/events.go with the goroutines that     *)
(* call Publish and the SSE handlers of internal/server/api.go that        *)
(* subscribe.  Publish numbers and stores an event and copies the list of  *)
(* channels under b.mu; it sends to the copies after the unlock, one at a  *)
(* time and without waiting.                                               *)
(*                                                                         *)
(* An event is its number and the goroutine that published it.  A          *)
(* subscriber is one call of Subscribe: ids are never used again.          *)
(***************************************************************************)
EXTENDS Integers, Sequences, FiniteSets

CONSTANTS
    Publishers,   \* the goroutines that publish
    Handlers,     \* those of them that net/http runs, and whose panics it recovers
    Subscribers,  \* the calls of Subscribe while we look
    NoEvent,      \* an entry of b.buf that was never written
    Cap,          \* b.cap, 512 for the manager's bus
    ChanCap,      \* capacity of a subscriber's channel, 64 in the code
    MaxSeq        \* bound: how many events are published while we look

Event == [seq : 1..MaxSeq, from : Publishers]

ASSUME BusAssumption ==
    /\ NoEvent \notin Event
    /\ Handlers \subseteq Publishers
    /\ Cap \in Nat \ {0}
    /\ ChanCap \in Nat \ {0}
    /\ MaxSeq \in Nat

VARIABLES
    buf,      \* b.buf
    head,     \* b.head
    count,    \* b.count
    seq,      \* b.seq
    subs,     \* b.subs: those that have called Subscribe and not unsubscribed
    left,     \* the subscribers whose channel is closed
    chan,     \* what each channel holds
    ev,       \* the event each publisher is sending, NoEvent between two calls
    todo,     \* the channels each publisher has yet to send to
    dead,     \* the publishers whose goroutine a panic has ended
    got       \* history: what each subscriber has received

busVars  == <<buf, head, count, seq>>
pubVars  == <<ev, todo, dead>>
subVars  == <<subs, left>>
vars     == <<busVars, pubVars, subVars, chan, got>>

Slots == 0 .. Cap - 1

\* The types of the variables; the ring never holds more than Cap events.
TypeOK ==
    /\ buf \in [Slots -> Event \cup {NoEvent}]
    /\ head \in Slots
    /\ count \in 0..Cap
    /\ seq \in 0..MaxSeq
    /\ subs \in SUBSET Subscribers
    /\ left \in SUBSET Subscribers
    /\ chan \in [Subscribers -> Seq(Event)]
    /\ \A s \in Subscribers : Len(chan[s]) <= ChanCap
    /\ ev \in [Publishers -> Event \cup {NoEvent}]
    /\ todo \in [Publishers -> SUBSET Subscribers]
    /\ dead \in SUBSET Publishers
    /\ got \in [Subscribers -> Seq(Event)]

Init ==
    /\ buf = [i \in Slots |-> NoEvent]
    /\ head = 0
    /\ count = 0
    /\ seq = 0
    /\ subs = {}
    /\ left = {}
    /\ chan = [s \in Subscribers |-> << >>]
    /\ ev = [p \in Publishers |-> NoEvent]
    /\ todo = [p \in Publishers |-> {}]
    /\ dead = {}
    /\ got = [s \in Subscribers |-> << >>]

\* The panic of a goroutine that nothing recovers ends the process.
Alive == dead \subseteq Handlers

Sending(p) == ev[p] # NoEvent /\ p \notin dead

-----------------------------------------------------------------------------
(* Publish *)

\* Mutant: a full ring keeps its oldest events.
PublishUnlessFull(p) ==
    /\ ev[p] = NoEvent /\ p \notin dead
    /\ seq < MaxSeq
    /\ seq' = seq + 1
    /\ ev' = [ev EXCEPT ![p] = [seq |-> seq + 1, from |-> p]]
    /\ buf' = IF count < Cap THEN [buf EXCEPT ![head] = [seq |-> seq + 1, from |-> p]]
                             ELSE buf
    /\ head' = IF count < Cap THEN (head + 1) % Cap ELSE head
    /\ count' = IF count < Cap THEN count + 1 ELSE count
    /\ todo' = [todo EXCEPT ![p] = subs]
    /\ UNCHANGED <<subVars, chan, dead, got>>

\* Up to the unlock.  Bound: MaxSeq events.
Publish(p) ==
    /\ ev[p] = NoEvent /\ p \notin dead
    /\ seq < MaxSeq
    /\ seq' = seq + 1
    /\ ev' = [ev EXCEPT ![p] = [seq |-> seq + 1, from |-> p]]
    /\ buf' = [buf EXCEPT ![head] = [seq |-> seq + 1, from |-> p]]
    /\ head' = (head + 1) % Cap
    /\ count' = IF count < Cap THEN count + 1 ELSE count
    /\ todo' = [todo EXCEPT ![p] = subs]
    /\ UNCHANGED <<subVars, chan, dead, got>>

\* Mutant: waits for room in the channel (no default case).
SendWaiting(p) ==
    /\ Sending(p)
    /\ \E s \in todo[p] \ left :
         /\ Len(chan[s]) < ChanCap
         /\ chan' = [chan EXCEPT ![s] = Append(@, ev[p])]
         /\ todo' = [todo EXCEPT ![p] = @ \ {s}]
    /\ UNCHANGED <<busVars, subVars, ev, dead, got>>

\* Mutant: a channel that has been sent to is tried again.
SendAgain(p) ==
    /\ Sending(p)
    /\ \E s \in todo[p] \ left :
         /\ chan' = IF Len(chan[s]) < ChanCap
                      THEN [chan EXCEPT ![s] = Append(@, ev[p])] ELSE chan
         /\ \/ todo' = [todo EXCEPT ![p] = @ \ {s}]
            \/ UNCHANGED todo
    /\ UNCHANGED <<busVars, subVars, ev, dead, got>>

\* A full channel loses the event.
Send(p) ==
    /\ Sending(p)
    /\ \E s \in todo[p] \ left :
         /\ chan' = IF Len(chan[s]) < ChanCap
                      THEN [chan EXCEPT ![s] = Append(@, ev[p])] ELSE chan
         /\ todo' = [todo EXCEPT ![p] = @ \ {s}]
    /\ UNCHANGED <<busVars, subVars, ev, dead, got>>

\* A send on a closed channel panics, the default case notwithstanding.
SendPanics(p) ==
    /\ Sending(p)
    /\ todo[p] \cap left # {}
    /\ dead' = dead \cup {p}
    /\ UNCHANGED <<busVars, subVars, chan, ev, todo, got>>

Published(p) ==
    /\ Sending(p) /\ todo[p] = {}
    /\ ev' = [ev EXCEPT ![p] = NoEvent]
    /\ UNCHANGED <<busVars, subVars, chan, todo, dead, got>>

-----------------------------------------------------------------------------
(* Subscribe and the handler of the event stream *)

Subscribe(s) ==
    /\ s \notin subs \cup left
    /\ subs' = subs \cup {s}
    /\ UNCHANGED <<busVars, pubVars, left, chan, got>>

Receive(s) ==
    /\ s \in subs /\ chan[s] # << >>
    /\ got' = [got EXCEPT ![s] = Append(@, Head(chan[s]))]
    /\ chan' = [chan EXCEPT ![s] = Tail(@)]
    /\ UNCHANGED <<busVars, pubVars, subVars>>

\* The page is closed, or a write to it fails.
Unsubscribe(s) ==
    /\ s \in subs
    /\ subs' = subs \ {s}
    /\ left' = left \cup {s}
    /\ UNCHANGED <<busVars, pubVars, chan, got>>

-----------------------------------------------------------------------------
(* Snapshot *)

\* Mutant: takes the ring to begin at head, which is so only when it is full.
SnapshotFromHead(limit) ==
    LET n     == IF limit > 0 /\ limit < count THEN limit ELSE count
        start == head
        skip  == count - n
    IN  [i \in 1..n |-> buf[(start + skip + i - 1) % Cap]]

Snapshot(limit) ==
    LET n     == IF limit > 0 /\ limit < count THEN limit ELSE count
        start == (head - count + Cap) % Cap
        skip  == count - n
    IN  [i \in 1..n |-> buf[(start + skip + i - 1) % Cap]]

-----------------------------------------------------------------------------

Next ==
    /\ Alive
    /\ \/ \E p \in Publishers : Publish(p) \/ Send(p) \/ SendPanics(p) \/ Published(p)
       \/ \E s \in Subscribers : Subscribe(s) \/ Receive(s) \/ Unsubscribe(s)

Safety == Init /\ [][Next]_vars

\* A goroutine inside Publish is scheduled.  No handler need ever receive.
Fairness ==
    \A p \in Publishers : WF_vars(Alive /\ (Send(p) \/ SendPanics(p) \/ Published(p)))

Spec == Safety /\ Fairness

-----------------------------------------------------------------------------
(* Properties *)

\* n is the least of a set of numbers.
Least(n, S) == n \in S /\ \A m \in S : n <= m

\* Whatever the limit, Snapshot returns the events with the last numbers, in
\* order and without a gap, before and after the ring has wrapped: as many as were
\* published, as the ring holds and as the limit, if it is one, allows.
SnapshotIsTail ==
    \A limit \in 0 .. Cap + 1 :
        LET out == Snapshot(limit)
        IN  /\ Least(Len(out), {seq, Cap} \cup ({limit} \ {0}))
            /\ \A i \in 1..Len(out) :
                    out[i] \in Event /\ out[i].seq = seq - Len(out) + i

\* A subscriber gets no event twice, and gets the events of one goroutine in the
\* order in which that published them, though those of two may be swapped.
FeedSound ==
    \A s \in Subscribers : \A i, j \in 1..Len(got[s]) :
        i < j => /\ got[s][i] # got[s][j]
                 /\ got[s][i].from = got[s][j].from => got[s][i].seq < got[s][j].seq

\* The bus as its users see it.
OnTheWay(s) ==
    IF s \notin subs THEN {}
    ELSE {chan[s][i] : i \in 1..Len(chan[s])}
         \cup {ev[p] : p \in {q \in Publishers : Sending(q) /\ s \in todo[q]}}

Feed == INSTANCE EventFeed
          WITH Window <- Cap, recent <- Snapshot(0), members <- subs,
               mail <- [s \in Subscribers |-> OnTheWay(s)]

FeedSafety == Feed!FeedSafety

\* Publish returns though no subscriber reads, unless a panic ends its goroutine.
PublishReturns ==
    \A p \in Publishers : Sending(p) ~> ev[p] = NoEvent \/ p \in dead \/ ~Alive

\* A page that stays open is sent every event published while it was subscribed, or
\* has no room for it: when a publisher has ended, no open page is left to send to.
SubscribersServed ==
    Alive => \A p \in Publishers : ~Sending(p) => todo[p] \cap subs = {}
=============================================================================

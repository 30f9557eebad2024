--------------------------- MODULE EventBusProofs ---------------------------
(***************************************************************************)
(* The safety of EventBus, and that it implements EventFeed, for every     *)
(* number of publishers and subscribers and every capacity of the ring and *)
(* of the channels.  RingInv says what each slot of the ring holds;        *)
(* OrderInv, what is in the channel of a subscriber and on its way to it.  *)
(***************************************************************************)
EXTENDS EventBus, TLAPS

-----------------------------------------------------------------------------
(* Arithmetic and sequences *)

\* An index that runs over the end of the ring at most once.
LEMMA ModWrap ==
    ASSUME NEW C \in Nat \ {0}, NEW x \in 0 .. (2 * C - 1)
    PROVE  x % C = IF x < C THEN x ELSE x - C
OBVIOUS

\* Tail and Append keep a channel a channel.
LEMMA SeqFacts ==
    ASSUME NEW q \in Seq(Event)
    PROVE  /\ Len(q) \in Nat
           /\ \A i \in 1..Len(q) : q[i] \in Event
           /\ \A e \in Event :
                /\ Append(q, e) \in Seq(Event)
                /\ Len(Append(q, e)) = Len(q) + 1
                /\ \A i \in 1..Len(q) : Append(q, e)[i] = q[i]
                /\ Append(q, e)[Len(q) + 1] = e
           /\ q # << >> =>
                /\ Len(q) >= 1 /\ Head(q) = q[1] /\ Head(q) \in Event
                /\ Tail(q) \in Seq(Event)
                /\ Len(Tail(q)) = Len(q) - 1
                /\ \A i \in 1..Len(Tail(q)) : Tail(q)[i] = q[i + 1]
OBVIOUS

-----------------------------------------------------------------------------
(* Types *)

\* An empty bus has the types.
LEMMA TypeInit == Init => TypeOK
<1> SUFFICES ASSUME Init PROVE TypeOK
    OBVIOUS
<1>1. /\ chan \in [Subscribers -> Seq(Event)] /\ got \in [Subscribers -> Seq(Event)]
      /\ \A s \in Subscribers : Len(chan[s]) <= ChanCap
  BY BusAssumption DEF Init
<1> QED BY <1>1, BusAssumption DEF Init, TypeOK, Slots

\* Publish makes an event of the next number; a full channel takes none.
LEMMA TypeStep == TypeOK /\ [Next]_vars => TypeOK'
<1> SUFFICES ASSUME TypeOK, [Next]_vars PROVE TypeOK'
    OBVIOUS
<1> USE BusAssumption DEF busVars, pubVars, subVars
<1>1. ASSUME NEW p \in Publishers, Publish(p) PROVE TypeOK'
  <2>1. [seq |-> seq + 1, from |-> p] \in Event /\ seq + 1 \in 0..MaxSeq
    BY <1>1 DEF Publish, TypeOK, Event
  <2>2. (head + 1) % Cap \in Slots
    BY ModWrap DEF TypeOK, Slots
  <2>3. (IF count < Cap THEN count + 1 ELSE count) \in 0..Cap
    BY DEF TypeOK
  <2> QED BY <1>1, <2>1, <2>2, <2>3 DEF Publish, TypeOK
<1>2. ASSUME NEW p \in Publishers, Send(p) PROVE TypeOK'
  <2>1. PICK s \in todo[p] \ left :
           /\ chan' = IF Len(chan[s]) < ChanCap
                        THEN [chan EXCEPT ![s] = Append(@, ev[p])] ELSE chan
           /\ todo' = [todo EXCEPT ![p] = @ \ {s}]
           /\ UNCHANGED <<busVars, subVars, ev, dead, got>>
    BY <1>2 DEF Send
  <2>2. s \in Subscribers /\ ev[p] \in Event /\ chan[s] \in Seq(Event)
    BY <1>2 DEF TypeOK, Send, Sending
  <2>3. /\ chan' \in [Subscribers -> Seq(Event)]
        /\ \A t \in Subscribers : Len(chan'[t]) <= ChanCap
    BY <2>1, <2>2, SeqFacts DEF TypeOK
  <2> QED BY <2>1, <2>3 DEF TypeOK
<1>3. ASSUME NEW p \in Publishers, SendPanics(p) \/ Published(p) PROVE TypeOK'
  BY <1>3 DEF SendPanics, Published, TypeOK
<1>4. ASSUME NEW s \in Subscribers, Subscribe(s) \/ Unsubscribe(s) PROVE TypeOK'
  BY <1>4 DEF Subscribe, Unsubscribe, TypeOK
<1>5. ASSUME NEW s \in Subscribers, Receive(s) PROVE TypeOK'
  <2>1. /\ chan[s] \in Seq(Event) /\ got[s] \in Seq(Event) /\ chan[s] # << >>
        /\ Len(chan[s]) <= ChanCap
    BY <1>5 DEF Receive, TypeOK
  <2>2. /\ Append(got[s], Head(chan[s])) \in Seq(Event)
        /\ Tail(chan[s]) \in Seq(Event) /\ Len(Tail(chan[s])) <= ChanCap
    BY <2>1, SeqFacts
  <2> QED BY <1>5, <2>2 DEF Receive, TypeOK
<1>6. CASE UNCHANGED vars
  BY <1>6 DEF vars, TypeOK
<1> QED BY <1>1, <1>2, <1>3, <1>4, <1>5, <1>6 DEF Next

\* The types are kept, for every number of goroutines and pages.
THEOREM TypeCorrect == Safety => []TypeOK
BY TypeInit, TypeStep, PTL DEF Safety

-----------------------------------------------------------------------------
(* The ring *)

\* Where the event is that was published j-th last.
Slot(j) == IF j <= head THEN head - j ELSE head - j + Cap

\* The ring holds the last events, all of them until it is full.
RingInv ==
    /\ count = IF seq < Cap THEN seq ELSE Cap
    /\ \A j \in 1..count : buf[Slot(j)] \in Event /\ buf[Slot(j)].seq = seq - j + 1

\* Publish overwrites the oldest slot; the other events get one older.
LEMMA PublishSlots ==
    ASSUME TypeOK, NEW p \in Publishers, Publish(p)
    PROVE  /\ buf'[Slot(1)'] = [seq |-> seq + 1, from |-> p]
           /\ \A j \in 2..Cap : buf'[Slot(j)'] = buf[Slot(j - 1)]
           /\ [seq |-> seq + 1, from |-> p] \in Event
<1> USE BusAssumption
<1> DEFINE e == [seq |-> seq + 1, from |-> p]
           x == head + 1
<1>1. /\ seq < MaxSeq /\ buf' = [buf EXCEPT ![head] = e] /\ head' = x % Cap
  BY DEF Publish
<1>t. /\ Cap \in Nat \ {0} /\ head \in 0..(Cap - 1) /\ seq \in Nat
      /\ buf \in [0..(Cap - 1) -> Event \cup {NoEvent}]
  BY DEF TypeOK, Slots
<1>2. head' = IF head + 1 < Cap THEN head + 1 ELSE 0
  <2>1. x \in 0..(2 * Cap - 1)
    BY <1>t
  <2> HIDE DEF x
  <2>2. x % Cap = IF x < Cap THEN x ELSE x - Cap
    BY <1>t, <2>1, ModWrap
  <2> QED BY <1>1, <1>t, <2>2 DEF x
<1>3. e \in Event
  BY <1>1, <1>t DEF Event
<1>4. Slot(1)' = head
  BY <1>2, <1>t DEF Slot
<1>5. ASSUME NEW j \in 2..Cap PROVE buf'[Slot(j)'] = buf[Slot(j - 1)]
  <2>1. Slot(j)' = Slot(j - 1) /\ Slot(j - 1) # head /\ Slot(j - 1) \in 0..(Cap - 1)
    BY <1>2, <1>t DEF Slot
  <2> QED BY <1>1, <1>t, <2>1
<1> QED BY <1>1, <1>3, <1>4, <1>5, <1>t

\* Publish puts its event where the ring needs it, and nothing else touches the ring.
LEMMA RingStep == TypeOK /\ RingInv /\ [Next]_vars => RingInv'
<1> SUFFICES ASSUME TypeOK, RingInv, [Next]_vars PROVE RingInv'
    OBVIOUS
<1> USE BusAssumption
<1>1. CASE UNCHANGED busVars
  BY <1>1 DEF RingInv, Slot, busVars
<1>2. ASSUME NEW p \in Publishers, Publish(p) PROVE RingInv'
  <2>1. seq' = seq + 1 /\ count' = IF count < Cap THEN count + 1 ELSE count
    BY <1>2 DEF Publish
  <2>t. Cap \in Nat \ {0} /\ count \in 0..Cap /\ seq \in Nat
    BY DEF TypeOK
  <2>2. count' = IF seq' < Cap THEN seq' ELSE Cap
    BY <2>1, <2>t DEF RingInv
  <2>3. ASSUME NEW j \in 1..count'
        PROVE  buf'[Slot(j)'] \in Event /\ buf'[Slot(j)'].seq = seq' - j + 1
    <3>1. CASE j = 1
      <4>1. buf'[Slot(1)'] = [seq |-> seq + 1, from |-> p] /\ buf'[Slot(1)'] \in Event
        BY <1>2, PublishSlots
      <4>2. Slot(j)' = Slot(1)'
        BY <3>1
      <4> QED BY <2>1, <2>t, <3>1, <4>1, <4>2
    <3>2. CASE j # 1
      <4>1. j - 1 \in 1..count /\ j \in 2..Cap
        BY <2>1, <2>t, <3>2
      <4>2. buf'[Slot(j)'] = buf[Slot(j - 1)]
        BY <1>2, <4>1, PublishSlots
      <4> QED BY <2>1, <2>t, <4>1, <4>2 DEF RingInv
    <3> QED BY <3>1, <3>2
  <2> QED BY <2>2, <2>3 DEF RingInv
<1>3. UNCHANGED busVars \/ \E p \in Publishers : Publish(p)
  BY DEF Next, Send, SendPanics, Published, Subscribe, Unsubscribe, Receive, vars
<1> QED BY <1>1, <1>2, <1>3

\* The ring is right in every reachable state.
LEMMA RingCorrect == Safety => [](TypeOK /\ RingInv)
<1>1. Init => RingInv
  BY BusAssumption DEF Init, RingInv
<1> QED BY <1>1, TypeInit, TypeStep, RingStep, PTL DEF Safety

\* Snapshot reads the events from the oldest of the last n on.
LEMMA SnapshotSlots ==
    ASSUME TypeOK, NEW limit \in Nat,
           NEW n, n = IF limit > 0 /\ limit < count THEN limit ELSE count
    PROVE  /\ Snapshot(limit) = [i \in 1..n |-> buf[Slot(n - i + 1)]]
           /\ n \in 0..count
<1> USE BusAssumption
<1>t. Cap \in Nat \ {0} /\ head \in 0..(Cap - 1) /\ count \in 0..Cap
  BY DEF TypeOK, Slots
<1>1. n \in 0..count
  BY <1>t
<1>2. ASSUME NEW i \in 1..n
      PROVE  (((head - count + Cap) % Cap) + (count - n) + i - 1) % Cap = Slot(n - i + 1)
  <2> DEFINE start == (head - count + Cap) % Cap
  <2>1. start = IF count <= head THEN head - count ELSE head - count + Cap
    <3>1. head - count + Cap \in 0..(2 * Cap - 1)
      BY <1>t
    <3>2. start = IF head - count + Cap < Cap THEN head - count + Cap
                  ELSE head - count + Cap - Cap
      BY <1>t, <3>1, ModWrap
    <3> QED BY <1>t, <3>2
  <2> HIDE DEF start
  <2> DEFINE x == start + (count - n) + i - 1
  <2>2. x \in 0..(2 * Cap - 1)
    BY <1>t, <1>1, <2>1
  <2> HIDE DEF x
  <2>3. x % Cap = IF x < Cap THEN x ELSE x - Cap
    BY <1>t, <2>2, ModWrap
  <2>4. (IF x < Cap THEN x ELSE x - Cap) = Slot(n - i + 1)
    BY <1>t, <1>1, <2>1 DEF Slot, x
  <2> QED BY <2>3, <2>4 DEF x, start
<1> QED BY <1>1, <1>2 DEF Snapshot

\* Whatever its limit, Snapshot has the last events in order, however often the ring
\* has wrapped.
THEOREM SnapshotCorrect == Safety => []SnapshotIsTail
<1>1. ASSUME TypeOK, RingInv, NEW limit \in 0 .. Cap + 1, NEW i \in 1..Len(Snapshot(limit))
      PROVE  /\ Snapshot(limit)[i] \in Event
             /\ Snapshot(limit)[i].seq = seq - Len(Snapshot(limit)) + i
  <2> DEFINE n == IF limit > 0 /\ limit < count THEN limit ELSE count
  <2>1. limit \in Nat /\ count \in Nat /\ seq \in Nat
    BY <1>1, BusAssumption DEF TypeOK
  <2>0. n = IF limit > 0 /\ limit < count THEN limit ELSE count
    OBVIOUS
  <2> HIDE DEF n
  <2>2. Snapshot(limit) = [j \in 1..n |-> buf[Slot(n - j + 1)]] /\ n \in 0..count
    <3>1. TypeOK /\ limit \in Nat
      BY <1>1, <2>1
    <3> QED BY ONLY <2>0, <3>1, SnapshotSlots
  <2>3. Len(Snapshot(limit)) = n
    BY <2>1, <2>2
  <2>4. i \in 1..n /\ n - i + 1 \in 1..count
    BY <1>1, <2>1, <2>2, <2>3
  <2>5. Snapshot(limit)[i] = buf[Slot(n - i + 1)]
    BY <2>2, <2>4
  <2>6. /\ buf[Slot(n - i + 1)] \in Event
        /\ buf[Slot(n - i + 1)].seq = seq - (n - i + 1) + 1
    BY <1>1, <2>4 DEF RingInv
  <2>7. seq - (n - i + 1) + 1 = seq - n + i
    BY <2>1, <2>2, <2>4
  <2> QED BY <2>3, <2>5, <2>6, <2>7
<1>3. ASSUME TypeOK, RingInv, NEW limit \in 0 .. Cap + 1
      PROVE  Least(Len(Snapshot(limit)), {seq, Cap} \cup ({limit} \ {0}))
  <2> DEFINE n == IF limit > 0 /\ limit < count THEN limit ELSE count
  <2>1. limit \in Nat /\ count \in Nat /\ seq \in Nat /\ Cap \in Nat
    BY <1>3, BusAssumption DEF TypeOK
  <2>0. n = IF limit > 0 /\ limit < count THEN limit ELSE count
    OBVIOUS
  <2> HIDE DEF n
  <2>2. Snapshot(limit) = [j \in 1..n |-> buf[Slot(n - j + 1)]] /\ n \in 0..count
    <3>1. TypeOK /\ limit \in Nat
      BY <1>3, <2>1
    <3> QED BY ONLY <2>0, <3>1, SnapshotSlots
  <2>3. Len(Snapshot(limit)) = n
    BY <2>1, <2>2
  <2>4. count = IF seq < Cap THEN seq ELSE Cap
    BY <1>3 DEF RingInv
  <2>5. Least(n, {seq, Cap} \cup ({limit} \ {0}))
    BY <2>0, <2>1, <2>4 DEF Least
  <2> QED BY <2>3, <2>5
<1>2. TypeOK /\ RingInv => SnapshotIsTail
  BY <1>1, <1>3 DEF SnapshotIsTail
<1> QED BY <1>2, RingCorrect, PTL

-----------------------------------------------------------------------------
(* The channels *)

\* A publisher sends its own last event; who never subscribed is sent nothing.
SendInv ==
    /\ \A p \in Publishers : ev[p] # NoEvent => ev[p].from = p /\ ev[p].seq <= seq
    /\ \A s \in Subscribers : s \notin subs \cup left =>
          chan[s] = << >> /\ \A p \in Publishers : s \notin todo[p]

\* What a subscriber has got and what waits in its channel.
History(s) == got[s] \o chan[s]

Before(a, b) == a.from = b.from => a.seq < b.seq

\* The history of a subscriber is in the order of each publisher, and what a publisher
\* has yet to send is later than all that it sent.
OrderInv ==
    \A s \in Subscribers : \A i \in 1..Len(History(s)) :
        /\ History(s)[i].seq <= seq
        /\ \A j \in 1..Len(History(s)) : i < j => Before(History(s)[i], History(s)[j])
        /\ \A p \in Publishers :
              ev[p] # NoEvent /\ s \in todo[p] => Before(History(s)[i], ev[p])

\* A concatenation, element by element; Receive does not change a history, and a
\* successful Send appends to it.
LEMMA HistoryFacts ==
    ASSUME NEW g \in Seq(Event), NEW c \in Seq(Event)
    PROVE  /\ g \o c \in Seq(Event) /\ Len(g \o c) = Len(g) + Len(c)
           /\ \A i \in 1..Len(g) : (g \o c)[i] = g[i]
           /\ \A i \in 1..Len(c) : (g \o c)[Len(g) + i] = c[i]
           /\ c # << >> => Append(g, Head(c)) \o Tail(c) = g \o c
           /\ \A e \in Event : g \o Append(c, e) = Append(g \o c, e)
<1>1. /\ g \o c \in Seq(Event) /\ Len(g \o c) = Len(g) + Len(c)
      /\ \A i \in 1..Len(g) : (g \o c)[i] = g[i]
      /\ \A i \in 1..Len(c) : (g \o c)[Len(g) + i] = c[i]
  OBVIOUS
<1>2. ASSUME c # << >> PROVE Append(g, Head(c)) \o Tail(c) = g \o c
  BY <1>2
<1>3. ASSUME NEW e \in Event PROVE g \o Append(c, e) = Append(g \o c, e)
  OBVIOUS
<1> QED BY <1>1, <1>2, <1>3

\* What has been received is where it was in the history.
LEMMA Prefix ==
    ASSUME NEW g \in Seq(Event), NEW c \in Seq(Event), NEW i \in 1..Len(g)
    PROVE  i \in 1..Len(g \o c) /\ (g \o c)[i] = g[i]
<1>1. Len(g) \in Nat /\ Len(c) \in Nat
  OBVIOUS
<1>2. Len(g \o c) = Len(g) + Len(c)
  OBVIOUS
<1>3. i \in 1..Len(g \o c)
  <2> DEFINE n == Len(g)
             k == Len(c)
  <2>1. n \in Nat /\ k \in Nat /\ i \in 1..n
    BY <1>1
  <2> HIDE DEF n, k
  <2>2. i \in 1..(n + k)
    BY <2>1
  <2> QED BY <1>2, <2>2 DEF n, k
<1>4. (g \o c)[i] = g[i]
  OBVIOUS
<1> QED BY <1>3, <1>4

\* Every step keeps what publishers send their own, and to subscribers only.
LEMMA SendStep == TypeOK /\ SendInv /\ [Next]_vars => SendInv'
<1> SUFFICES ASSUME TypeOK, SendInv, [Next]_vars PROVE SendInv'
    OBVIOUS
<1> USE BusAssumption DEF SendInv, busVars, pubVars, subVars
<1>t. /\ ev \in [Publishers -> Event \cup {NoEvent}] /\ todo \in [Publishers -> SUBSET Subscribers]
      /\ chan \in [Subscribers -> Seq(Event)] /\ seq \in Nat
  BY DEF TypeOK
<1>e. \A e \in Event : e.seq \in Nat
  BY DEF Event
<1>1. ASSUME NEW p \in Publishers, Publish(p) PROVE SendInv'
  BY <1>1, <1>t, <1>e DEF Publish
<1>2. ASSUME NEW p \in Publishers, Send(p) PROVE SendInv'
  BY <1>2, <1>t DEF Send
<1>3. ASSUME NEW p \in Publishers, SendPanics(p) \/ Published(p) PROVE SendInv'
  BY <1>3, <1>t DEF SendPanics, Published
<1>4. ASSUME NEW s \in Subscribers, Subscribe(s) \/ Unsubscribe(s) \/ Receive(s) PROVE SendInv'
  BY <1>4, <1>t DEF Subscribe, Unsubscribe, Receive
<1>5. CASE UNCHANGED vars
  BY <1>5 DEF vars
<1> QED BY <1>1, <1>2, <1>3, <1>4, <1>5 DEF Next

\* Every step keeps the order of each publisher, in the channels and beyond.
LEMMA OrderStep == TypeOK /\ SendInv /\ OrderInv /\ [Next]_vars => OrderInv'
<1> SUFFICES ASSUME TypeOK, SendInv, OrderInv, [Next]_vars PROVE OrderInv'
    OBVIOUS
<1> USE BusAssumption DEF busVars, pubVars, subVars
<1>t. /\ ev \in [Publishers -> Event \cup {NoEvent}] /\ todo \in [Publishers -> SUBSET Subscribers]
      /\ seq \in Nat
      /\ \A s \in Subscribers : chan[s] \in Seq(Event) /\ got[s] \in Seq(Event)
      /\ chan \in [Subscribers -> Seq(Event)] /\ got \in [Subscribers -> Seq(Event)]
  BY DEF TypeOK
<1>e. \A e \in Event : e.seq \in Nat
  BY DEF Event
<1>h. \A s \in Subscribers : /\ History(s) \in Seq(Event) /\ Len(History(s)) \in Nat
                             /\ \A i \in 1..Len(History(s)) : History(s)[i] \in Event
  BY <1>t, HistoryFacts, SeqFacts DEF History
<1>1. ASSUME NEW p \in Publishers, Publish(p) PROVE OrderInv'
  <2>1. /\ \A s \in Subscribers : History(s)' = History(s)
        /\ seq' = seq + 1 /\ ev' = [ev EXCEPT ![p] = [seq |-> seq + 1, from |-> p]]
        /\ \A q \in Publishers \ {p} : todo'[q] = todo[q]
    BY <1>1, <1>t DEF Publish, History
  <2>2. ASSUME NEW s \in Subscribers, NEW i \in 1..Len(History(s))
        PROVE  /\ History(s)[i].seq \in Nat /\ History(s)[i].seq <= seq
               /\ \A j \in 1..Len(History(s)) : i < j => Before(History(s)[i], History(s)[j])
    BY <1>e, <1>h DEF OrderInv
  <2>3. ASSUME NEW s \in Subscribers, NEW i \in 1..Len(History(s)), NEW q \in Publishers,
               ev'[q] # NoEvent, s \in todo'[q]
        PROVE  Before(History(s)[i], ev'[q])
    <3>1. CASE q = p
      <4>1. ev'[q].seq = seq + 1
        BY <2>1, <1>t, <3>1
      <4> QED BY <2>2, <1>t, <4>1 DEF Before
    <3>2. CASE q # p
      BY <2>1, <2>3, <1>t, <3>2 DEF OrderInv
    <3> QED BY <3>1, <3>2
  <2> QED BY <2>1, <2>2, <2>3, <1>t DEF OrderInv
<1>2. ASSUME NEW p \in Publishers, Send(p) PROVE OrderInv'
  <2>1. PICK t \in todo[p] \ left :
           /\ chan' = IF Len(chan[t]) < ChanCap
                        THEN [chan EXCEPT ![t] = Append(@, ev[p])] ELSE chan
           /\ todo' = [todo EXCEPT ![p] = @ \ {t}]
           /\ UNCHANGED <<seq, ev, got>>
    BY <1>2 DEF Send
  <2>2. t \in Subscribers /\ ev[p] \in Event /\ ev[p] # NoEvent
    BY <1>2, <1>t DEF Send, Sending
  <2>3. History(t)' = History(t) \/ History(t)' = Append(History(t), ev[p])
    BY <2>1, <2>2, <1>t, HistoryFacts DEF History
  <2>4. \A s \in Subscribers \ {t} : History(s)' = History(s)
    BY <2>1, <2>2, <1>t DEF History
  <2>5. \A s \in Subscribers, q \in Publishers :
           s \in todo'[q] => s \in todo[q] /\ ~(q = p /\ s = t)
    BY <2>1, <1>t
  <2>6. ASSUME NEW s \in Subscribers, NEW i \in 1..Len(History(s)')
        PROVE  /\ History(s)'[i].seq <= seq'
               /\ \A j \in 1..Len(History(s)') : i < j => Before(History(s)'[i], History(s)'[j])
               /\ \A q \in Publishers :
                     ev'[q] # NoEvent /\ s \in todo'[q] => Before(History(s)'[i], ev'[q])
    <3>1. CASE History(s)' = History(s)
      BY <2>1, <2>5, <3>1 DEF OrderInv
    <3>2. CASE s = t /\ History(t)' = Append(History(t), ev[p])
      <4> DEFINE h == History(t)
      <4>1. /\ h \in Seq(Event) /\ Len(h) \in Nat
            /\ Len(Append(h, ev[p])) = Len(h) + 1 /\ Append(h, ev[p])[Len(h) + 1] = ev[p]
            /\ \A k \in 1..Len(h) : Append(h, ev[p])[k] = h[k]
        BY <1>h, <2>2, SeqFacts
      <4>2. \A k \in 1..Len(h) : h[k].seq <= seq /\ Before(h[k], ev[p])
        BY <2>1, <2>2, <3>2 DEF OrderInv
      <4>3. ev[p].seq <= seq /\ ev[p].from = p
        BY <2>2 DEF SendInv
      <4>4. CASE i = Len(h) + 1
        <5>1. History(s)'[i] = ev[p]
          BY <3>2, <4>1, <4>4
        <5>2. \A q \in Publishers : ev'[q] # NoEvent /\ s \in todo'[q] => Before(ev[p], ev'[q])
          BY <2>1, <2>5, <3>2, <4>3 DEF SendInv, Before
        <5>3. ~\E j \in 1..Len(History(s)') : i < j
          BY <3>2, <4>1, <4>4
        <5> QED BY <2>1, <4>3, <5>1, <5>2, <5>3
      <4>5. CASE i \in 1..Len(h)
        <5>1. History(s)'[i] = h[i]
          BY <3>2, <4>1, <4>5
        <5>2. \A q \in Publishers : ev'[q] # NoEvent /\ s \in todo'[q] => Before(h[i], ev'[q])
          BY <2>1, <2>5, <3>2, <4>5 DEF OrderInv
        <5>3. ASSUME NEW j \in 1..Len(History(s)'), i < j PROVE Before(h[i], History(s)'[j])
          <6>1. CASE j \in 1..Len(h)
            BY <3>2, <4>1, <4>5, <5>3, <6>1, <2>2 DEF OrderInv
          <6>2. CASE j = Len(h) + 1
            BY <3>2, <4>1, <4>2, <4>5, <6>2
          <6> QED BY <3>2, <4>1, <6>1, <6>2
        <5> QED BY <2>1, <4>2, <4>5, <5>1, <5>2, <5>3
      <4> QED BY <3>2, <4>1, <4>4, <4>5
    <3> QED BY <2>3, <2>4, <3>1, <3>2
  <2> QED BY <2>6 DEF OrderInv
<1>3. ASSUME NEW p \in Publishers, SendPanics(p) \/ Published(p) PROVE OrderInv'
  <2>1. /\ \A s \in Subscribers : History(s)' = History(s)
        /\ \A q \in Publishers : ev'[q] = ev[q] \/ ev'[q] = NoEvent
        /\ UNCHANGED <<seq, todo>>
    BY <1>3, <1>t DEF SendPanics, Published, History
  <2> QED BY <2>1 DEF OrderInv
<1>4. ASSUME NEW s \in Subscribers, Subscribe(s) \/ Unsubscribe(s) PROVE OrderInv'
  BY <1>4 DEF Subscribe, Unsubscribe, OrderInv, History
<1>5. ASSUME NEW s \in Subscribers, Receive(s) PROVE OrderInv'
  <2>1. /\ chan[s] # << >>
        /\ got' = [got EXCEPT ![s] = Append(@, Head(chan[s]))]
        /\ chan' = [chan EXCEPT ![s] = Tail(@)]
        /\ UNCHANGED <<seq, ev, todo>>
    BY <1>5 DEF Receive
  <2>2. History(s)' = History(s)
    BY <2>1, <1>t, HistoryFacts DEF History
  <2>3. \A t \in Subscribers : History(t)' = History(t)
    BY <2>1, <2>2, <1>t DEF History
  <2> QED BY <2>1, <2>3 DEF OrderInv
<1>6. CASE UNCHANGED vars
  BY <1>6 DEF vars, OrderInv, History
<1> QED BY <1>1, <1>2, <1>3, <1>4, <1>5, <1>6 DEF Next

BusInv == TypeOK /\ RingInv /\ SendInv /\ OrderInv

\* The invariant holds of a bus without events and subscribers.
LEMMA BusInit == Init => BusInv
<1> SUFFICES ASSUME Init PROVE BusInv
    OBVIOUS
<1>1. RingInv /\ SendInv
  BY BusAssumption DEF Init, RingInv, SendInv
<1>2. ASSUME NEW s \in Subscribers PROVE Len(History(s)) = 0
  BY DEF Init, History
<1> QED BY <1>1, <1>2, TypeInit DEF BusInv, OrderInv

\* The invariant holds of every reachable state.
LEMMA BusCorrect == Safety => []BusInv
<1>1. BusInv /\ [Next]_vars => BusInv'
  BY TypeStep, RingStep, SendStep, OrderStep DEF BusInv
<1> QED BY <1>1, BusInit, PTL DEF Safety

\* No page gets an event twice, or the events of one goroutine out of order.
THEOREM FeedCorrect == Safety => []FeedSound
<1>1. ASSUME BusInv, NEW s \in Subscribers, NEW i \in 1..Len(got[s]), NEW j \in 1..Len(got[s]),
             i < j
      PROVE  /\ got[s][i] # got[s][j]
             /\ got[s][i].from = got[s][j].from => got[s][i].seq < got[s][j].seq
  <2>1. got[s] \in Seq(Event) /\ chan[s] \in Seq(Event)
    BY <1>1 DEF BusInv, TypeOK
  <2>2. /\ History(s)[i] = got[s][i] /\ i \in 1..Len(History(s))
        /\ History(s)[j] = got[s][j] /\ j \in 1..Len(History(s))
    BY <1>1, <2>1, Prefix DEF History
  <2>0. got[s][i] \in Event
    BY <2>1
  <2>3. Before(got[s][i], got[s][j])
    BY <1>1, <2>2 DEF BusInv, OrderInv
  <2>4. got[s][i].seq \in Nat
    BY <2>0, BusAssumption DEF Event
  <2> QED BY <2>3, <2>4 DEF Before
<1>2. BusInv => FeedSound
  BY <1>1 DEF FeedSound
<1> QED BY <1>2, BusCorrect, PTL

-----------------------------------------------------------------------------
(* EventBus implements EventFeed *)

Elems(q) == {q[i] : i \in 1..Len(q)}

\* The events that publishers have yet to send to a subscriber.
Coming(s) == {ev[p] : p \in {q \in Publishers : Sending(q) /\ s \in todo[q]}}

mailbox == [s \in Subscribers |-> OnTheWay(s)]

\* The window as a function of the slots.
WindowIs == Snapshot(0) = [i \in 1..count |-> buf[Slot(count - i + 1)]]

\* Slot, for any head.
At(h, j) == IF j <= h THEN h - j ELSE h - j + Cap

\* The abstract window is made of the ring's slots.
LEMMA WindowSlots == TypeOK => WindowIs
<1> SUFFICES ASSUME TypeOK PROVE WindowIs
    OBVIOUS
<1> DEFINE n == IF 0 > 0 /\ 0 < count THEN 0 ELSE count
<1>1. n = count
  OBVIOUS
<1>2. Snapshot(0) = [i \in 1..n |-> buf[Slot(n - i + 1)]]
  BY SnapshotSlots
<1> QED BY <1>1, <1>2 DEF WindowIs

\* So it is after a step.
LEMMA WindowSlotsNext == TypeOK' => WindowIs'
BY WindowSlots, PTL

\* What a sequence holds after an event is added to it or taken from it.
LEMMA ElemsFacts ==
    ASSUME NEW q \in Seq(Event)
    PROVE  /\ \A e \in Event : Elems(Append(q, e)) = Elems(q) \cup {e}
           /\ q # << >> => /\ Head(q) \in Elems(q)
                          /\ Elems(q) = Elems(Tail(q)) \cup {Head(q)}
<1>1. ASSUME NEW e \in Event PROVE Elems(Append(q, e)) = Elems(q) \cup {e}
  <2> DEFINE r == Append(q, e)
  <2>1. /\ Len(q) \in Nat /\ Len(r) = Len(q) + 1 /\ r[Len(q) + 1] = e
        /\ \A i \in 1..Len(q) : r[i] = q[i]
    BY SeqFacts
  <2> HIDE DEF r
  <2>2. {r[i] : i \in 1..(Len(q) + 1)} = {r[i] : i \in 1..Len(q)} \cup {r[Len(q) + 1]}
    BY <2>1
  <2> QED BY <2>1, <2>2 DEF Elems, r
<1>2. ASSUME q # << >>
      PROVE  Head(q) \in Elems(q) /\ Elems(q) = Elems(Tail(q)) \cup {Head(q)}
  <2> DEFINE r == Tail(q)
  <2>1. /\ Len(q) \in Nat /\ Len(r) \in Nat /\ Len(q) = Len(r) + 1 /\ Head(q) = q[1]
        /\ \A i \in 1..Len(r) : r[i] = q[i + 1]
    BY <1>2, SeqFacts
  <2> HIDE DEF r
  <2>2. {q[i] : i \in 1..(Len(r) + 1)} = {q[i + 1] : i \in 1..Len(r)} \cup {q[1]}
    <3>1. ASSUME NEW i \in 1..(Len(r) + 1), i # 1
          PROVE  \E j \in 1..Len(r) : i = j + 1
      <4>1. i - 1 \in 1..Len(r) /\ i = (i - 1) + 1
        BY <2>1, <3>1
      <4> QED BY <4>1
    <3>2. \A j \in 1..Len(r) : j + 1 \in 1..(Len(r) + 1)
      BY <2>1
    <3> QED BY <3>1, <3>2, <2>1
  <2>3. 1 \in 1..Len(q)
    BY <2>1
  <2> QED BY <2>1, <2>2, <2>3 DEF Elems, r
<1> QED BY <1>1, <1>2

\* An event that is still to be sent to a subscriber is not in its channel, and none
\* is in its channel twice.
LEMMA Apart ==
    ASSUME BusInv, NEW s \in Subscribers
    PROVE  /\ \A p \in Publishers : ev[p] # NoEvent /\ s \in todo[p] => ev[p] \notin Elems(chan[s])
           /\ chan[s] # << >> => Head(chan[s]) \notin Elems(Tail(chan[s]))
<1> DEFINE g == got[s]
           c == chan[s]
           n == Len(g)
<1>1. g \in Seq(Event) /\ c \in Seq(Event) /\ n \in Nat /\ Len(c) \in Nat
  BY DEF BusInv, TypeOK
<1>2. /\ Len(History(s)) = n + Len(c)
      /\ \A i \in 1..Len(c) : History(s)[n + i] = c[i]
  BY <1>1, HistoryFacts DEF History
<1>e. \A e \in Event : e.seq \in Nat
  BY BusAssumption DEF Event
<1>3. \A i \in 1..Len(c) : n + i \in 1..Len(History(s)) /\ c[i] \in Event
  <2> HIDE DEF n
  <2>1. \A i \in 1..Len(c) : n + i \in 1..(n + Len(c))
    BY <1>1
  <2> QED BY <1>1, <1>2, <2>1, SeqFacts
<1>4. ASSUME NEW p \in Publishers, ev[p] # NoEvent, s \in todo[p], NEW i \in 1..Len(c)
      PROVE  ev[p] # c[i]
  <2>1. Before(c[i], ev[p])
    BY <1>2, <1>3, <1>4 DEF BusInv, OrderInv
  <2> QED BY <2>1, <1>3, <1>e DEF Before
<1>5. ASSUME c # << >>, NEW i \in 1..Len(Tail(c)) PROVE Head(c) # Tail(c)[i]
  <2>1. /\ Len(Tail(c)) \in Nat /\ Len(c) = Len(Tail(c)) + 1 /\ Head(c) = c[1] /\ Tail(c)[i] = c[i + 1]
    BY <1>1, <1>5, SeqFacts
  <2>2. 1 \in 1..Len(c) /\ i + 1 \in 1..Len(c) /\ n + 1 < n + (i + 1)
    BY <2>1, <1>1
  <2>3. Before(c[1], c[i + 1])
    BY <1>2, <1>3, <2>2 DEF BusInv, OrderInv
  <2> QED BY <2>1, <2>2, <2>3, <1>3, <1>e DEF Before
<1> QED BY <1>4, <1>5 DEF Elems

\* The window moves as EventFeed says.
LEMMA WindowMoves ==
    ASSUME BusInv, BusInv', NEW p \in Publishers, Publish(p)
    PROVE  LET e == [seq |-> Feed!Numbered, from |-> p]
           IN  /\ e = [seq |-> seq + 1, from |-> p]
               /\ Snapshot(0)' = IF Len(Snapshot(0)) < Cap THEN Append(Snapshot(0), e)
                                 ELSE Append(Tail(Snapshot(0)), e)
<1> USE BusAssumption
<1> DEFINE q == Snapshot(0)
           r == Snapshot(0)'
           e == [seq |-> seq + 1, from |-> p]
<1>1. TypeOK /\ RingInv /\ TypeOK' /\ RingInv'
  BY DEF BusInv
<1>t. /\ Cap \in Nat \ {0} /\ count \in 0..Cap /\ count \in Nat /\ seq \in Nat
      /\ count' = IF count < Cap THEN count + 1 ELSE count
      /\ count' \in Nat
  BY <1>1 DEF TypeOK, Publish
<1>2. q = [i \in 1..count |-> buf[Slot(count - i + 1)]]
  BY <1>1, WindowSlots DEF WindowIs
<1>3. r = [i \in 1..count' |-> buf'[At(head', count' - i + 1)]]
  BY <1>1, WindowSlotsNext DEF WindowIs, Slot, At
<1>4. \A i \in 1..count : count - i + 1 \in 1..count
  BY <1>t
<1>5. q \in Seq(Event) /\ Len(q) = count
  <2>1. \A i \in 1..count : buf[Slot(count - i + 1)] \in Event
    BY <1>1, <1>4 DEF RingInv
  <2> QED BY <1>2, <1>t, <2>1
<1>6. /\ buf'[At(head', 1)] = e /\ e \in Event
      /\ \A j \in 2..Cap : buf'[At(head', j)] = buf[Slot(j - 1)]
  <2>1. \A j : Slot(j)' = At(head', j)
    BY DEF Slot, At
  <2> QED BY <1>1, <2>1, PublishSlots
<1> HIDE DEF q, r, e
<1>7. Feed!Numbered = seq + 1
  <2>1. CASE count = 0
    <3>1. q = << >> /\ seq = 0
      BY <2>1, <1>5, <1>1, <1>t DEF RingInv
    <3> QED BY <3>1 DEF Feed!Numbered, q
  <2>2. CASE count # 0
    <3>1. count \in 1..count /\ q # << >> /\ count - count + 1 = 1 /\ 1 \in 1..count
      BY <2>2, <1>5, <1>t
    <3>2. q[count] = buf[Slot(1)]
      BY <1>2, <3>1
    <3>3. q[count].seq = seq - 1 + 1
      BY <3>1, <3>2, <1>1 DEF RingInv
    <3> QED BY <3>1, <3>3, <1>5, <1>t DEF Feed!Numbered, q
  <2> QED BY <2>1, <2>2
<1>8. CASE count < Cap
  <2>1. r = [i \in 1..(count + 1) |-> buf'[At(head', count + 1 - i + 1)]]
    BY <1>3, <1>t, <1>8
  <2>2. ASSUME NEW i \in 1..count PROVE buf'[At(head', count + 1 - i + 1)] = q[i]
    <3>1. count + 1 - i + 1 \in 2..Cap /\ (count + 1 - i + 1) - 1 = count - i + 1
      BY <1>t, <1>8
    <3>2. buf'[At(head', count + 1 - i + 1)] = buf[Slot((count + 1 - i + 1) - 1)]
      BY <3>1, <1>6
    <3> QED BY <1>2, <3>1, <3>2
  <2>3. buf'[At(head', count + 1 - (count + 1) + 1)] = e
    <3>1. count + 1 - (count + 1) + 1 = 1
      BY <1>t
    <3> QED BY <3>1, <1>6
  <2>4. r = Append(q, e)
    <3>2. ASSUME NEW i \in 1..(count + 1)
          PROVE  buf'[At(head', count + 1 - i + 1)] = IF i = count + 1 THEN e ELSE q[i]
      <4>1. CASE i = count + 1
        BY <2>3, <4>1
      <4>2. CASE i # count + 1
        <5>1. i \in 1..count
          BY <1>t, <4>2
        <5> QED BY <2>2, <4>2, <5>1
      <4> QED BY <4>1, <4>2
    <3>1. r = [i \in 1..(count + 1) |-> IF i = count + 1 THEN e ELSE q[i]]
      BY <2>1, <3>2
    <3> QED BY <3>1, <1>5, <1>6, <1>t
  <2> QED BY <2>4, <1>5, <1>7, <1>8 DEF q, r, e
<1>9. CASE ~(count < Cap)
  <2>0. count = Cap /\ count' = Cap
    BY <1>9, <1>t
  <2>1. r = [i \in 1..Cap |-> buf'[At(head', Cap - i + 1)]]
    BY <1>3, <2>0
  <2>2. ASSUME NEW i \in 1..(Cap - 1) PROVE buf'[At(head', Cap - i + 1)] = q[i + 1]
    <3>1. Cap - i + 1 \in 2..Cap /\ (Cap - i + 1) - 1 = Cap - (i + 1) + 1 /\ i + 1 \in 1..Cap
      BY <1>t
    <3>2. buf'[At(head', Cap - i + 1)] = buf[Slot((Cap - i + 1) - 1)]
      BY <3>1, <1>6
    <3> QED BY <1>2, <2>0, <3>1, <3>2
  <2>3. buf'[At(head', Cap - Cap + 1)] = e
    <3>1. Cap - Cap + 1 = 1
      BY <1>t
    <3> QED BY <3>1, <1>6
  <2>4. r = Append(Tail(q), e)
    <3>1. r = [i \in 1..Cap |-> IF i = Cap THEN e ELSE q[i + 1]]
      <4>1. ASSUME NEW i \in 1..Cap
            PROVE  buf'[At(head', Cap - i + 1)] = IF i = Cap THEN e ELSE q[i + 1]
        <5>1. CASE i = Cap
          BY <2>3, <5>1
        <5>2. CASE i # Cap
          <6>1. i \in 1..(Cap - 1)
            BY <5>2, <1>t
          <6> QED BY <2>2, <5>2, <6>1
        <5> QED BY <5>1, <5>2
      <4> QED BY <2>1, <4>1
    <3>2. q # << >> /\ Tail(q) \in Seq(Event) /\ Len(Tail(q)) = Cap - 1
      BY <1>5, <1>t, <2>0, SeqFacts
    <3>3. \A i \in 1..(Cap - 1) : Tail(q)[i] = q[i + 1]
      BY <1>5, <3>2, SeqFacts
    <3> QED BY <3>1, <3>2, <3>3, <1>6, <1>t
  <2> QED BY <2>4, <2>0, <1>5, <1>7, <1>9 DEF q, r, e
<1> QED BY <1>8, <1>9

\* What may still reach a subscriber, in the words of EventFeed.
MailIs ==
    mailbox = [s \in Subscribers |->
                 IF s \notin subs THEN {} ELSE Elems(chan[s]) \cup Coming(s)]

\* The abstract mailbox is what a channel holds and what is on the way to it.
LEMMA MailSlots == MailIs
BY DEF MailIs, mailbox, OnTheWay, Elems, Coming

\* So it is after a step.
LEMMA MailSlotsNext == MailIs'
BY MailSlots, PTL

\* A publisher sends to a subscriber whose channel is not closed, so to one that is
\* still subscribed.
LEMMA SentToMembers ==
    ASSUME BusInv, NEW p \in Publishers, NEW s \in todo[p] \ left, ev[p] # NoEvent
    PROVE  s \in subs /\ s \in Subscribers /\ ev[p] \in Event /\ chan[s] \in Seq(Event)
BY DEF BusInv, TypeOK, SendInv

\* An empty bus is an empty feed.
LEMMA FeedInitial == Init => Feed!FeedInit
<1> SUFFICES ASSUME Init PROVE Feed!FeedInit
    OBVIOUS
<1>1. TypeOK /\ count = 0 /\ subs = {}
  BY TypeInit DEF Init
<1>2. Snapshot(0) = << >>
  BY <1>1, WindowSlots DEF WindowIs
<1>3. [s \in Subscribers |-> OnTheWay(s)] = [s \in Subscribers |-> {}]
  BY <1>1 DEF OnTheWay
<1> QED BY <1>2, <1>3 DEF Init, Feed!FeedInit

\* The ring is what the window is made of.
LEMMA WindowStays == UNCHANGED busVars => Snapshot(0)' = Snapshot(0)
BY DEF busVars, Snapshot

\* Every step of the bus is a step of the feed or changes nothing that its users see:
\* a successful send only moves an event on its way.
LEMMA FeedStep ==
    BusInv /\ BusInv' /\ [Next]_vars => [Feed!FeedNext]_(Feed!feedVars)
<1> SUFFICES ASSUME BusInv, BusInv', [Next]_vars
             PROVE  Feed!FeedNext \/ UNCHANGED Feed!feedVars
    OBVIOUS
<1> USE DEF busVars, pubVars, subVars
<1>t. /\ ev \in [Publishers -> Event \cup {NoEvent}] /\ todo \in [Publishers -> SUBSET Subscribers]
      /\ chan \in [Subscribers -> Seq(Event)] /\ subs \subseteq Subscribers
  BY DEF BusInv, TypeOK
<1>m. mailbox = [s \in Subscribers |->
                   IF s \notin subs THEN {} ELSE Elems(chan[s]) \cup Coming(s)]
  BY MailSlots DEF MailIs
<1>n. mailbox' = [s \in Subscribers |->
                    IF s \notin subs' THEN {} ELSE Elems(chan'[s]) \cup Coming(s)']
  BY MailSlotsNext DEF MailIs, Elems
<1>1. ASSUME NEW p \in Publishers, Publish(p) PROVE Feed!Announce(p)
  <2> DEFINE e == [seq |-> seq + 1, from |-> p]
  <2>1. /\ Feed!Numbered = seq + 1
        /\ Snapshot(0)' = IF Len(Snapshot(0)) < Cap THEN Append(Snapshot(0), e)
                          ELSE Append(Tail(Snapshot(0)), e)
    BY <1>1, WindowMoves
  <2>2. /\ subs' = subs /\ got' = got /\ chan' = chan /\ dead' = dead
        /\ ev[p] = NoEvent /\ p \notin dead
        /\ ev' = [ev EXCEPT ![p] = e] /\ todo' = [todo EXCEPT ![p] = subs]
    BY <1>1 DEF Publish
  <2>3. e # NoEvent
    BY <1>1, PublishSlots, BusAssumption DEF BusInv
  <2>4. ASSUME NEW s \in subs PROVE Coming(s)' = Coming(s) \cup {e}
    <3>1. ASSUME NEW q \in Publishers, q # p
          PROVE  ev'[q] = ev[q] /\ (Sending(q)' <=> Sending(q)) /\ (s \in todo'[q] <=> s \in todo[q])
      BY <2>2, <1>t, <3>1 DEF Sending
    <3>2. ~Sending(p) /\ Sending(p)' /\ ev'[p] = e /\ s \in todo'[p]
      BY <2>2, <2>3, <1>t DEF Sending
    <3> HIDE DEF e
    <3> QED BY <3>1, <3>2 DEF Coming
  <2>5. mailbox' = [s \in Subscribers |-> IF s \in subs THEN mailbox[s] \cup {e} ELSE mailbox[s]]
    <3> HIDE DEF e
    <3> QED BY <1>m, <1>n, <1>t, <2>2, <2>4
  <2> QED BY <2>1, <2>2, <2>5 DEF Feed!Announce, mailbox
<1>2. ASSUME NEW p \in Publishers, Send(p) PROVE Feed!FeedNext \/ UNCHANGED Feed!feedVars
  <2>1. PICK s \in todo[p] \ left :
           /\ chan' = IF Len(chan[s]) < ChanCap
                        THEN [chan EXCEPT ![s] = Append(@, ev[p])] ELSE chan
           /\ todo' = [todo EXCEPT ![p] = @ \ {s}]
           /\ UNCHANGED <<busVars, subs, ev, dead, got>>
    BY <1>2 DEF Send
  <2>2. Sending(p) /\ ev[p] # NoEvent
    BY <1>2 DEF Send, Sending
  <2>3. s \in subs /\ s \in Subscribers /\ ev[p] \in Event /\ chan[s] \in Seq(Event)
    BY <2>2, SentToMembers
  <2>4. Snapshot(0)' = Snapshot(0)
    BY <2>1, WindowStays
  <2>5. \A t \in Subscribers \ {s} : Coming(t)' = Coming(t)
    BY <2>1, <1>t DEF Coming, Sending
  <2>6. Coming(s) = Coming(s)' \cup {ev[p]} /\ ev[p] \notin Coming(s)'
    <3>1. \A q \in Publishers : ev[q] # NoEvent => ev[q].from = q
      BY DEF BusInv, SendInv
    <3>2. \A q \in Publishers : (Sending(q)' <=> Sending(q)) /\ ev'[q] = ev[q]
      BY <2>1 DEF Sending
    <3>3. \A q \in Publishers : s \in todo'[q] <=> (s \in todo[q] /\ q # p)
      BY <2>1, <1>t
    <3>4. \A q \in Publishers : Sending(q) => ev[q] # NoEvent
      BY DEF Sending
    <3>5. \A q \in Publishers : Sending(q) /\ q # p => ev[q] # ev[p]
      BY <3>1, <3>4, <2>2
    <3> QED BY <3>2, <3>3, <3>5, <2>2 DEF Coming
  <2>7. CASE Len(chan[s]) < ChanCap
    <3>1. chan' = [chan EXCEPT ![s] = Append(@, ev[p])]
      BY <2>1, <2>7
    <3>2. Elems(chan'[s]) = Elems(chan[s]) \cup {ev[p]}
      BY <3>1, <2>3, <1>t, ElemsFacts
    <3>3. mailbox' = mailbox
      <4>1. ASSUME NEW t \in Subscribers
            PROVE  Elems(chan'[t]) \cup Coming(t)' = Elems(chan[t]) \cup Coming(t)
        <5>1. CASE t = s
          BY <2>6, <3>2, <5>1
        <5>2. CASE t # s
          BY <2>5, <3>1, <1>t, <5>2
        <5> QED BY <5>1, <5>2
      <4> QED BY <1>m, <1>n, <2>1, <4>1
    <3> QED BY <2>1, <2>4, <3>3 DEF Feed!feedVars, mailbox
  <2>8. CASE ~(Len(chan[s]) < ChanCap)
    <3>1. chan' = chan
      BY <2>1, <2>8
    <3>2. ev[p] \notin Elems(chan[s]) /\ s \in todo[p]
      BY <2>2, <2>3, Apart
    <3>3. mailbox' = [mailbox EXCEPT ![s] = @ \ {ev[p]}] /\ ev[p] \in mailbox[s]
      <4>1. /\ mailbox[s] = Elems(chan[s]) \cup Coming(s)
            /\ mailbox'[s] = Elems(chan[s]) \cup Coming(s)'
        BY <1>m, <1>n, <2>1, <2>3, <3>1
      <4>2. ev[p] \in mailbox[s] /\ mailbox'[s] = mailbox[s] \ {ev[p]}
        BY <2>6, <3>2, <4>1
      <4>3. \A t \in Subscribers \ {s} : mailbox'[t] = mailbox[t]
        BY <1>m, <1>n, <2>1, <2>5, <3>1
      <4>4. \A t \in Subscribers : mailbox'[t] = IF t = s THEN mailbox[s] \ {ev[p]} ELSE mailbox[t]
        BY <4>2, <4>3
      <4>5. /\ mailbox = [t \in Subscribers |-> mailbox[t]]
            /\ mailbox' = [t \in Subscribers |-> mailbox'[t]]
        BY <1>m, <1>n
      <4> QED BY ONLY <4>2, <4>4, <4>5
    <3>4. Feed!Lose
      BY <2>1, <2>3, <2>4, <3>3 DEF Feed!Lose, mailbox
    <3> QED BY <3>4 DEF Feed!FeedNext
  <2> QED BY <2>7, <2>8
<1>3. ASSUME NEW p \in Publishers, SendPanics(p) PROVE Feed!FeedNext \/ UNCHANGED Feed!feedVars
  <2>1. /\ Sending(p) /\ dead' = dead \cup {p}
        /\ UNCHANGED <<busVars, subs, chan, ev, todo, got>>
    BY <1>3 DEF SendPanics
  <2>2. Snapshot(0)' = Snapshot(0)
    BY <2>1, WindowStays
  <2>3. ev[p] # NoEvent /\ \A q \in Publishers : Sending(q)' <=> (Sending(q) /\ q # p)
    BY <2>1 DEF Sending
  <2>4. \A q \in Publishers : Sending(q) /\ q # p => ev[q] # ev[p]
    BY <2>3 DEF BusInv, SendInv, Sending
  <2>5. \A s \in Subscribers :
           IF s \in todo[p] THEN Coming(s)' = Coming(s) \ {ev[p]} /\ ev[p] \in Coming(s)
                            ELSE Coming(s)' = Coming(s)
    BY <2>1, <2>3, <2>4 DEF Coming
  <2>6. \A s \in Subscribers : s \in todo[p] => ev[p] \notin Elems(chan[s])
    BY <2>3, Apart
  <2> DEFINE S == todo[p] \cap subs
  <2>7. mailbox' = [s \in Subscribers |-> IF s \in S THEN mailbox[s] \ {ev[p]} ELSE mailbox[s]]
    BY <1>m, <1>n, <2>1, <2>5, <2>6
  <2>8. CASE S = {}
    <3>1. mailbox' = mailbox
      BY <2>7, <2>8, <1>m
    <3> QED BY <2>1, <2>2, <3>1 DEF Feed!feedVars, mailbox
  <2>9. CASE S # {}
    <3>1. PICK s \in S : TRUE
      BY <2>9
    <3>2. s \in Subscribers /\ ev[p] \in mailbox[s] /\ S \in SUBSET Subscribers
      BY <1>m, <1>t, <2>5, <3>1
    <3>3. Feed!Lose
      <4>1. UNCHANGED <<Snapshot(0), subs, got>>
        BY <2>1, <2>2
      <4>2. \E t \in Subscribers : \E e \in mailbox[t] :
               \/ mailbox' = [mailbox EXCEPT ![t] = @ \ {e}]
               \/ \E T \in SUBSET Subscribers :
                     mailbox' = [u \in Subscribers |->
                                    IF u \in T THEN mailbox[u] \ {e} ELSE mailbox[u]]
        <5> HIDE DEF S
        <5> QED BY <2>7, <3>2
      <4> QED BY <4>1, <4>2 DEF Feed!Lose, mailbox
    <3> QED BY <3>3 DEF Feed!FeedNext
  <2> QED BY <2>8, <2>9
<1>4. ASSUME NEW p \in Publishers, Published(p) PROVE UNCHANGED Feed!feedVars
  <2>1. /\ todo[p] = {} /\ ev' = [ev EXCEPT ![p] = NoEvent]
        /\ UNCHANGED <<busVars, subs, chan, todo, dead, got>>
    BY <1>4 DEF Published
  <2>2. \A s \in Subscribers : Coming(s)' = Coming(s)
    BY <2>1, <1>t DEF Coming, Sending
  <2>3. mailbox' = mailbox
    BY <1>m, <1>n, <2>1, <2>2
  <2> QED BY <2>1, <2>3, WindowStays DEF Feed!feedVars, mailbox
<1>5. ASSUME NEW s \in Subscribers, Subscribe(s) PROVE Feed!Join(s)
  <2>1. /\ s \notin subs /\ s \notin left /\ subs' = subs \cup {s}
        /\ UNCHANGED <<busVars, pubVars, chan, got>>
    BY <1>5 DEF Subscribe
  <2>2. \A t \in Subscribers : Coming(t)' = Coming(t)
    BY <2>1 DEF Coming, Sending
  <2>3. chan[s] = << >> /\ \A p \in Publishers : s \notin todo[p]
    BY <2>1 DEF BusInv, SendInv
  <2>4. Elems(chan[s]) = {} /\ Coming(s) = {}
    BY <2>3 DEF Elems, Coming
  <2>5. mailbox' = mailbox
    BY <1>m, <1>n, <2>1, <2>2, <2>4
  <2> QED BY <2>1, <2>5, WindowStays DEF Feed!Join, mailbox
<1>6. ASSUME NEW s \in Subscribers, Unsubscribe(s) PROVE Feed!Leave(s)
  <2>1. /\ s \in subs /\ subs' = subs \ {s}
        /\ UNCHANGED <<busVars, pubVars, chan, got>>
    BY <1>6 DEF Unsubscribe
  <2>2. \A t \in Subscribers : Coming(t)' = Coming(t)
    BY <2>1 DEF Coming, Sending
  <2>3. mailbox' = [mailbox EXCEPT ![s] = {}]
    BY <1>m, <1>n, <2>1, <2>2
  <2> QED BY <2>1, <2>3, WindowStays DEF Feed!Leave, mailbox
<1>7. ASSUME NEW s \in Subscribers, Receive(s) PROVE Feed!Deliver(s)
  <2>1. /\ s \in subs /\ chan[s] # << >>
        /\ got' = [got EXCEPT ![s] = Append(@, Head(chan[s]))]
        /\ chan' = [chan EXCEPT ![s] = Tail(@)]
        /\ UNCHANGED <<busVars, pubVars, subs>>
    BY <1>7 DEF Receive
  <2>2. \A t \in Subscribers : Coming(t)' = Coming(t)
    BY <2>1 DEF Coming, Sending
  <2> DEFINE e == Head(chan[s])
  <2>3. e \in Elems(chan[s]) /\ Elems(chan[s]) = Elems(Tail(chan[s])) \cup {e}
    BY <2>1, <1>t, ElemsFacts
  <2>4. e \notin Elems(Tail(chan[s])) /\ e \notin Coming(s)
    BY <2>1, <2>3, Apart DEF Coming, Sending
  <2>5. e \in mailbox[s] /\ mailbox' = [mailbox EXCEPT ![s] = @ \ {e}]
    <3>1. chan'[s] = Tail(chan[s]) /\ \A t \in Subscribers \ {s} : chan'[t] = chan[t]
      BY <2>1, <1>t
    <3> HIDE DEF e
    <3>2. /\ mailbox[s] = Elems(chan[s]) \cup Coming(s)
          /\ mailbox'[s] = Elems(Tail(chan[s])) \cup Coming(s)
      BY <1>m, <1>n, <2>1, <2>2, <3>1
    <3>3. e \in mailbox[s] /\ mailbox'[s] = mailbox[s] \ {e}
      BY <2>3, <2>4, <3>2
    <3>4. \A t \in Subscribers \ {s} : mailbox'[t] = mailbox[t]
      BY <1>m, <1>n, <2>1, <2>2, <3>1
    <3> QED BY <1>m, <1>n, <3>3, <3>4
  <2> QED BY <2>1, <2>5, WindowStays DEF Feed!Deliver, mailbox
<1>8. CASE UNCHANGED vars
  <2>1. /\ UNCHANGED <<busVars, pubVars, subs, chan, got>>
    BY <1>8 DEF vars
  <2>2. \A t \in Subscribers : Coming(t)' = Coming(t)
    BY <2>1 DEF Coming, Sending
  <2>3. mailbox' = mailbox
    BY <1>m, <1>n, <2>1, <2>2
  <2> QED BY <2>1, <2>3, WindowStays DEF Feed!feedVars, mailbox
<1> QED BY <1>1, <1>2, <1>3, <1>4, <1>5, <1>6, <1>7, <1>8 DEF Next, Feed!FeedNext

\* The bus implements the feed: its ring is a window on the last events, and each page
\* gets a part of what is published while it is subscribed, each event at most once.
THEOREM BusImplementsFeed == Safety => FeedSafety
<1>1. Feed!FeedInit /\ [][Feed!FeedNext]_(Feed!feedVars) => FeedSafety
  BY DEF FeedSafety, Feed!FeedSafety
<1> QED BY <1>1, FeedInitial, FeedStep, BusCorrect, PTL DEF Safety
=============================================================================

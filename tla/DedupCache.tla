----------------------------- MODULE DedupCache -----------------------------
(***************************************************************************)
(* The dedup cache of server.go: dedupCandidate and dedupKey, IsDup with   *)
(* its load and its compare-and-swap, cleanup with its read and its        *)
(* delete, and Reload, which puts an empty cache in the place of the old   *)
(* one while calls are still in it.  A call is one frame that serve has    *)
(* read; its goroutines run IsDup concurrently.                            *)
(*                                                                         *)
(* Time is a counter.  A call reads it once and may then take any time.    *)
(***************************************************************************)
EXTENDS Naturals, FiniteSets, SequencesExt

CONSTANTS
    Calls,      \* the frames, as the calls about them
    Probe,      \* what dedupProbe takes from each
    TTL,        \* the window
    Horizon,    \* bound: the last moment looked at
    MaxCaches,  \* bound: the caches made
    Nothing     \* no content, no id, no key

ASSUME DedupAssumption ==
    /\ TTL \in Nat \ {0}
    /\ Horizon \in Nat
    /\ MaxCaches \in Nat \ {0}

VARIABLES
    clock,
    cache,      \* s.dedup: the number of a cache, 0 is nil
    made,       \* how many caches there have been
    entry,      \* per cache and key the time of expiry, 0 if there is no entry
    pc,         \* where each call is
    now,        \* the time it has read
    within,     \* the cache it is in
    seen,       \* the value it has loaded
    sweep,      \* cleanup of each cache: the key it is about to delete, the value it read
    promised,   \* history: the end of the window of the last call that passed
    robbed      \* history: cleanup has deleted an entry renewed since it was read

callVars  == <<pc, now, within, seen>>
cacheVars == <<cache, made>>
vars == <<clock, cacheVars, entry, callVars, sweep, promised, robbed>>

-----------------------------------------------------------------------------
(***************************************************************************)
(* Which frames are asked about, and which are copies of one message.      *)
(***************************************************************************)
FirstOf(fields) ==
    LET given == {i \in DOMAIN fields : fields[i] # Nothing}
    IN  IF given = {} THEN Nothing ELSE fields[Min(given)]

ContentFingerprint(p) == FirstOf(<<p.raw, p.message, p.alt>>)

TransportMessageID(p) == FirstOf(p.ids)

\* Mutant: every message goes by its sender and second.
KeyWithoutContent(p) == <<p.kind, p.group, p.user, p.time>>

\* The upstream's own id is not in it, so copies from two upstreams have one key.
Key(p) ==
    <<p.kind, p.group, p.user, p.time,
      FirstOf(<<ContentFingerprint(p), TransportMessageID(p)>>)>>

Candidate(p) ==
    /\ p.post = "message" /\ p.kind = "group"
    /\ p.group # 0 /\ p.user # 0 /\ p.time # 0
    /\ FirstOf(<<ContentFingerprint(p), TransportMessageID(p)>>) # Nothing

Asked    == {c \in Calls : Candidate(Probe[c])}
KeyOf    == [c \in Calls |-> Key(Probe[c])]
Keys     == {KeyOf[c] : c \in Asked}
Caches   == 1..MaxCaches
Entry(c) == entry[within[c]][KeyOf[c]]

Idle == [key |-> Nothing, read |-> 0]

Init ==
    /\ clock = 0 /\ cache = 1 /\ made = 1
    /\ entry = [g \in Caches |-> [k \in Keys |-> 0]]
    /\ pc = [c \in Calls |-> "new"]
    /\ now = [c \in Calls |-> 0]
    /\ within = [c \in Calls |-> 0]
    /\ seen = [c \in Calls |-> 0]
    /\ sweep = [g \in Caches |-> Idle]
    /\ promised = [g \in Caches |-> [k \in Keys |-> 0]]
    /\ robbed = [g \in Caches |-> [k \in Keys |-> FALSE]]

-----------------------------------------------------------------------------
(***************************************************************************)
(* serve and IsDup.  serve broadcasts a frame that passed or was not asked *)
(* about.                                                                  *)
(***************************************************************************)
Ask(c) ==
    /\ pc[c] = "new"
    /\ IF cache # 0 /\ c \in Asked
       THEN /\ pc' = [pc EXCEPT ![c] = "load"]
            /\ now' = [now EXCEPT ![c] = clock]
            /\ within' = [within EXCEPT ![c] = cache]
       ELSE pc' = [pc EXCEPT ![c] = "unasked"] /\ UNCHANGED <<now, within>>
    /\ UNCHANGED <<clock, cacheVars, entry, seen, sweep, promised, robbed>>

\* The call stores its own expiry time and is told that it is no duplicate.
Pass(c) ==
    LET g == within[c]
        k == KeyOf[c]
    IN  /\ pc' = [pc EXCEPT ![c] = "passed"]
        /\ entry' = [entry EXCEPT ![g][k] = now[c] + TTL]
        /\ promised' = [promised EXCEPT ![g][k] = now[c] + TTL]
        /\ robbed' = [robbed EXCEPT ![g][k] = FALSE]
        /\ seen' = [seen EXCEPT ![c] = 0]
        /\ UNCHANGED <<clock, cacheVars, now, within, sweep>>

LoadOrStore(c) ==
    /\ pc[c] = "load"
    /\ \/ Entry(c) = 0 /\ Pass(c)
       \/ /\ Entry(c) > now[c]
          /\ pc' = [pc EXCEPT ![c] = "dup"]
          /\ UNCHANGED <<clock, cacheVars, entry, now, within, seen, sweep, promised, robbed>>
       \/ /\ Entry(c) # 0 /\ Entry(c) <= now[c]
          /\ pc' = [pc EXCEPT ![c] = "swap"]
          /\ seen' = [seen EXCEPT ![c] = Entry(c)]
          /\ UNCHANGED <<clock, cacheVars, entry, now, within, sweep, promised, robbed>>

\* Mutant: a plain store in the place of the compare-and-swap.
StoreAnyway(c) == pc[c] = "swap" /\ Pass(c)

\* Mutant: the loop tries the swap again with what it has loaded before.
SwapAgain(c) == pc[c] = "swap" /\ Entry(c) = seen[c] /\ Pass(c)

CompareAndSwap(c) ==
    /\ pc[c] = "swap"
    /\ \/ Entry(c) = seen[c] /\ Pass(c)
       \/ /\ Entry(c) # seen[c]
          /\ pc' = [pc EXCEPT ![c] = "load"]
          /\ seen' = [seen EXCEPT ![c] = 0]
          /\ UNCHANGED <<clock, cacheVars, entry, now, within, sweep, promised, robbed>>

-----------------------------------------------------------------------------
(***************************************************************************)
(* cleanup, and the environment.                                           *)
(***************************************************************************)
\* Range hands over an entry that has expired.  The ticker may fire at any moment, and
\* a stopped cleanup may take one more tick; each Range reads the time anew, so where it
\* began and what it passes over makes no difference.
FindExpired(g) ==
    \E k \in Keys :
        /\ sweep[g] = Idle
        /\ entry[g][k] # 0 /\ entry[g][k] <= clock
        /\ sweep' = [sweep EXCEPT ![g] = [key |-> k, read |-> entry[g][k]]]
        /\ UNCHANGED <<clock, cacheVars, entry, callVars, promised, robbed>>

\* Delete takes the key whatever its value is by now.
Delete(g) ==
    LET k == sweep[g].key
    IN  /\ sweep[g] # Idle
        /\ entry' = [entry EXCEPT ![g][k] = 0]
        /\ robbed' = [robbed EXCEPT ![g][k] = @ \/ entry[g][k] \notin {0, sweep[g].read}]
        /\ sweep' = [sweep EXCEPT ![g] = Idle]
        /\ UNCHANGED <<clock, cacheVars, callVars, promised>>

\* A reload with deduplication switched off, or with a new cache.
Reload ==
    /\ \/ cache # 0 /\ cache' = 0 /\ UNCHANGED made
       \/ made < MaxCaches /\ made' = made + 1 /\ cache' = made'
    /\ UNCHANGED <<clock, entry, callVars, sweep, promised, robbed>>

Tick ==
    /\ clock < Horizon
    /\ clock' = clock + 1
    /\ UNCHANGED <<cacheVars, entry, callVars, sweep, promised, robbed>>

IsDup(c) == LoadOrStore(c) \/ CompareAndSwap(c)

Next ==
    \/ \E c \in Calls : Ask(c) \/ IsDup(c)
    \/ \E g \in Caches : FindExpired(g) \/ Delete(g)
    \/ Reload
    \/ Tick

\* serve's goroutine runs on; nothing is asked of the ticker, of reloads or of frames.
Spec == Init /\ [][Next]_vars /\ \A c \in Calls : WF_vars(IsDup(c))

-----------------------------------------------------------------------------
\* One copy of a message passes per window: the next one that the same cache lets
\* through comes when the TTL of the last has run out, whichever of them were slow, raced
\* each other or the cleanup.  The one excuse is that cleanup deleted an entry which had
\* been renewed after it was read.
OnePerWindow ==
    [][\A c \in Calls :
        pc[c] \in {"load", "swap"} /\ pc'[c] = "passed" =>
            \/ clock >= promised[within[c]][KeyOf[c]]
            \/ robbed[within[c]][KeyOf[c]]]_vars

\* Two frames of one group, sender and second.
SameSource(p, q) ==
    p.kind = q.kind /\ p.group = q.group /\ p.user = q.user /\ p.time = q.time

\* They say the same, or have the same id where neither says anything.
SameMessage(p, q) ==
    /\ ContentFingerprint(p) = ContentFingerprint(q)
    /\ ContentFingerprint(p) = Nothing => TransportMessageID(p) = TransportMessageID(q)

\* What one says reads like the id of another that says nothing.
ReadsLikeId(p, q) ==
    /\ ContentFingerprint(p) = TransportMessageID(q)
    /\ ContentFingerprint(p) # Nothing /\ ContentFingerprint(q) = Nothing

\* A frame dropped as a duplicate was a copy: less than a window before it was read, a
\* frame of the same group, sender and second had been read that has passed, and that
\* says the same, or has the same id where neither says anything.  The one exception is
\* a pair of frames of which one says what the other, which says nothing, has for its id:
\* dedupKey puts content and id in one place without a mark.
NothingSwallowed ==
    \A c \in Calls : pc[c] = "dup" =>
        \E d \in Calls :
            LET p == Probe[c]
                q == Probe[d]
            IN  /\ pc[d] = "passed" /\ within[d] = within[c] /\ now[d] + TTL > now[c]
                /\ SameSource(p, q)
                /\ SameMessage(p, q) \/ ReadsLikeId(p, q) \/ ReadsLikeId(q, p)

\* The retry loop ends: other calls, the cleanup and reloads can make IsDup go round
\* again, but not for ever.
CallsReturn ==
    \A c \in Asked : pc[c] \in {"load", "swap"} ~> pc[c] \in {"passed", "dup"}
=============================================================================

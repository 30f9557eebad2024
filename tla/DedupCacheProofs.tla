-------------------------- MODULE DedupCacheProofs --------------------------
(***************************************************************************)
(* The safety of DedupCache for every set of frames, every window and      *)
(* every number of caches.  WindowInv relates an entry to the window that  *)
(* was promised with it, TwinInv to the call that made it.                 *)
(***************************************************************************)
EXTENDS DedupCache, TLAPS

-----------------------------------------------------------------------------
(* The invariant *)

TypeInv ==
    /\ clock \in Nat
    /\ made \in Caches
    /\ cache \in 0..made
    /\ entry \in [Caches -> [Keys -> Nat]]
    /\ pc \in [Calls -> {"new", "unasked", "load", "swap", "dup", "passed"}]
    /\ now \in [Calls -> Nat]
    /\ within \in [Calls -> 0..MaxCaches]
    /\ seen \in [Calls -> Nat]
    /\ sweep \in [Caches -> [key : Keys, read : Nat \ {0}] \cup {Idle}]
    /\ promised \in [Caches -> [Keys -> Nat]]
    /\ robbed \in [Caches -> [Keys -> BOOLEAN]]

\* What a call or a cleanup has read is of the past.
ReadInv ==
    /\ \A c \in Calls : pc[c] \in {"load", "swap", "dup", "passed"} =>
          c \in Asked /\ within[c] \in Caches /\ now[c] <= clock
    /\ \A c \in Calls : pc[c] = "swap" => seen[c] # 0 /\ seen[c] <= now[c]
    /\ \A g \in Caches : sweep[g] # Idle => sweep[g].read <= clock

\* An entry stands for the window that the last call which passed has promised, and is
\* missing only after that.
WindowInv ==
    \A g \in Caches, k \in Keys :
        \/ robbed[g][k]
        \/ entry[g][k] = promised[g][k]
        \/ entry[g][k] = 0 /\ promised[g][k] <= clock

\* An entry is that of a call that has passed.
Made(d, g, k, expiry) ==
    pc[d] = "passed" /\ within[d] = g /\ KeyOf[d] = k /\ now[d] + TTL = expiry

TwinInv ==
    \A g \in Caches, k \in Keys : entry[g][k] # 0 =>
        \E d \in Calls : Made(d, g, k, entry[g][k])

Inv == TypeInv /\ ReadInv /\ WindowInv /\ TwinInv

-----------------------------------------------------------------------------
(* Its proof *)

\* The invariant holds of an empty cache.
LEMMA InvInit == Init => Inv
<1> SUFFICES ASSUME Init PROVE Inv
    OBVIOUS
<1> USE DedupAssumption DEF Init, Caches
<1>1. TypeInv
  BY DEF TypeInv
<1>2. ReadInv /\ WindowInv /\ TwinInv
  BY DEF ReadInv, WindowInv, TwinInv
<1> QED BY <1>1, <1>2 DEF Inv

\* A call passes with no entry before it, or with one that has expired.
LEMMA PassStep ==
    ASSUME Inv, NEW c \in Calls, pc[c] \in {"load", "swap"}, Pass(c),
           Entry(c) = 0 \/ (pc[c] = "swap" /\ Entry(c) = seen[c])
    PROVE  /\ Inv'
           /\ clock >= promised[within[c]][KeyOf[c]] \/ robbed[within[c]][KeyOf[c]]
<1> DEFINE g == within[c]
           k == KeyOf[c]
           e == now[c] + TTL
<1> USE DedupAssumption
<1>t. TypeInv /\ ReadInv /\ WindowInv /\ TwinInv
  BY DEF Inv
<1>1. /\ g \in Caches /\ k \in Keys /\ now[c] \in Nat /\ now[c] <= clock /\ clock \in Nat
      /\ e \in Nat \ {0}
  BY <1>t DEF TypeInv, ReadInv, Keys
<1>2. /\ pc' = [pc EXCEPT ![c] = "passed"]
      /\ entry' = [entry EXCEPT ![g][k] = e]
      /\ promised' = [promised EXCEPT ![g][k] = e]
      /\ robbed' = [robbed EXCEPT ![g][k] = FALSE]
      /\ seen' = [seen EXCEPT ![c] = 0]
      /\ UNCHANGED <<clock, cache, made, now, within, sweep>>
  BY DEF Pass, cacheVars
<1>3. clock >= promised[g][k] \/ robbed[g][k]
  <2>1. entry[g][k] = 0 \/ (entry[g][k] = seen[c] /\ seen[c] # 0 /\ seen[c] <= now[c])
    BY <1>t DEF Entry, ReadInv
  <2> QED BY <1>1, <1>t, <2>1 DEF WindowInv, TypeInv
<1>4. TypeInv'
  BY <1>1, <1>2, <1>t DEF TypeInv
<1>5. ReadInv'
  BY <1>1, <1>2, <1>t DEF TypeInv, ReadInv
<1>6. WindowInv'
  BY <1>1, <1>2, <1>t DEF TypeInv, WindowInv
<1>7. TwinInv'
  <2>1. Made(c, g, k, e)'
    BY <1>1, <1>2, <1>t DEF Made, TypeInv
  <2>2. ASSUME NEW h \in Caches, NEW j \in Keys, entry'[h][j] # 0
        PROVE  \E d \in Calls : Made(d, h, j, entry[h][j])'
    <3>1. CASE h = g /\ j = k
      BY <1>1, <1>2, <2>1, <3>1, <1>t DEF TypeInv
    <3>2. CASE ~(h = g /\ j = k)
      <4>1. entry'[h][j] = entry[h][j]
        BY <1>1, <1>2, <3>2, <1>t DEF TypeInv
      <4>2. PICK d \in Calls : Made(d, h, j, entry[h][j])
        BY <2>2, <4>1, <1>t DEF TwinInv
      <4>3. Made(d, h, j, entry[h][j])'
        BY <1>2, <4>1, <4>2, <1>t DEF Made, TypeInv
      <4> QED BY <4>3
    <3> QED BY <3>1, <3>2
  <2> QED BY <2>2 DEF TwinInv
<1> QED BY <1>3, <1>4, <1>5, <1>6, <1>7 DEF Inv

\* Every step of a call, of the cleanup, of a reload and of the clock keeps the invariant.
LEMMA InvStep == Inv /\ [Next]_vars => Inv'
<1> SUFFICES ASSUME Inv, [Next]_vars PROVE Inv'
    OBVIOUS
<1> USE DedupAssumption DEF Made
<1>t. TypeInv /\ ReadInv /\ WindowInv /\ TwinInv
  BY DEF Inv
<1>1. ASSUME NEW c \in Calls, Ask(c) PROVE Inv'
  <2>1. ASSUME cache # 0, c \in Asked PROVE TypeInv' /\ ReadInv'
    <3>1. /\ pc' = [pc EXCEPT ![c] = "load"] /\ now' = [now EXCEPT ![c] = clock]
          /\ within' = [within EXCEPT ![c] = cache]
          /\ UNCHANGED <<clock, cache, made, entry, seen, sweep, promised, robbed>>
      BY <1>1, <2>1 DEF Ask, cacheVars
    <3>2. cache \in Caches
      BY <2>1, <1>t DEF TypeInv, Caches
    <3> QED BY <2>1, <3>1, <3>2, <1>t DEF TypeInv, ReadInv, Caches
  <2>4. ASSUME ~(cache # 0 /\ c \in Asked) PROVE TypeInv' /\ ReadInv'
    BY <1>1, <2>4, <1>t DEF Ask, TypeInv, ReadInv, cacheVars
  <2>2. WindowInv'
    BY <1>1, <1>t DEF Ask, WindowInv
  <2>3. TwinInv'
    <3>1. UNCHANGED entry /\ \A d \in Calls : d # c =>
              pc'[d] = pc[d] /\ now'[d] = now[d] /\ within'[d] = within[d]
      BY <1>1, <1>t DEF Ask, TypeInv
    <3>2. \A g \in Caches, k \in Keys : entry[g][k] \in Nat /\ entry'[g][k] = entry[g][k]
      BY <3>1, <1>t DEF TypeInv
    <3>3. ASSUME NEW g \in Caches, NEW k \in Keys, entry'[g][k] # 0
          PROVE  \E d \in Calls : Made(d, g, k, entry[g][k])'
      <4>1. PICK d \in Calls : Made(d, g, k, entry[g][k])
        BY <3>2, <3>3, <1>t DEF TwinInv
      <4>2. pc[d] = "passed" /\ d # c
        BY <1>1, <4>1 DEF Ask, Made
      <4> QED BY <3>1, <3>2, <4>1, <4>2 DEF Made
    <3> QED BY <3>3 DEF TwinInv
  <2> QED BY <2>1, <2>2, <2>3, <2>4 DEF Inv
<1>2. ASSUME NEW c \in Calls, LoadOrStore(c) PROVE Inv'
  <2>1. CASE Entry(c) = 0 /\ Pass(c)
    BY <1>2, <2>1, PassStep DEF LoadOrStore
  <2>2. CASE ~(Entry(c) = 0 /\ Pass(c))
    <3>1. /\ pc[c] = "load"
          /\ UNCHANGED <<clock, cache, made, entry, now, within, sweep, promised, robbed>>
          /\ \/ pc' = [pc EXCEPT ![c] = "dup"] /\ seen' = seen
             \/ /\ pc' = [pc EXCEPT ![c] = "swap"]
                /\ Entry(c) # 0 /\ Entry(c) <= now[c]
                /\ seen' = [seen EXCEPT ![c] = Entry(c)]
      BY <1>2, <2>2 DEF LoadOrStore, cacheVars
    <3>2. within[c] \in Caches /\ KeyOf[c] \in Keys
      BY <3>1, <1>t DEF ReadInv, Keys
    <3>3. Entry(c) \in Nat
      BY <3>2, <1>t DEF Entry, TypeInv
    <3>4. TypeInv' /\ ReadInv'
      BY <3>1, <3>3, <1>t DEF TypeInv, ReadInv
    <3>5. WindowInv' /\ TwinInv'
      BY <3>1, <1>t DEF WindowInv, TwinInv, TypeInv
    <3> QED BY <3>4, <3>5 DEF Inv
  <2> QED BY <2>1, <2>2
<1>3. ASSUME NEW c \in Calls, CompareAndSwap(c) PROVE Inv'
  <2>1. CASE Entry(c) = seen[c] /\ Pass(c)
    BY <1>3, <2>1, PassStep DEF CompareAndSwap
  <2>2. CASE ~(Entry(c) = seen[c] /\ Pass(c))
    <3>1. /\ pc[c] = "swap"
          /\ UNCHANGED <<clock, cache, made, entry, now, within, sweep, promised, robbed>>
          /\ pc' = [pc EXCEPT ![c] = "load"]
          /\ seen' = [seen EXCEPT ![c] = 0]
      BY <1>3, <2>2 DEF CompareAndSwap, cacheVars
    <3>2. TypeInv' /\ ReadInv'
      BY <3>1, <1>t DEF TypeInv, ReadInv
    <3>3. WindowInv' /\ TwinInv'
      BY <3>1, <1>t DEF WindowInv, TwinInv, TypeInv
    <3> QED BY <3>2, <3>3 DEF Inv
  <2> QED BY <2>1, <2>2
<1>4. ASSUME NEW g \in Caches, FindExpired(g) PROVE Inv'
  <2>1. PICK k \in Keys :
           /\ entry[g][k] # 0 /\ entry[g][k] <= clock
           /\ sweep' = [sweep EXCEPT ![g] = [key |-> k, read |-> entry[g][k]]]
           /\ UNCHANGED <<clock, cacheVars, entry, callVars, promised, robbed>>
    BY <1>4 DEF FindExpired
  <2>2. TypeInv' /\ ReadInv'
    BY <2>1, <1>t DEF TypeInv, ReadInv, cacheVars, callVars
  <2>3. WindowInv' /\ TwinInv'
    BY <2>1, <1>t DEF WindowInv, TwinInv, callVars
  <2> QED BY <2>2, <2>3 DEF Inv
<1>5. ASSUME NEW g \in Caches, Delete(g) PROVE Inv'
  <2> DEFINE k == sweep[g].key
  <2>1. /\ sweep[g] # Idle
        /\ entry' = [entry EXCEPT ![g][k] = 0]
        /\ robbed' = [robbed EXCEPT ![g][k] = @ \/ entry[g][k] \notin {0, sweep[g].read}]
        /\ sweep' = [sweep EXCEPT ![g] = Idle]
        /\ UNCHANGED <<clock, cache, made, pc, now, within, seen, promised>>
    BY <1>5 DEF Delete, cacheVars, callVars
  <2>2. k \in Keys /\ sweep[g].read \in Nat \ {0} /\ sweep[g].read <= clock
    BY <2>1, <1>t DEF TypeInv, ReadInv
  <2>3. TypeInv' /\ ReadInv'
    BY <2>1, <2>2, <1>t DEF TypeInv, ReadInv
  <2>4. WindowInv'
    <3>1. \A h \in Caches, j \in Keys : h # g \/ j # k =>
              entry'[h][j] = entry[h][j] /\ robbed'[h][j] = robbed[h][j]
      BY <2>1, <2>2, <1>t DEF TypeInv
    <3>2. /\ entry'[g][k] = 0
          /\ robbed'[g][k] <=> robbed[g][k] \/ entry[g][k] \notin {0, sweep[g].read}
      BY <2>1, <2>2, <1>t DEF TypeInv
    <3>3. robbed'[g][k] \/ promised[g][k] <= clock
      BY <2>2, <3>2, <1>t DEF WindowInv, TypeInv
    <3> QED BY <2>1, <3>1, <3>2, <3>3, <1>t DEF WindowInv
  <2>5. TwinInv'
    BY <2>1, <2>2, <1>t DEF TypeInv, TwinInv
  <2> QED BY <2>3, <2>4, <2>5 DEF Inv
<1>6. CASE Reload
  <2>1. TypeInv' /\ ReadInv'
    BY <1>6, <1>t DEF Reload, TypeInv, ReadInv, callVars, Caches
  <2>2. WindowInv' /\ TwinInv'
    BY <1>6, <1>t DEF Reload, WindowInv, TwinInv, callVars
  <2> QED BY <2>1, <2>2 DEF Inv
<1>7. CASE Tick
  <2>1. clock' = clock + 1 /\ UNCHANGED <<cacheVars, entry, callVars, sweep, promised, robbed>>
    BY <1>7 DEF Tick
  <2>2. TypeInv' /\ ReadInv'
    BY <2>1, <1>t DEF TypeInv, ReadInv, callVars, cacheVars
  <2>3. WindowInv' /\ TwinInv'
    BY <2>1, <1>t DEF WindowInv, TwinInv, callVars, TypeInv
  <2> QED BY <2>2, <2>3 DEF Inv
<1>8. CASE UNCHANGED vars
  BY <1>8, <1>t DEF vars, Inv, TypeInv, ReadInv, WindowInv, TwinInv, cacheVars, callVars
<1> QED BY <1>1, <1>2, <1>3, <1>4, <1>5, <1>6, <1>7, <1>8 DEF Next, IsDup

\* The invariant holds of every reachable state.
LEMMA InvCorrect == Init /\ [][Next]_vars => []Inv
BY InvInit, InvStep, PTL

-----------------------------------------------------------------------------
(* What IsDup promises *)

\* The next copy that a cache lets through comes after the window of the last one, if
\* cleanup has not deleted a renewed entry in between.
LEMMA WindowStep ==
    ASSUME Inv, [Next]_vars, NEW c \in Calls, pc[c] \in {"load", "swap"}, pc'[c] = "passed"
    PROVE  clock >= promised[within[c]][KeyOf[c]] \/ robbed[within[c]][KeyOf[c]]
<1>t. pc \in [Calls -> {"new", "unasked", "load", "swap", "dup", "passed"}]
  BY DEF Inv, TypeInv
<1>1. IsDup(c)
  <2>1. ASSUME NEW d \in Calls, d # c, Ask(d) \/ IsDup(d) PROVE FALSE
    BY <2>1, <1>t DEF Ask, IsDup, LoadOrStore, CompareAndSwap, Pass
  <2>2. ~Ask(c)
    BY DEF Ask
  <2>3. pc' # pc
    OBVIOUS
  <2> QED
    BY <2>1, <2>2, <2>3 DEF Next, FindExpired, Delete, Reload, Tick, vars, callVars
<1>2. /\ Pass(c)
      /\ Entry(c) = 0 \/ (pc[c] = "swap" /\ Entry(c) = seen[c])
  BY <1>1, <1>t DEF IsDup, LoadOrStore, CompareAndSwap
<1> QED BY <1>2, PassStep

\* The same of every step of every behaviour.
THEOREM OnePassesPerWindow == Spec => OnePerWindow
<1>1. Inv /\ [Next]_vars =>
        [\A c \in Calls :
            pc[c] \in {"load", "swap"} /\ pc'[c] = "passed" =>
                \/ clock >= promised[within[c]][KeyOf[c]]
                \/ robbed[within[c]][KeyOf[c]]]_vars
  BY WindowStep
<1> QED BY <1>1, InvCorrect, PTL DEF Spec, OnePerWindow

\* A frame is dropped for one that has passed under the same key.
Twin(c, d) ==
    /\ pc[d] = "passed" /\ within[d] = within[c] /\ KeyOf[d] = KeyOf[c]
    /\ now[d] + TTL > now[c]

DroppedForTwin == \A c \in Calls : pc[c] = "dup" => \E d \in Calls : Twin(c, d)

\* A call that drops its message has read an entry, whose maker is the twin.
LEMMA TwinStep == Inv /\ DroppedForTwin /\ [Next]_vars => DroppedForTwin'
<1> SUFFICES ASSUME Inv, DroppedForTwin, [Next]_vars, NEW c \in Calls, pc'[c] = "dup"
             PROVE  \E d \in Calls : Twin(c, d)'
    BY DEF DroppedForTwin
<1> USE DEF Twin
<1>t. TypeInv /\ ReadInv /\ TwinInv
  BY DEF Inv
<1>1. ASSUME NEW d \in Calls, pc[d] = "passed"
      PROVE  pc'[d] = "passed" /\ now'[d] = now[d] /\ within'[d] = within[d]
  BY <1>1, <1>t DEF TypeInv, Next, IsDup, LoadOrStore, CompareAndSwap, Pass, Ask, FindExpired,
     Delete, Reload, Tick, vars, callVars
<1>2. CASE pc[c] = "dup"
  <2>1. now'[c] = now[c] /\ within'[c] = within[c]
    BY <1>2, <1>t DEF TypeInv, Next, IsDup, LoadOrStore, CompareAndSwap, Pass, Ask, FindExpired,
       Delete, Reload, Tick, vars, callVars
  <2> QED BY <1>1, <1>2, <2>1 DEF DroppedForTwin
<1>3. CASE pc[c] # "dup"
  <2>1. pc[c] = "load" /\ Entry(c) > now[c] /\ UNCHANGED <<now, within>>
    BY <1>3, <1>t DEF TypeInv, Next, IsDup, LoadOrStore, CompareAndSwap, Pass, Ask, FindExpired,
       Delete, Reload, Tick, vars, callVars
  <2>2. within[c] \in Caches /\ KeyOf[c] \in Keys /\ now[c] \in Nat
    BY <2>1, <1>t DEF ReadInv, TypeInv, Keys
  <2>3. Entry(c) \in Nat /\ Entry(c) # 0
    BY <2>1, <2>2, <1>t DEF Entry, TypeInv
  <2>4. PICK d \in Calls : Made(d, within[c], KeyOf[c], Entry(c))
    BY <2>2, <2>3, <1>t DEF TwinInv, Entry
  <2> QED BY <1>1, <2>1, <2>4 DEF Made
<1> QED BY <1>2, <1>3

\* Nothing is dropped but for a frame of the same cache and key that has passed, read
\* less than a window earlier.
THEOREM DropsAreTwins == Spec => []DroppedForTwin
<1>1. Init => DroppedForTwin
  BY DEF Init, DroppedForTwin
<1> QED BY <1>1, TwinStep, InvCorrect, PTL DEF Spec

\* FirstOf falls back from the first field to the second.
LEMMA FirstOfTwo ==
    ASSUME NEW x, NEW y
    PROVE  FirstOf(<<x, y>>) = IF x # Nothing THEN x ELSE y
<1> DEFINE given == {i \in DOMAIN <<x, y>> : <<x, y>>[i] # Nothing}
<1>1. CASE x # Nothing
  <2>1. given # {} /\ Min(given) = 1
    BY <1>1 DEF Min
  <2> QED BY <1>1, <2>1 DEF FirstOf
<1>2. CASE x = Nothing /\ y # Nothing
  <2>1. given = {2}
    BY <1>2
  <2>2. Min(given) = 2
    BY <2>1 DEF Min
  <2> QED BY <1>2, <2>1, <2>2 DEF FirstOf
<1>3. CASE x = Nothing /\ y = Nothing
  <2>1. given = {}
    BY <1>3
  <2> QED BY <1>3, <2>1 DEF FirstOf
<1> QED BY <1>1, <1>2, <1>3

\* What IsDup drops is a copy of a message that has passed, less than a window before it
\* was read, but for the exception that NothingSwallowed names.
THEOREM NoMessageSwallowed == Spec => []NothingSwallowed
<1>1. ASSUME NEW c \in Calls, NEW d \in Calls, c \in Asked, d \in Asked, KeyOf[c] = KeyOf[d]
      PROVE  /\ SameSource(Probe[c], Probe[d])
             /\ \/ SameMessage(Probe[c], Probe[d])
                \/ ReadsLikeId(Probe[c], Probe[d]) \/ ReadsLikeId(Probe[d], Probe[c])
  <2>1. /\ FirstOf(<<ContentFingerprint(Probe[c]), TransportMessageID(Probe[c])>>)
             = FirstOf(<<ContentFingerprint(Probe[d]), TransportMessageID(Probe[d])>>)
        /\ SameSource(Probe[c], Probe[d])
    BY <1>1 DEF KeyOf, Key, SameSource
  <2>2. /\ FirstOf(<<ContentFingerprint(Probe[c]), TransportMessageID(Probe[c])>>) # Nothing
        /\ FirstOf(<<ContentFingerprint(Probe[d]), TransportMessageID(Probe[d])>>) # Nothing
    BY <1>1 DEF Asked, Candidate
  <2> QED BY <2>1, <2>2, FirstOfTwo DEF SameMessage, ReadsLikeId
<1>2. Inv /\ DroppedForTwin => NothingSwallowed
  <2> SUFFICES ASSUME Inv, DroppedForTwin, NEW c \in Calls, pc[c] = "dup"
               PROVE  \E d \in Calls :
                         /\ pc[d] = "passed" /\ within[d] = within[c] /\ now[d] + TTL > now[c]
                         /\ SameSource(Probe[c], Probe[d])
                         /\ \/ SameMessage(Probe[c], Probe[d])
                            \/ ReadsLikeId(Probe[c], Probe[d]) \/ ReadsLikeId(Probe[d], Probe[c])
      BY DEF NothingSwallowed
  <2>1. PICK d \in Calls : Twin(c, d)
    BY DEF DroppedForTwin
  <2>2. c \in Asked /\ d \in Asked
    BY <2>1 DEF Inv, ReadInv, Twin
  <2> QED BY <1>1, <2>1, <2>2 DEF Twin
<1> QED BY <1>2, InvCorrect, DropsAreTwins, PTL DEF Spec
=============================================================================

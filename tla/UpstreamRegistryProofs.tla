----------------------- MODULE UpstreamRegistryProofs -----------------------
(***************************************************************************)
(* The safety of UpstreamRegistry for every set of connections, self ids   *)
(* and replies and every capacity of the channels.  ServeInv ties the map  *)
(* s.upstreams to where the handlers are and to the state of the           *)
(* connections; RouteInv says where a reply can be.                        *)
(***************************************************************************)
EXTENDS UpstreamRegistry, TLAPS

-----------------------------------------------------------------------------
(* Types *)

\* Tail and Append keep a channel a channel.
LEMMA QueueType ==
    ASSUME NEW q \in Seq(Replies)
    PROVE  /\ Len(q) \in Nat
           /\ \A r \in Replies : /\ Append(q, r) \in Seq(Replies)
                                 /\ Len(Append(q, r)) = Len(q) + 1
           /\ q # << >> => /\ Head(q) \in Replies
                           /\ Tail(q) \in Seq(Replies)
                           /\ Len(Tail(q)) = Len(q) - 1
OBVIOUS

\* What a write loop is writing is a reply.
WriterInv == \A u \in Conns : writer[u] = "writing" => holding[u] \in Replies

TypeInv == TypeOK /\ WriterInv

\* A server without upstreams has the types.
LEMMA TypeInit == Init => TypeInv
<1> SUFFICES ASSUME Init PROVE TypeInv
    OBVIOUS
<1>1. /\ queue \in [Conns -> Seq(Replies)]
      /\ \A u \in Conns : Len(queue[u]) <= QueueCap
  BY RegistryAssumption DEF Init
<1>2. /\ upstreams \in [Ids -> Conns \cup {None}]
      /\ cancelled \in SUBSET Conns
      /\ holding \in [Conns -> Replies \cup {NoReply}]
      /\ written \in [Conns -> SUBSET Replies]
  BY DEF Init
<1>3. WriterInv
  BY DEF Init, WriterInv
<1> QED BY <1>1, <1>2, <1>3 DEF Init, TypeOK, TypeInv

\* No step leaves the types; in particular none overfills a channel.
LEMMA TypeStep == TypeInv /\ [Next]_vars => TypeInv'
<1> SUFFICES ASSUME TypeInv, [Next]_vars PROVE TypeInv'
    OBVIOUS
<1> USE RegistryAssumption DEF TypeInv, WriterInv
<1>1. ASSUME NEW u \in Conns, Handshake(u) \/ ReadFrame(u) PROVE TypeInv'
  BY <1>1 DEF TypeOK, Handshake, ReadFrame, Goto, managerVars, writerVars
<1>2. ASSUME NEW u \in Conns, HandlerStep(u) PROVE TypeInv'
  <2>1. CASE \/ Reject(u) \/ ServeOnNil(u) \/ AskDedup(u) \/ SkipDedup(u)
             \/ AskNilDedup(u) \/ ReadError(u)
    BY <2>1 DEF TypeOK, Reject, ServeOnNil, AskDedup, SkipDedup, AskNilDedup, ReadError,
       Goto, managerVars, writerVars
  <2>2. CASE Upgrade(u)
    BY <2>2 DEF TypeOK, Upgrade, Goto, managerVars, writerVars
  <2>5. CASE CloseConn(u)
    BY <2>5 DEF TypeOK, CloseConn, Goto, managerVars, writerVars
  <2>3. CASE Register(u)
    BY <2>3 DEF TypeOK, Register, Goto, managerVars, writerVars
  <2>4. CASE Cancel(u) \/ Remove(u)
    BY <2>4 DEF TypeOK, Cancel, Remove, Goto, managerVars, writerVars
  <2> QED BY <1>2, <2>1, <2>2, <2>3, <2>4, <2>5 DEF HandlerStep
<1>3. ASSUME NEW u \in Conns, Take(u) PROVE TypeInv'
  BY <1>3, QueueType DEF TypeOK, Take, managerVars, serveVars
<1>4. ASSUME NEW u \in Conns, Written(u) PROVE TypeInv'
  <2>1. holding[u] \in Replies
    BY <1>4 DEF Written
  <2>2. written' \in [Conns -> SUBSET Replies]
    BY <1>4, <2>1 DEF TypeOK, Written
  <2> QED BY <1>4, <2>2 DEF TypeOK, Written, managerVars, serveVars
<1>5. ASSUME NEW u \in Conns, WriteFails(u) \/ WriterExit(u) PROVE TypeInv'
  <2>1. CASE WriteFails(u)
    BY <2>1 DEF TypeOK, WriteFails, managerVars, serveVars, writerVars
  <2>2. CASE WriterExit(u)
    BY <2>2 DEF TypeOK, WriterExit, managerVars, serveVars, writerVars
  <2> QED BY <1>5, <2>1, <2>2
<1>6. ASSUME NEW u \in Conns, Drop(u) PROVE TypeInv'
  BY <1>6 DEF TypeOK, Drop, managerVars, serveVars, writerVars
<1>7. ASSUME NEW r \in Replies, Count(r) PROVE TypeInv'
  BY <1>7 DEF TypeOK, Count, managerVars, serveVars, writerVars
<1>8. ASSUME NEW r \in Replies, Enqueue(r) PROVE TypeInv'
  <2>1. ASSUME NEW u \in Conns
        PROVE  /\ queue'[u] \in Seq(Replies)
               /\ Len(queue'[u]) <= QueueCap
    <3>1. \/ queue'[u] = queue[u]
          \/ queue'[u] = Append(queue[u], r) /\ Len(queue[u]) < QueueCap
      BY <1>8 DEF Enqueue, HasRoom
    <3>2. queue[u] \in Seq(Replies) /\ Len(queue[u]) <= QueueCap
      BY DEF TypeOK
    <3>3. /\ Len(queue[u]) \in Nat
          /\ Append(queue[u], r) \in Seq(Replies)
          /\ Len(Append(queue[u], r)) = Len(queue[u]) + 1
      BY <3>2, QueueType
    <3>4. CASE queue'[u] = queue[u]
      BY <3>2, <3>4
    <3>5. CASE queue'[u] = Append(queue[u], r) /\ Len(queue[u]) < QueueCap
      BY <3>3, <3>5
    <3> QED BY <3>1, <3>4, <3>5
  <2>2. queue' \in [Conns -> Seq(Replies)]
    BY <1>8, <2>1 DEF Enqueue
  <2>3. reply' \in [Replies -> {"new", "counted", "ok", "failed"}]
    BY <1>8 DEF TypeOK, Enqueue
  <2> QED BY <1>8, <2>1, <2>2, <2>3 DEF TypeOK, Enqueue, managerVars, serveVars, writerVars
<1>9. CASE ReloadDropsDedup \/ ReloadMakesDedup \/ Stop \/ UNCHANGED vars
  BY <1>9 DEF TypeOK, ReloadDropsDedup, ReloadMakesDedup, Stop, vars,
     managerVars, serveVars, writerVars
<1> QED BY <1>1, <1>2, <1>3, <1>4, <1>5, <1>6, <1>7, <1>8, <1>9 DEF Next, LoopStep

\* The types are kept, for every number of connections and every capacity.
THEOREM TypeCorrect == Safety => []TypeOK
<1>1. Init => TypeInv
  BY TypeInit
<1>2. TypeInv /\ [Next]_vars => TypeInv'
  BY TypeStep
<1>3. TypeInv => TypeOK
  BY DEF TypeInv
<1> QED BY <1>1, <1>2, <1>3, PTL DEF Safety

-----------------------------------------------------------------------------
(* Who is registered *)

\* Only an upgraded connection that nobody has closed yet is served.
FreshInv == \A u \in Conns : pc[u] = "serve" => sock[u] \in {"open", "lost"}

ServeInv == EntriesServed /\ ServedRegistered /\ FreshInv

\* Nobody is served and nobody registered at first.
LEMMA ServeInit == Init => ServeInv
BY DEF Init, ServeInv, EntriesServed, ServedRegistered, FreshInv

\* The steps that leave s.upstreams, the connections and the handlers as they are.
LEMMA ServeFrame ==
    ASSUME ServeInv, UNCHANGED <<selfID, pc, sock, upstreams>>
    PROVE  ServeInv'
BY DEF ServeInv, EntriesServed, ServedRegistered, FreshInv

\* Register and Remove are the two steps that matter: the place of a connection
\* that is replaced goes to one that nobody has closed, and a connection removes
\* only itself.
LEMMA ServeStep == TypeOK /\ ServeInv /\ [Next]_vars => ServeInv'
<1> SUFFICES ASSUME TypeOK, ServeInv, [Next]_vars PROVE ServeInv'
    OBVIOUS
<1> USE RegistryAssumption DEF ServeInv, EntriesServed, ServedRegistered, FreshInv
<1>t. /\ selfID \in [Conns -> Ids]
      /\ pc \in [Conns -> {"new", "token", "serve", "loop", "dedup", "cancel", "remove",
                           "close", "over"}]
      /\ sock \in [Conns -> {"none", "open", "lost", "closed"}]
      /\ upstreams \in [Ids -> Conns \cup {None}]
  BY DEF TypeOK
<1>1. ASSUME NEW u \in Conns,
             \/ Handshake(u) \/ ReadFrame(u) \/ Reject(u) \/ ServeOnNil(u) \/ AskDedup(u)
             \/ SkipDedup(u) \/ AskNilDedup(u) \/ ReadError(u) \/ Cancel(u)
      PROVE  ServeInv'
  <2>1. /\ UNCHANGED <<selfID, sock, upstreams>>
        /\ \E where \in {"token", "over", "dedup", "loop", "cancel", "remove"} :
              /\ pc' = [pc EXCEPT ![u] = where]
              /\ \/ pc[u] \in {"new", "token", "serve"} /\ where \in {"token", "over"}
                 \/ pc[u] \in {"loop", "dedup"} /\ where \in {"loop", "dedup"}
                 \/ pc[u] \in {"loop", "dedup", "cancel"} /\ where \in {"cancel", "remove"}
    BY <1>1 DEF Handshake, ReadFrame, Reject, ServeOnNil, AskDedup, SkipDedup, AskNilDedup,
       ReadError, Cancel, Goto, managerVars
  <2> QED BY <2>1, <1>t
<1>2. ASSUME NEW u \in Conns, Upgrade(u) PROVE ServeInv'
  BY <1>2, <1>t DEF Upgrade, Goto, managerVars
<1>3. ASSUME NEW u \in Conns, Register(u) PROVE ServeInv'
  <2> DEFINE old == upstreams[selfID[u]]
  <2>1. /\ pc[u] = "serve" /\ pc' = [pc EXCEPT ![u] = "loop"]
        /\ upstreams' = [upstreams EXCEPT ![selfID[u]] = u]
        /\ sock' = IF old = None THEN sock ELSE [sock EXCEPT ![old] = "closed"]
        /\ selfID' = selfID
    BY <1>3 DEF Register, Goto, managerVars
  <2>2. old # u
    BY <2>1, <1>t
  <2>3. EntriesServed'
    BY <2>1, <2>2, <1>t
  <2>4. ServedRegistered'
    BY <2>1, <2>2, <1>t
  <2>5. FreshInv'
    BY <2>1, <2>2, <1>t
  <2> QED BY <2>3, <2>4, <2>5
<1>4. ASSUME NEW u \in Conns, Remove(u) PROVE ServeInv'
  <2>1. /\ pc[u] = "remove" /\ selfID' = selfID /\ sock' = sock
        /\ \/ /\ upstreams[selfID[u]] = u
              /\ upstreams' = [upstreams EXCEPT ![selfID[u]] = None]
              /\ pc' = [pc EXCEPT ![u] = "close"]
           \/ /\ upstreams[selfID[u]] # u
              /\ upstreams' = upstreams
              /\ pc' = [pc EXCEPT ![u] = "over"]
    BY <1>4 DEF Remove, Goto, managerVars
  <2> QED BY <2>1, <1>t
<1>5. ASSUME NEW u \in Conns, CloseConn(u) PROVE ServeInv'
  BY <1>5, <1>t DEF CloseConn, Goto, managerVars
<1>6. ASSUME NEW u \in Conns, Drop(u) PROVE ServeInv'
  BY <1>6, <1>t DEF Drop, managerVars, serveVars
<1>7. ASSUME NEW u \in Conns, LoopStep(u) \/ Written(u) PROVE ServeInv'
  <2>1. UNCHANGED <<selfID, pc, sock, upstreams>>
    BY <1>7 DEF LoopStep, Take, Written, WriteFails, WriterExit, managerVars, serveVars
  <2> QED BY <2>1, ServeFrame
<1>8. CASE (\E r \in Replies : Count(r) \/ Enqueue(r))
           \/ ReloadDropsDedup \/ ReloadMakesDedup \/ Stop \/ UNCHANGED vars
  <2>1. UNCHANGED <<selfID, pc, sock, upstreams>>
    BY <1>8 DEF Count, Enqueue, ReloadDropsDedup, ReloadMakesDedup, Stop, vars,
       managerVars, serveVars
  <2> QED BY <2>1, ServeFrame
<1> QED
  BY <1>1, <1>2, <1>3, <1>4, <1>5, <1>6, <1>7, <1>8 DEF Next, HandlerStep

\* Types and registration are right in every reachable state.
LEMMA ServeCorrect == Safety => [](TypeInv /\ ServeInv)
<1>1. Init => TypeInv /\ ServeInv
  BY TypeInit, ServeInit
<1>2. TypeInv /\ ServeInv /\ [Next]_vars => TypeInv' /\ ServeInv'
  BY TypeStep, ServeStep DEF TypeInv
<1> QED BY <1>1, <1>2, PTL DEF Safety

\* Every entry of s.upstreams is under its own id, is an open or a lost
\* connection, and has a handler that is still going to remove it.
THEOREM EntriesAreServed == Safety => []EntriesServed
<1>1. ServeInv => EntriesServed
  BY DEF ServeInv
<1> QED BY <1>1, ServeCorrect, PTL

\* A connection that is open and read from is the one its self id leads to.
THEOREM ServedAreRegistered == Safety => []ServedRegistered
<1>1. ServeInv => ServedRegistered
  BY DEF ServeInv
<1> QED BY <1>1, ServeCorrect, PTL

\* An entry goes when its own handler removes it, or to a connection with its id.
LEMMA OwnEntryStep ==
    ASSUME TypeOK, [Next]_vars, NEW i \in Ids,
           upstreams[i] # None, upstreams'[i] # upstreams[i]
    PROVE  \/ pc[upstreams[i]] = "remove" /\ pc'[upstreams[i]] = "close"
           \/ upstreams'[i] # None /\ pc[upstreams'[i]] = "serve"
<1>t. /\ selfID \in [Conns -> Ids]
      /\ pc \in [Conns -> {"new", "token", "serve", "loop", "dedup", "cancel", "remove",
                           "close", "over"}]
      /\ upstreams \in [Ids -> Conns \cup {None}]
  BY DEF TypeOK
<1>1. PICK u \in Conns : Register(u) \/ Remove(u)
  BY DEF Next, HandlerStep, LoopStep, Handshake, Reject, Upgrade, ServeOnNil, AskDedup,
     SkipDedup, AskNilDedup, ReadError, Cancel, CloseConn, ReadFrame, Take, Written, WriteFails,
     WriterExit, Drop, Count, Enqueue, ReloadDropsDedup, ReloadMakesDedup, Stop, vars, serveVars
<1>2. CASE Register(u)
  BY <1>2, <1>t, RegistryAssumption DEF Register
<1>3. CASE Remove(u)
  BY <1>3, <1>t DEF Remove, Goto
<1> QED BY <1>1, <1>2, <1>3

\* The same of every step of every behaviour.
THEOREM EntriesGoByOwner == Safety => OwnEntryOnly
<1>1. TypeOK /\ [Next]_vars =>
        [\A i \in Ids : upstreams[i] # None /\ upstreams'[i] # upstreams[i] =>
            \/ pc[upstreams[i]] = "remove" /\ pc'[upstreams[i]] = "close"
            \/ upstreams'[i] # None /\ pc[upstreams'[i]] = "serve"]_vars
  BY OwnEntryStep
<1> QED BY <1>1, TypeCorrect, PTL DEF Safety, OwnEntryOnly

-----------------------------------------------------------------------------
(* Who is let go *)

\* A handler finds s.dedup nil between its two reads only after a reload.
KeepInv ==
    /\ KeptWhileConnected
    /\ \A u \in Conns : pc[u] = "dedup" /\ ~dedup => swapped

\* A handler leaves a connected upstream only past a reload: every step keeps it so.
LEMMA KeepStep == TypeOK /\ KeepInv /\ [Next]_vars => KeepInv'
<1> SUFFICES ASSUME TypeOK, KeepInv, [Next]_vars PROVE KeepInv'
    OBVIOUS
<1> USE RegistryAssumption DEF KeepInv, KeptWhileConnected
<1>t. /\ selfID \in [Conns -> Ids]
      /\ pc \in [Conns -> {"new", "token", "serve", "loop", "dedup", "cancel", "remove",
                           "close", "over"}]
      /\ sock \in [Conns -> {"none", "open", "lost", "closed"}]
      /\ upstreams \in [Ids -> Conns \cup {None}]
  BY DEF TypeOK
<1>1. ASSUME NEW u \in Conns,
             \/ Handshake(u) \/ ReadFrame(u) \/ Reject(u) \/ ServeOnNil(u) \/ AskDedup(u)
             \/ SkipDedup(u) \/ AskNilDedup(u) \/ ReadError(u) \/ Cancel(u) \/ Remove(u)
      PROVE  KeepInv'
  <2>1. /\ UNCHANGED <<dedup, swapped, sock>>
        /\ \E where \in {"token", "over", "dedup", "loop", "cancel", "remove", "close"} :
              /\ pc' = [pc EXCEPT ![u] = where]
              /\ \/ where \in {"token", "over", "loop"}
                 \/ where = "dedup" /\ dedup
                 \/ where = "cancel" /\ (sock[u] # "open" \/ (pc[u] = "dedup" /\ ~dedup))
                 \/ where \in {"remove", "close"} /\ pc[u] \in {"cancel", "remove"}
    BY <1>1 DEF Handshake, ReadFrame, Reject, ServeOnNil, AskDedup, SkipDedup, AskNilDedup,
       ReadError, Cancel, Remove, Goto, managerVars
  <2> QED BY <2>1, <1>t
<1>2. ASSUME NEW u \in Conns, Upgrade(u) \/ Register(u) \/ CloseConn(u) \/ Drop(u)
      PROVE  KeepInv'
  <2>1. /\ UNCHANGED <<dedup, swapped>>
        /\ \A w \in Conns : sock'[w] = "open" =>
              \/ sock[w] = "open" /\ (pc'[w] = pc[w] \/ pc'[w] \in {"loop", "over"})
              \/ pc'[w] = "serve"
        /\ \A w \in Conns : pc'[w] = pc[w] \/ pc'[w] \in {"loop", "over", "serve"}
    BY <1>2, <1>t DEF Upgrade, Register, CloseConn, Drop, Goto, managerVars, serveVars
  <2> QED BY <2>1
<1>3. ASSUME NEW u \in Conns, LoopStep(u) \/ Written(u) PROVE KeepInv'
  BY <1>3 DEF LoopStep, Take, Written, WriteFails, WriterExit, managerVars, serveVars
<1>4. CASE (\E r \in Replies : Count(r) \/ Enqueue(r)) \/ UNCHANGED vars
  BY <1>4 DEF Count, Enqueue, vars, managerVars, serveVars
<1>5. CASE ReloadDropsDedup \/ ReloadMakesDedup \/ Stop
  BY <1>5 DEF ReloadDropsDedup, ReloadMakesDedup, Stop, serveVars
<1> QED BY <1>1, <1>2, <1>3, <1>4, <1>5 DEF Next, HandlerStep

\* Without a reload that removes the dedup cache under it, the handler of an open
\* connection never leaves its loop.
THEOREM ConnectedAreKept == Safety => []KeptWhileConnected
<1>1. Init => KeepInv
  BY DEF Init, KeepInv, KeptWhileConnected
<1>2. KeepInv => KeptWhileConnected
  BY DEF KeepInv
<1> QED BY <1>1, <1>2, KeepStep, TypeCorrect, PTL DEF Safety

-----------------------------------------------------------------------------
(***************************************************************************)
(* What is left of a connection that is let go.  LoopsEnd needs fairness;  *)
(* that nothing can hold up the write loop it waits for does not.          *)
(***************************************************************************)
\* The write loop of a connection whose handler has returned is told to end, and no write
\* of it can block, as the connection is closed.
LoopsReleased ==
    \A u \in Conns : pc[u] = "over" /\ writer[u] \in {"idle", "writing"} =>
        u \in cancelled /\ sock[u] = "closed"

\* A handler that has lost its entry has lost it to another connection, which closed its
\* own; it leaves removeUpstream with its write loop told and its connection closed.
ReleaseInv ==
    \A u \in Conns :
        /\ pc[u] \in {"loop", "dedup", "cancel", "remove"} /\ upstreams[selfID[u]] # u =>
               sock[u] = "closed"
        /\ writer[u] # "off" => pc[u] \notin {"new", "token", "serve"}
        /\ writer[u] # "off" /\ pc[u] \in {"remove", "close", "over"} => u \in cancelled
        /\ writer[u] # "off" /\ pc[u] = "over" => sock[u] = "closed"

\* Every step keeps it.
LEMMA ReleaseStep == TypeOK /\ ReleaseInv /\ [Next]_vars => ReleaseInv'
<1> SUFFICES ASSUME TypeOK, ReleaseInv, [Next]_vars PROVE ReleaseInv'
    OBVIOUS
<1> USE RegistryAssumption DEF ReleaseInv
<1>t. /\ selfID \in [Conns -> Ids]
      /\ pc \in [Conns -> {"new", "token", "serve", "loop", "dedup", "cancel", "remove",
                           "close", "over"}]
      /\ sock \in [Conns -> {"none", "open", "lost", "closed"}]
      /\ upstreams \in [Ids -> Conns \cup {None}]
      /\ cancelled \in SUBSET Conns
      /\ writer \in [Conns -> {"off", "idle", "writing", "gone"}]
  BY DEF TypeOK
<1>1. ASSUME NEW u \in Conns,
             \/ Handshake(u) \/ ReadFrame(u) \/ Reject(u) \/ ServeOnNil(u) \/ AskDedup(u)
             \/ SkipDedup(u) \/ AskNilDedup(u) \/ ReadError(u)
      PROVE  ReleaseInv'
  <2>1. /\ UNCHANGED <<selfID, sock, upstreams, cancelled, writer>>
        /\ \E where \in {"token", "over", "dedup", "loop", "cancel"} :
              /\ pc' = [pc EXCEPT ![u] = where]
              /\ \/ pc[u] \in {"new", "token", "serve"} /\ where \in {"token", "over"}
                 \/ pc[u] \in {"loop", "dedup"} /\ where \in {"loop", "dedup", "cancel"}
    BY <1>1 DEF Handshake, ReadFrame, Reject, ServeOnNil, AskDedup, SkipDedup, AskNilDedup,
       ReadError, Goto, managerVars
  <2> QED BY <2>1, <1>t
<1>2. ASSUME NEW u \in Conns, Upgrade(u) \/ Cancel(u) \/ CloseConn(u) PROVE ReleaseInv'
  BY <1>2, <1>t DEF Upgrade, Cancel, CloseConn, Goto, managerVars
<1>3. ASSUME NEW u \in Conns, Register(u) PROVE ReleaseInv'
  <2> DEFINE old == upstreams[selfID[u]]
  <2>1. /\ pc[u] = "serve" /\ pc' = [pc EXCEPT ![u] = "loop"]
        /\ upstreams' = [upstreams EXCEPT ![selfID[u]] = u]
        /\ sock' = IF old = None THEN sock ELSE [sock EXCEPT ![old] = "closed"]
        /\ writer' = [writer EXCEPT ![u] = "idle"]
        /\ selfID' = selfID /\ cancelled' = cancelled
    BY <1>3 DEF Register, Goto, managerVars
  <2>2. /\ upstreams'[selfID[u]] = u
        /\ \A i \in Ids \ {selfID[u]} : upstreams'[i] = upstreams[i]
    BY <2>1, <1>t
  <2>3. \A w \in Conns : /\ sock'[w] \in {sock[w], "closed"}
                         /\ w = old => sock'[w] = "closed"
    BY <2>1, <1>t
  <2>4. ASSUME NEW w \in Conns \ {u}
        PROVE  pc'[w] = pc[w] /\ writer'[w] = writer[w]
    BY <2>1, <1>t
  <2>5. pc'[u] = "loop"
    BY <2>1, <1>t
  <2> HIDE DEF old
  <2> QED BY <2>1, <2>2, <2>3, <2>4, <2>5, <1>t DEF old
<1>4. ASSUME NEW u \in Conns, Remove(u) PROVE ReleaseInv'
  <2>1. /\ pc[u] = "remove" /\ selfID' = selfID
        /\ UNCHANGED <<sock, cancelled, writer>>
        /\ \/ /\ upstreams[selfID[u]] = u
              /\ upstreams' = [upstreams EXCEPT ![selfID[u]] = None]
              /\ pc' = [pc EXCEPT ![u] = "close"]
           \/ /\ upstreams[selfID[u]] # u
              /\ upstreams' = upstreams
              /\ pc' = [pc EXCEPT ![u] = "over"]
    BY <1>4 DEF Remove, Goto, managerVars
  <2> QED BY <2>1, <1>t
<1>5. ASSUME NEW u \in Conns, Drop(u) PROVE ReleaseInv'
  BY <1>5, <1>t DEF Drop, managerVars, serveVars
<1>6. ASSUME NEW u \in Conns, LoopStep(u) \/ Written(u) PROVE ReleaseInv'
  <2>1. /\ UNCHANGED <<selfID, pc, sock, upstreams, cancelled>>
        /\ \A w \in Conns : writer'[w] # "off" => writer[w] # "off"
    BY <1>6, <1>t DEF LoopStep, Take, Written, WriteFails, WriterExit, managerVars, serveVars
  <2> QED BY <2>1
<1>7. CASE (\E r \in Replies : Count(r) \/ Enqueue(r))
           \/ ReloadDropsDedup \/ ReloadMakesDedup \/ Stop \/ UNCHANGED vars
  BY <1>7 DEF Count, Enqueue, ReloadDropsDedup, ReloadMakesDedup, Stop, vars, managerVars,
     serveVars
<1> QED BY <1>1, <1>2, <1>3, <1>4, <1>5, <1>6, <1>7 DEF Next, HandlerStep

\* No write loop outlives its handler with anything to wait for.
THEOREM NoLoopLeaks == Safety => []LoopsReleased
<1>1. Init => ReleaseInv
  BY DEF Init, ReleaseInv
<1>2. ReleaseInv => LoopsReleased
  BY DEF ReleaseInv, LoopsReleased
<1> QED BY <1>1, <1>2, ReleaseStep, TypeCorrect, PTL DEF Safety

-----------------------------------------------------------------------------
(* Where a reply goes *)

\* A reply with a target is nowhere until the bot's reader has put it somewhere.
RouteInv ==
    /\ \A r \in Replies, u \in Conns :
         To[r] # All /\ reply[r] \in {"new", "counted"} => ~Carries(u, r)
    /\ Routed

\* No reply is anywhere at first.
LEMMA RouteInit == Init => RouteInv
<1> SUFFICES ASSUME Init, NEW r \in Replies, NEW u \in Conns PROVE ~Carries(u, r)
    BY DEF RouteInv, Routed
<1>1. holding[u] # r
  BY RegistryAssumption DEF Init
<1>2. r \notin written[u] /\ Len(queue[u]) = 0
  BY DEF Init
<1> QED BY <1>1, <1>2 DEF Carries

\* No step but Enqueue brings a reply to a connection: the others move it from the
\* channel to the writer, from there to the wire, or lose it.
LEMMA CarriesFrame ==
    ASSUME TypeInv, [Next]_vars, ~\E r \in Replies : Enqueue(r),
           NEW u \in Conns, NEW r \in Replies, Carries(u, r)'
    PROVE  Carries(u, r)
<1> USE DEF Carries
<1>1. CASE UNCHANGED <<queue, holding, written>>
  BY <1>1
<1>2. ASSUME NEW w \in Conns, Take(w) PROVE Carries(u, r)
  <2>1. CASE w # u
    BY <1>2, <2>1 DEF Take, TypeInv, TypeOK
  <2>2. CASE w = u
    <3>1. /\ queue[u] \in Seq(Replies) /\ queue[u] # << >>
          /\ holding'[u] = Head(queue[u]) /\ queue'[u] = Tail(queue[u])
          /\ written'[u] = written[u]
      BY <1>2, <2>2 DEF Take, TypeInv, TypeOK
    <3>2. /\ Len(queue[u]) \in Nat \ {0} /\ Head(queue[u]) = queue[u][1]
          /\ Len(Tail(queue[u])) = Len(queue[u]) - 1
          /\ \A k \in 1..Len(Tail(queue[u])) :
                Tail(queue[u])[k] = queue[u][k+1] /\ k + 1 \in 1..Len(queue[u])
      BY <3>1
    <3>3. CASE holding'[u] = r
      BY <3>1, <3>2, <3>3
    <3>4. CASE r \in written'[u]
      BY <3>1, <3>4
    <3>5. CASE \E k \in 1..Len(queue'[u]) : queue'[u][k] = r
      BY <3>1, <3>2, <3>5
    <3> QED BY <3>3, <3>4, <3>5
  <2> QED BY <2>1, <2>2
<1>3. ASSUME NEW w \in Conns, Written(w) \/ WriteFails(w) PROVE Carries(u, r)
  <2>1. /\ queue' = queue
        /\ holding'[u] \in {holding[u], NoReply}
        /\ written'[u] \in {written[u], written[u] \cup {holding[u]}}
    BY <1>3 DEF Written, WriteFails, TypeInv, TypeOK
  <2> QED BY <2>1, RegistryAssumption
<1> QED
  BY <1>1, <1>2, <1>3 DEF Next, HandlerStep, LoopStep, Handshake, Reject, Upgrade, ServeOnNil,
     Register, AskDedup, SkipDedup, AskNilDedup, ReadError, Cancel, Remove, CloseConn, ReadFrame,
     WriterExit, Drop, Count, ReloadDropsDedup, ReloadMakesDedup, Stop, vars, writerVars

\* Two connections of one self id are not both entries, so that a reply with a
\* target reaches one queue, when nobody carries it yet.
LEMMA RouteStep == TypeInv /\ RouteInv /\ [Next]_vars => RouteInv'
<1> SUFFICES ASSUME TypeInv, RouteInv, [Next]_vars PROVE RouteInv'
    OBVIOUS
<1>0. selfID' = selfID
  BY DEF Next, HandlerStep, LoopStep, Handshake, Reject, Upgrade, ServeOnNil, Register,
     AskDedup, SkipDedup, AskNilDedup, ReadError, Cancel, Remove, CloseConn, ReadFrame, Take,
     Written, WriteFails, WriterExit, Drop, Count, Enqueue, ReloadDropsDedup, ReloadMakesDedup,
     Stop, vars, managerVars
<1>1. CASE ~\E r \in Replies : Enqueue(r)
  <2>1. \A r \in Replies : reply'[r] \in {"new", "counted"} => reply[r] \in {"new", "counted"}
    BY <1>1 DEF TypeInv, TypeOK, Next, HandlerStep, LoopStep, Handshake, Reject, Upgrade,
       ServeOnNil, Register, AskDedup, SkipDedup, AskNilDedup, ReadError, Cancel, Remove,
       CloseConn, ReadFrame, Take, Written, WriteFails, WriterExit, Drop, Count,
       ReloadDropsDedup, ReloadMakesDedup, Stop, vars
  <2>2. \A u \in Conns, r \in Replies : Carries(u, r)' => Carries(u, r)
    BY <1>1, CarriesFrame
  <2> QED BY <1>0, <2>1, <2>2 DEF RouteInv, Routed
<1>2. ASSUME NEW q \in Replies, Enqueue(q) PROVE RouteInv'
  <2>1. ASSUME NEW u \in Conns, NEW r \in Replies, Carries(u, r)', To[r] # All
        PROVE  \/ Carries(u, r)
               \/ r = q /\ upstreams[selfID[u]] = u /\ selfID[u] = To[q]
    <3>1. /\ holding' = holding /\ written' = written
          /\ \/ queue'[u] = queue[u]
             \/ queue'[u] = Append(queue[u], q) /\ u \in Wanted(q)
      BY <1>2 DEF Enqueue, writerVars
    <3>2. queue[u] \in Seq(Replies)
      BY DEF TypeInv, TypeOK
    <3>3. ASSUME queue'[u] = Append(queue[u], q), NEW k \in 1..Len(queue'[u]), queue'[u][k] = r
          PROVE  r = q \/ \E j \in 1..Len(queue[u]) : queue[u][j] = r
      BY <3>2, <3>3
    <3> QED BY <2>1, <3>1, <3>3 DEF Carries, Wanted, Registered
  <2>2. /\ reply[q] = "counted"
        /\ \A r \in Replies : reply'[r] \in {"new", "counted"} =>
              r # q /\ reply[r] \in {"new", "counted"}
    BY <1>2 DEF Enqueue, TypeInv, TypeOK
  <2> QED BY <1>0, <2>1, <2>2 DEF RouteInv, Routed
<1> QED BY <1>1, <1>2

\* A reply with a target is put to one connection at most, of that self id.
THEOREM RepliesAreRouted == Safety => []Routed
<1>1. Init => TypeInv /\ RouteInv
  BY TypeInit, RouteInit
<1>2. TypeInv /\ RouteInv /\ [Next]_vars => TypeInv' /\ RouteInv'
  BY TypeStep, RouteStep
<1>3. RouteInv => Routed
  BY DEF RouteInv
<1> QED BY <1>1, <1>2, <1>3, PTL DEF Safety
=============================================================================

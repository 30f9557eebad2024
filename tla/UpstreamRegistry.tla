-------------------------- MODULE UpstreamRegistry --------------------------
(***************************************************************************)
(* The upstream side of the gateway: Manager.handleUpstream of manager.go  *)
(* and wsServer.serve, removeUpstream, writeMessage and upstreamWriteLoop  *)
(* of server.go.  A connection is one handshake that an upstream makes     *)
(* under a self id; a later one with the same id replaces it.  What bots   *)
(* send back is a reply: its target is a self id, or All if it names none. *)
(*                                                                         *)
(* serve and handleUpstream read s.dedup and m.server without a lock and   *)
(* more than once, while Reload and Stop set them to nil, so each read is  *)
(* a step.  Their panics are recovered by net/http, after the deferred     *)
(* removeUpstream.                                                         *)
(***************************************************************************)
EXTENDS Integers, Sequences, FiniteSets

CONSTANTS
    Conns,      \* the connections upstreams make while we look
    Ids,        \* self ids
    Replies,    \* the messages bots send
    To,         \* the self id each reply names, or All
    All,        \* it names none
    None,       \* no connection
    QueueCap    \* capacity of an upstream's writeChan, 64 in the code

NoReply == "none"   \* an idle write loop holds this

ASSUME RegistryAssumption ==
    /\ NoReply \notin Replies
    /\ To \in [Replies -> Ids \cup {All}]
    /\ All \notin Ids
    /\ None \notin Conns
    /\ QueueCap \in Nat \ {0}

VARIABLES
    selfID,     \* the self id that each connection's handshake carries
    server,     \* m.server is not nil
    dedup,      \* s.dedup is not nil
    swapped,    \* history: a reload has set s.dedup to nil
    pc,         \* where the handler of each connection is
    sock,       \* the state of the connection itself
    upstreams,  \* s.upstreams
    cancelled,  \* the connections whose inner context is cancelled
    writer,     \* the write loop of each connection
    holding,    \* the reply it is writing
    queue,      \* u.writeChan
    written,    \* the replies written to the connection while it was open
    reply       \* how far the bot's reader is with each reply

managerVars == <<server, dedup, swapped, selfID>>
serveVars   == <<pc, upstreams, cancelled>>
writerVars  == <<holding, written>>
vars == <<managerVars, serveVars, writerVars, sock, writer, queue, reply>>

TypeOK ==
    /\ selfID \in [Conns -> Ids]
    /\ server \in BOOLEAN
    /\ dedup \in BOOLEAN
    /\ swapped \in BOOLEAN
    /\ pc \in [Conns -> {"new", "token", "serve", "loop", "dedup", "cancel", "remove",
                         "close", "over"}]
    /\ sock \in [Conns -> {"none", "open", "lost", "closed"}]
    /\ upstreams \in [Ids -> Conns \cup {None}]
    /\ cancelled \in SUBSET Conns
    /\ writer \in [Conns -> {"off", "idle", "writing", "gone"}]
    /\ holding \in [Conns -> Replies \cup {NoReply}]
    /\ queue \in [Conns -> Seq(Replies)]
    /\ \A u \in Conns : Len(queue[u]) <= QueueCap
    /\ written \in [Conns -> SUBSET Replies]
    /\ reply \in [Replies -> {"new", "counted", "ok", "failed"}]

\* Start has made the server; dedup is as configured.
Init ==
    /\ selfID \in [Conns -> Ids]
    /\ server = TRUE
    /\ dedup \in BOOLEAN
    /\ swapped = FALSE
    /\ pc = [u \in Conns |-> "new"]
    /\ sock = [u \in Conns |-> "none"]
    /\ upstreams = [i \in Ids |-> None]
    /\ cancelled = {}
    /\ writer = [u \in Conns |-> "off"]
    /\ holding = [u \in Conns |-> NoReply]
    /\ queue = [u \in Conns |-> << >>]
    /\ written = [u \in Conns |-> {}]
    /\ reply = [r \in Replies |-> "new"]

Goto(u, where) == pc' = [pc EXCEPT ![u] = where]

-----------------------------------------------------------------------------
(* handleUpstream *)

\* No server: 503.
Handshake(u) ==
    /\ pc[u] = "new"
    /\ Goto(u, IF server THEN "token" ELSE "over")
    /\ UNCHANGED <<managerVars, upstreams, cancelled, writerVars, sock, writer, queue, reply>>

\* A wrong token, or a failed upgrade.
Reject(u) ==
    /\ pc[u] = "token"
    /\ Goto(u, "over")
    /\ UNCHANGED <<managerVars, upstreams, cancelled, writerVars, sock, writer, queue, reply>>

Upgrade(u) ==
    /\ pc[u] = "token"
    /\ sock' = [sock EXCEPT ![u] = "open"]
    /\ Goto(u, "serve")
    /\ UNCHANGED <<managerVars, upstreams, cancelled, writerVars, writer, queue, reply>>

\* m.server is read again and is nil: the connection is left to the peer.
ServeOnNil(u) ==
    /\ pc[u] = "serve" /\ ~server
    /\ Goto(u, "over")
    /\ UNCHANGED <<managerVars, upstreams, cancelled, writerVars, sock, writer, queue, reply>>

-----------------------------------------------------------------------------
(* serve *)

\* Mutant: a replaced connection is not closed.
RegisterKeepsOld(u) ==
    /\ pc[u] = "serve" /\ server
    /\ upstreams' = [upstreams EXCEPT ![selfID[u]] = u]
    /\ writer' = [writer EXCEPT ![u] = "idle"]
    /\ Goto(u, "loop")
    /\ UNCHANGED <<managerVars, cancelled, writerVars, sock, queue, reply>>

\* Under s.mu: close the connection that has the id, and take its place.
Register(u) ==
    /\ pc[u] = "serve" /\ server
    /\ LET old == upstreams[selfID[u]]
       IN  sock' = IF old = None THEN sock ELSE [sock EXCEPT ![old] = "closed"]
    /\ upstreams' = [upstreams EXCEPT ![selfID[u]] = u]
    /\ writer' = [writer EXCEPT ![u] = "idle"]
    /\ Goto(u, "loop")
    /\ UNCHANGED <<managerVars, cancelled, writerVars, queue, reply>>

\* Mutant: no test for nil.
ReadFrameUntested(u) ==
    /\ pc[u] = "loop" /\ sock[u] = "open"
    /\ Goto(u, "dedup")
    /\ UNCHANGED <<managerVars, upstreams, cancelled, writerVars, sock, writer, queue, reply>>

\* A frame arrives while dedup is on.  (With dedup off it is broadcast at once,
\* which changes nothing here.)
ReadFrame(u) ==
    /\ pc[u] = "loop" /\ sock[u] = "open"
    /\ dedup
    /\ Goto(u, "dedup")
    /\ UNCHANGED <<managerVars, upstreams, cancelled, writerVars, sock, writer, queue, reply>>

\* s.dedup.IsDup: the frame is broadcast, or skipped.
AskDedup(u) ==
    /\ pc[u] = "dedup" /\ dedup
    /\ Goto(u, "loop")
    /\ UNCHANGED <<managerVars, upstreams, cancelled, writerVars, sock, writer, queue, reply>>

\* A frame that is no group message is broadcast without a second read.
SkipDedup(u) ==
    /\ pc[u] = "dedup"
    /\ Goto(u, "loop")
    /\ UNCHANGED <<managerVars, upstreams, cancelled, writerVars, sock, writer, queue, reply>>

\* Mutant: removeUpstream is not deferred.
AskNilDedupNoDefer(u) ==
    /\ pc[u] = "dedup" /\ ~dedup
    /\ Goto(u, "over")
    /\ UNCHANGED <<managerVars, upstreams, cancelled, writerVars, sock, writer, queue, reply>>

\* s.dedup is nil by now: a panic, and the deferred removeUpstream.
AskNilDedup(u) ==
    /\ pc[u] = "dedup" /\ ~dedup
    /\ Goto(u, "cancel")
    /\ UNCHANGED <<managerVars, upstreams, cancelled, writerVars, sock, writer, queue, reply>>

ReadError(u) ==
    /\ pc[u] = "loop" /\ sock[u] # "open"
    /\ Goto(u, "cancel")
    /\ UNCHANGED <<managerVars, upstreams, cancelled, writerVars, sock, writer, queue, reply>>

-----------------------------------------------------------------------------
(* removeUpstream *)

\* Mutant: the write loop is not told.
CancelNothing(u) ==
    /\ pc[u] = "cancel"
    /\ Goto(u, "remove")
    /\ UNCHANGED <<managerVars, upstreams, cancelled, writerVars, sock, writer, queue, reply>>

Cancel(u) ==
    /\ pc[u] = "cancel"
    /\ cancelled' = cancelled \cup {u}
    /\ Goto(u, "remove")
    /\ UNCHANGED <<managerVars, upstreams, writerVars, sock, writer, queue, reply>>

\* Mutant: removes whatever has the id.
RemoveAny(u) ==
    /\ pc[u] = "remove"
    /\ upstreams' = [upstreams EXCEPT ![selfID[u]] = None]
    /\ Goto(u, IF upstreams[selfID[u]] = u THEN "close" ELSE "over")
    /\ UNCHANGED <<managerVars, cancelled, writerVars, sock, writer, queue, reply>>

\* Only the entry that is still its own.
Remove(u) ==
    /\ pc[u] = "remove"
    /\ LET own == upstreams[selfID[u]] = u
       IN  /\ upstreams' = IF own THEN [upstreams EXCEPT ![selfID[u]] = None] ELSE upstreams
           /\ Goto(u, IF own THEN "close" ELSE "over")
    /\ UNCHANGED <<managerVars, cancelled, writerVars, sock, writer, queue, reply>>

CloseConn(u) ==
    /\ pc[u] = "close"
    /\ sock' = [sock EXCEPT ![u] = "closed"]
    /\ Goto(u, "over")
    /\ UNCHANGED <<managerVars, upstreams, cancelled, writerVars, writer, queue, reply>>

-----------------------------------------------------------------------------
(* upstreamWriteLoop *)

Take(u) ==
    /\ writer[u] = "idle" /\ queue[u] # << >>
    /\ holding' = [holding EXCEPT ![u] = Head(queue[u])]
    /\ queue' = [queue EXCEPT ![u] = Tail(@)]
    /\ writer' = [writer EXCEPT ![u] = "writing"]
    /\ UNCHANGED <<managerVars, serveVars, sock, written, reply>>

\* A write succeeds only on an open connection; one to a peer that does not read
\* lasts until the connection is closed.
Written(u) ==
    /\ writer[u] = "writing" /\ sock[u] = "open"
    /\ written' = [written EXCEPT ![u] = @ \cup {holding[u]}]
    /\ holding' = [holding EXCEPT ![u] = NoReply]
    /\ writer' = [writer EXCEPT ![u] = "idle"]
    /\ UNCHANGED <<managerVars, serveVars, sock, queue, reply>>

WriteFails(u) ==
    /\ writer[u] = "writing" /\ sock[u] # "open"
    /\ holding' = [holding EXCEPT ![u] = NoReply]
    /\ writer' = [writer EXCEPT ![u] = "idle"]
    /\ UNCHANGED <<managerVars, serveVars, sock, written, queue, reply>>

WriterExit(u) ==
    /\ writer[u] = "idle" /\ u \in cancelled
    /\ writer' = [writer EXCEPT ![u] = "gone"]
    /\ UNCHANGED <<managerVars, serveVars, writerVars, sock, queue, reply>>

-----------------------------------------------------------------------------
(* writeMessage, called by the reader of a bot's connection *)

Registered == {u \in Conns : upstreams[selfID[u]] = u}

Count(r) ==
    /\ reply[r] = "new"
    /\ reply' = [reply EXCEPT ![r] = IF Registered = {} THEN "failed" ELSE "counted"]
    /\ UNCHANGED <<managerVars, serveVars, writerVars, sock, writer, queue>>

\* Mutant: a target that is not connected falls back to everyone.
WantedOrAll(r) ==
    IF \E u \in Registered : selfID[u] = To[r]
      THEN {u \in Registered : selfID[u] = To[r]} ELSE Registered

\* Those the reply is for.
Wanted(r) == {u \in Registered : To[r] \in {selfID[u], All}}

HasRoom(u) == Len(queue[u]) < QueueCap

\* Mutant: the room is not looked at.
EnqueueUnbounded(r) ==
    /\ reply[r] = "counted"
    /\ queue' = [u \in Conns |-> IF u \in Wanted(r) THEN Append(queue[u], r) ELSE queue[u]]
    /\ reply' = [reply EXCEPT ![r] = "ok"]
    /\ UNCHANGED <<managerVars, serveVars, writerVars, sock, writer>>

\* The second look at s.upstreams, under the lock to the end.  A full channel
\* loses the reply; with no target, the others get it all the same.
Enqueue(r) ==
    /\ reply[r] = "counted"
    /\ queue' = [u \in Conns |->
                   IF u \in Wanted(r) /\ HasRoom(u) THEN Append(queue[u], r) ELSE queue[u]]
    /\ reply' = [reply EXCEPT ![r] =
                   IF (\A u \in Wanted(r) : HasRoom(u)) /\ (Wanted(r) # {} \/ To[r] = All)
                     THEN "ok" ELSE "failed"]
    /\ UNCHANGED <<managerVars, serveVars, writerVars, sock, writer>>

-----------------------------------------------------------------------------
(* The peer, and the manager *)

Drop(u) ==
    /\ sock[u] = "open"
    /\ sock' = [sock EXCEPT ![u] = "lost"]
    /\ UNCHANGED <<managerVars, serveVars, writerVars, writer, queue, reply>>

ReloadDropsDedup ==
    /\ server /\ dedup
    /\ dedup' = FALSE
    /\ swapped' = TRUE
    /\ UNCHANGED <<server, selfID, serveVars, writerVars, sock, writer, queue, reply>>

ReloadMakesDedup ==
    /\ server /\ ~dedup
    /\ dedup' = TRUE
    /\ UNCHANGED <<server, swapped, selfID, serveVars, writerVars, sock, writer, queue, reply>>

\* Shutdown leaves upgraded connections alone, and so does Stop.
Stop ==
    /\ server
    /\ server' = FALSE
    /\ UNCHANGED <<dedup, swapped, selfID, serveVars, writerVars, sock, writer, queue, reply>>

-----------------------------------------------------------------------------

HandlerStep(u) ==
    Reject(u) \/ Upgrade(u) \/ ServeOnNil(u) \/ Register(u) \/ AskDedup(u) \/ SkipDedup(u)
    \/ AskNilDedup(u) \/ ReadError(u) \/ Cancel(u) \/ Remove(u) \/ CloseConn(u)

LoopStep(u) == Take(u) \/ WriteFails(u) \/ WriterExit(u)

Next ==
    \/ \E u \in Conns :
         \/ Handshake(u) \/ HandlerStep(u) \/ ReadFrame(u)
         \/ LoopStep(u) \/ Written(u) \/ Drop(u)
    \/ \E r \in Replies : Count(r) \/ Enqueue(r)
    \/ ReloadDropsDedup \/ ReloadMakesDedup \/ Stop

Safety == Init /\ [][Next]_vars

\* Goroutines that can run are scheduled.  Nothing is asked of the peer: it need
\* not send, read or go away.
Fairness == \A u \in Conns : WF_vars(HandlerStep(u)) /\ WF_vars(LoopStep(u))

Spec == Safety /\ Fairness

-----------------------------------------------------------------------------
(* Properties *)

\* An entry of s.upstreams is under the id of its connection, and somebody is
\* going to remove it: its handler has not passed removeUpstream, so that no
\* entry outlives its connection for good.  (Until then writeMessage may still
\* find it: what it is handed for a connection that is lost is lost.)
EntriesServed ==
    \A i \in Ids : upstreams[i] # None =>
        LET u == upstreams[i]
        IN  /\ selfID[u] = i
            /\ pc[u] \in {"loop", "dedup", "cancel", "remove"}
            /\ sock[u] \in {"open", "lost"}

\* The other way round, a connection that is read from is the one that replies
\* reach: of several connections with one id all but the newest are closed.
ServedRegistered ==
    \A u \in Conns :
        pc[u] \in {"loop", "dedup"} /\ sock[u] = "open" => upstreams[selfID[u]] = u

\* An entry disappears when its own handler removes it, or another connection
\* with its id takes its place.
OwnEntryOnly ==
    [][\A i \in Ids : upstreams[i] # None /\ upstreams'[i] # upstreams[i] =>
          \/ pc[upstreams[i]] = "remove" /\ pc'[upstreams[i]] = "close"
          \/ upstreams'[i] # None /\ pc[upstreams'[i]] = "serve"]_vars

\* A reply with a target is put to at most one connection, and only to one of
\* that self id, whoever replaced whom in the meantime.
Carries(u, r) ==
    holding[u] = r \/ r \in written[u] \/ \E k \in 1..Len(queue[u]) : queue[u][k] = r

Routed ==
    \A r \in Replies : To[r] # All =>
        \A u, w \in Conns : Carries(u, r) =>
            selfID[u] = To[r] /\ (Carries(w, r) => u = w)

\* While no reload has replaced the dedup cache the gateway does not let go of an
\* upstream that is connected.
KeptWhileConnected ==
    \A u \in Conns :
        pc[u] \in {"cancel", "remove", "close"} /\ sock[u] = "open" => swapped

\* The handler and the write loop of a connection that is lost or replaced end,
\* also a write that the peer had blocked.
LoopsEnd ==
    \A u \in Conns :
        sock[u] \in {"lost", "closed"} ~> pc[u] = "over" /\ writer[u] \in {"off", "gone"}
=============================================================================

-------------------------- MODULE DownstreamClient --------------------------
(***************************************************************************)
(* One wsClient of internal/filter/client.go in its normal transport: the  *)
(* goroutine run that dials the bot again and again, the reader and the    *)
(* writer goroutine it starts for every session, the one goroutine per     *)
(* message that wsServer.broadcastToClients starts to call c.write, and    *)
(* the two ways the owner ends it (close(c.stop), the parent context).     *)
(*                                                                         *)
(* A session is one successful Dial, numbered from 1; conn holds the       *)
(* number of the session c.conn points to, 0 for nil.  c.conn is a plain   *)
(* field that run writes and every writer reads without a lock, so each    *)
(* read of it is a step of its own.  A message is one frame received from  *)
(* an upstream; Blocked are those that parse as a OneBot message with a    *)
(* raw_message and that the filter refuses.                                *)
(***************************************************************************)
EXTENDS Integers, Sequences, FiniteSets

CONSTANTS
    Msgs,         \* the frames upstreams send while we look
    NoMsg,        \* no frame
    Blocked,      \* those c.filter.Allow refuses
    MaxSession,   \* bound: how many connections the bot accepts and we add
    QueueCap      \* capacity of writeChan, 64 in the code

ASSUME ClientAssumption ==
    /\ NoMsg \notin Msgs
    /\ Blocked \subseteq Msgs
    /\ MaxSession \in Nat \ {0}
    /\ QueueCap \in Nat \ {0}

VARIABLES
    runner,       \* where the goroutine run is
    leaving,      \* the teardown under way ends in return (stop, parent done)
    session,      \* number of the latest connection of run
    conn,         \* c.conn: a session, 0 for nil
    sock,         \* state of each session's connection
    connected,    \* c.connected
    registered,   \* c is in server.clients
    rival,        \* another client of the same name is in server.clients
    announced,    \* the last of client_up and client_down that c published
    stop,         \* c.stop is closed
    parentDone,   \* the context given to run is done
    cancelled,    \* sessions whose own context run has cancelled
    reader,       \* the reader goroutine of each session
    writer,       \* the writer goroutine of each session
    holding,      \* the message each writer has in hand
    target,       \* the connection each writer is writing to, if it is
    queue,        \* c.writeChan
    fwd,          \* the goroutine of broadcastToClients that carries a message
    sent,         \* how often a message was written to an open connection
    fault         \* the panic that killed the process, if any

runVars  == <<runner, leaving, session, conn, sock, connected, registered,
              announced, cancelled>>
askVars  == <<stop, parentDone>>
loopVars == <<reader, writer, holding, target>>
msgVars  == <<queue, fwd, sent>>
vars     == <<runVars, askVars, loopVars, msgVars, rival, fault>>

Sessions == 1..MaxSession
NoConn   == 0

Quitting == stop \/ parentDone

\* ctx.Done() of a session: its own cancel, or the parent it was derived from.
CtxDone(s) == s \in cancelled \/ parentDone

\* A writer has a message in hand from the receive to the end of handleWrite.
Busy == {"got", "checked", "writing"}

Waits(q, m) == \E i \in 1..Len(q) : q[i] = m
Queued(m)   == Waits(queue, m)

FlagsOK ==
    /\ leaving \in BOOLEAN
    /\ connected \in BOOLEAN
    /\ registered \in BOOLEAN
    /\ rival \in BOOLEAN
    /\ stop \in BOOLEAN
    /\ parentDone \in BOOLEAN

DataOK ==
    /\ runner \in {"head", "dial", "flag", "add", "forget", "unflag", "start", "up",
                   "cancel", "close", "remove", "clear", "nil", "sleep", "done"}
    /\ session \in 0..MaxSession
    /\ conn \in 0..MaxSession
    /\ sock \in [Sessions -> {"unused", "open", "lost", "closed"}]
    /\ announced \in {"up", "down"}
    /\ cancelled \in SUBSET (0..MaxSession)
    /\ reader \in [Sessions -> {"off", "reading", "failed"}]
    /\ writer \in [Sessions -> {"off", "idle", "got", "checked", "writing", "gone"}]
    /\ holding \in [Sessions -> Msgs \cup {NoMsg}]
    /\ target \in [Sessions -> 0..MaxSession]
    /\ queue \in Seq(Msgs)
    /\ Len(queue) <= QueueCap
    /\ fwd \in [Msgs -> {"new", "spawned", "checked", "over"}]
    /\ sent \in [Msgs -> Nat]
    /\ fault \in {"none", "nilconn", "concurrent"}

\* The types of the fields; writeChan holds no more than its capacity.
TypeOK == FlagsOK /\ DataOK

\* newWsClient, then `go c.run(...)`.
Init ==
    /\ runner = "head"
    /\ leaving = FALSE
    /\ session = 0
    /\ conn = NoConn
    /\ sock = [s \in Sessions |-> "unused"]
    /\ connected = FALSE
    /\ registered = FALSE
    /\ rival \in BOOLEAN
    /\ announced = "down"
    /\ stop = FALSE
    /\ parentDone = FALSE
    /\ cancelled = {}
    /\ reader = [s \in Sessions |-> "off"]
    /\ writer = [s \in Sessions |-> "off"]
    /\ holding = [s \in Sessions |-> NoMsg]
    /\ target = [s \in Sessions |-> NoConn]
    /\ queue = << >>
    /\ fwd = [m \in Msgs |-> "new"]
    /\ sent = [m \in Msgs |-> 0]
    /\ fault = "none"

-----------------------------------------------------------------------------
(* run: the connection loop *)

\* Mutant: the loop does not look at stop and parent before it dials.
TryAnyway ==
    /\ runner = "head"
    /\ runner' = "dial"
    /\ UNCHANGED <<leaving, session, conn, sock, connected, registered, announced,
                   cancelled, rival, fault, askVars, loopVars, msgVars>>

TryOrReturn ==
    /\ runner = "head"
    /\ runner' = IF Quitting THEN "done" ELSE "dial"
    /\ UNCHANGED <<leaving, session, conn, sock, connected, registered, announced,
                   cancelled, rival, fault, askVars, loopVars, msgVars>>

\* Dial is not interrupted by stop or parent: it returns when the bot answers
\* or the handshake times out.  Bound: the last connection is not used up by a
\* refusal, so it is only made once no rival is left.
DialOK ==
    /\ runner = "dial"
    /\ session < MaxSession
    /\ rival => session + 1 < MaxSession
    /\ session' = session + 1
    /\ conn' = session + 1
    /\ sock' = [sock EXCEPT ![session + 1] = "open"]
    /\ runner' = "flag"
    /\ UNCHANGED <<leaving, connected, registered, announced, cancelled,
                   rival, fault, askVars, loopVars, msgVars>>

DialFail ==
    /\ runner = "dial"
    /\ runner' = "sleep"
    /\ UNCHANGED <<leaving, session, conn, sock, connected, registered, announced,
                   cancelled, rival, fault, askVars, loopVars, msgVars>>

SetConnected ==
    /\ runner = "flag"
    /\ connected' = TRUE
    /\ runner' = "add"
    /\ UNCHANGED <<leaving, session, conn, sock, registered, announced, cancelled,
                   rival, fault, askVars, loopVars, msgVars>>

AddClient ==
    /\ runner = "add" /\ ~rival
    /\ registered' = TRUE
    /\ runner' = "start"
    /\ UNCHANGED <<leaving, session, conn, sock, connected, announced, cancelled,
                   rival, fault, askVars, loopVars, msgVars>>

\* addClient reports a client of the same name: close, forget, try later.
AddRefused ==
    /\ runner = "add" /\ rival
    /\ sock' = [sock EXCEPT ![session] = "closed"]
    /\ runner' = "forget"
    /\ UNCHANGED <<leaving, session, conn, connected, registered, announced, cancelled,
                   rival, fault, askVars, loopVars, msgVars>>

ForgetRefused ==
    /\ runner = "forget"
    /\ conn' = NoConn
    /\ runner' = "unflag"
    /\ UNCHANGED <<leaving, session, sock, connected, registered, announced, cancelled,
                   rival, fault, askVars, loopVars, msgVars>>

UnflagRefused ==
    /\ runner = "unflag"
    /\ connected' = FALSE
    /\ runner' = "sleep"
    /\ UNCHANGED <<leaving, session, conn, sock, registered, announced, cancelled,
                   rival, fault, askVars, loopVars, msgVars>>

\* Mutant: the writer is started for the first session only.
StartLoopsOneWriter ==
    /\ runner = "start"
    /\ announced' = "up"
    /\ reader' = [reader EXCEPT ![session] = "reading"]
    /\ writer' = IF session = 1 THEN [writer EXCEPT ![session] = "idle"] ELSE writer
    /\ runner' = "up"
    /\ UNCHANGED <<leaving, session, conn, sock, connected, registered, cancelled,
                   holding, target, rival, fault, askVars, msgVars>>

StartLoops ==
    /\ runner = "start"
    /\ announced' = "up"
    /\ reader' = [reader EXCEPT ![session] = "reading"]
    /\ writer' = [writer EXCEPT ![session] = "idle"]
    /\ runner' = "up"
    /\ UNCHANGED <<leaving, session, conn, sock, connected, registered, cancelled,
                   holding, target, rival, fault, askVars, msgVars>>

\* Mutant: a lost session's context is not cancelled.
LoseNoCancel ==
    /\ runner = "up" /\ reader[session] = "failed"
    /\ leaving' = FALSE
    /\ runner' = "close"
    /\ UNCHANGED <<session, conn, sock, connected, registered, announced, cancelled,
                   rival, fault, askVars, loopVars, msgVars>>

\* The select of run takes any ready case.
Lose ==
    /\ runner = "up" /\ reader[session] = "failed"
    /\ leaving' = FALSE
    /\ runner' = "cancel"
    /\ UNCHANGED <<session, conn, sock, connected, registered, announced, cancelled,
                   rival, fault, askVars, loopVars, msgVars>>

\* Mutant: returns at once.
QuitNoTeardown ==
    /\ runner = "up" /\ Quitting
    /\ leaving' = TRUE
    /\ runner' = "done"
    /\ UNCHANGED <<session, conn, sock, connected, registered, announced, cancelled,
                   rival, fault, askVars, loopVars, msgVars>>

Quit ==
    /\ runner = "up" /\ Quitting
    /\ leaving' = TRUE
    /\ runner' = "cancel"
    /\ UNCHANGED <<session, conn, sock, connected, registered, announced, cancelled,
                   rival, fault, askVars, loopVars, msgVars>>

\* Mutant: no call of cancel.
CancelNothing ==
    /\ runner = "cancel"
    /\ runner' = "close"
    /\ UNCHANGED <<leaving, session, conn, sock, connected, registered, announced,
                   cancelled, rival, fault, askVars, loopVars, msgVars>>

Cancel ==
    /\ runner = "cancel"
    /\ cancelled' = cancelled \cup {session}
    /\ runner' = "close"
    /\ UNCHANGED <<leaving, session, conn, sock, connected, registered, announced,
                   rival, fault, askVars, loopVars, msgVars>>

\* Mutant: c.conn is cleared together with Close, before removeClient.
CloseConnForget ==
    /\ runner = "close"
    /\ sock' = [sock EXCEPT ![session] = "closed"]
    /\ conn' = NoConn
    /\ runner' = "remove"
    /\ UNCHANGED <<leaving, session, connected, registered, announced, cancelled,
                   rival, fault, askVars, loopVars, msgVars>>

CloseConn ==
    /\ runner = "close"
    /\ sock' = [sock EXCEPT ![session] = "closed"]
    /\ runner' = "remove"
    /\ UNCHANGED <<leaving, session, conn, connected, registered, announced, cancelled,
                   rival, fault, askVars, loopVars, msgVars>>

RemoveClient ==
    /\ runner = "remove"
    /\ registered' = FALSE
    /\ runner' = "clear"
    /\ UNCHANGED <<leaving, session, conn, sock, connected, announced, cancelled,
                   rival, fault, askVars, loopVars, msgVars>>

ClearConnected ==
    /\ runner = "clear"
    /\ connected' = FALSE
    /\ runner' = "nil"
    /\ UNCHANGED <<leaving, session, conn, sock, registered, announced, cancelled,
                   rival, fault, askVars, loopVars, msgVars>>

\* Mutant: no client_down.
ForgetConnSilently ==
    /\ runner = "nil"
    /\ conn' = NoConn
    /\ runner' = IF leaving THEN "done" ELSE "sleep"
    /\ UNCHANGED <<leaving, session, sock, connected, registered, announced, cancelled,
                   rival, fault, askVars, loopVars, msgVars>>

\* Only the teardown of a lost session publishes client_down.
ForgetConn ==
    /\ runner = "nil"
    /\ conn' = NoConn
    /\ announced' = IF leaving THEN announced ELSE "down"
    /\ runner' = IF leaving THEN "done" ELSE "sleep"
    /\ UNCHANGED <<leaving, session, sock, connected, registered, cancelled,
                   rival, fault, askVars, loopVars, msgVars>>

\* Mutant: takes the end of the pause for the order to return.
SleepOverReturn ==
    /\ runner = "sleep"
    /\ runner' = "done"
    /\ UNCHANGED <<leaving, session, conn, sock, connected, registered, announced,
                   cancelled, rival, fault, askVars, loopVars, msgVars>>

SleepOver ==
    /\ runner = "sleep"
    /\ runner' = "head"
    /\ UNCHANGED <<leaving, session, conn, sock, connected, registered, announced,
                   cancelled, rival, fault, askVars, loopVars, msgVars>>

SleepQuit ==
    /\ runner = "sleep" /\ Quitting
    /\ runner' = "done"
    /\ UNCHANGED <<leaving, session, conn, sock, connected, registered, announced,
                   cancelled, rival, fault, askVars, loopVars, msgVars>>

RunnerStep ==
    \/ TryOrReturn \/ DialOK \/ DialFail \/ SetConnected \/ AddClient \/ AddRefused
    \/ ForgetRefused \/ UnflagRefused \/ StartLoops \/ Lose \/ Quit \/ Cancel
    \/ CloseConn \/ RemoveClient \/ ClearConnected \/ ForgetConn \/ SleepOver \/ SleepQuit

-----------------------------------------------------------------------------
(* The reader of a session *)

\* Bound: the last connection is not lost.
Drop(s) ==
    /\ sock[s] = "open" /\ session < MaxSession
    /\ sock' = [sock EXCEPT ![s] = "lost"]
    /\ UNCHANGED <<runner, leaving, session, conn, connected, registered, announced,
                   cancelled, rival, fault, askVars, loopVars, msgVars>>

\* Mutant: readErr has no buffer, so the reader waits for run to listen.
ReadFailUnbuffered(s) ==
    /\ reader[s] = "reading" /\ sock[s] # "open"
    /\ runner = "up" /\ session = s
    /\ reader' = [reader EXCEPT ![s] = "failed"]
    /\ UNCHANGED <<runVars, writer, holding, target, rival, fault, askVars, msgVars>>

\* readErr has room for one error, so the reader ends whoever listens.
ReadFail(s) ==
    /\ reader[s] = "reading" /\ sock[s] # "open"
    /\ reader' = [reader EXCEPT ![s] = "failed"]
    /\ UNCHANGED <<runVars, writer, holding, target, rival, fault, askVars, msgVars>>

-----------------------------------------------------------------------------
(* writeLoop and handleWrite *)

Take(s) ==
    /\ writer[s] = "idle" /\ queue # << >>
    /\ writer' = [writer EXCEPT ![s] = "got"]
    /\ holding' = [holding EXCEPT ![s] = Head(queue)]
    /\ queue' = Tail(queue)
    /\ UNCHANGED <<runVars, reader, target, fwd, sent, rival, fault, askVars>>

WriterExit(s) ==
    /\ writer[s] = "idle" /\ CtxDone(s)
    /\ writer' = [writer EXCEPT ![s] = "gone"]
    /\ UNCHANGED <<runVars, reader, holding, target, rival, fault, askVars, msgVars>>

\* No connection, or the filter refuses the message.
Discard(s) ==
    /\ writer[s] = "got"
    /\ conn = NoConn \/ holding[s] \in Blocked
    /\ writer' = [writer EXCEPT ![s] = "idle"]
    /\ holding' = [holding EXCEPT ![s] = NoMsg]
    /\ UNCHANGED <<runVars, reader, target, rival, fault, askVars, msgVars>>

\* Mutant: the verdict of the filter is ignored.
PassUnfiltered(s) ==
    /\ writer[s] = "got"
    /\ conn # NoConn
    /\ writer' = [writer EXCEPT ![s] = "checked"]
    /\ UNCHANGED <<runVars, reader, holding, target, rival, fault, askVars, msgVars>>

PassChecks(s) ==
    /\ writer[s] = "got"
    /\ conn # NoConn /\ holding[s] \notin Blocked
    /\ writer' = [writer EXCEPT ![s] = "checked"]
    /\ UNCHANGED <<runVars, reader, holding, target, rival, fault, askVars, msgVars>>

\* c.conn is read a second time, for the receiver of WriteJSON or WriteMessage.
BeginWrite(s) ==
    /\ writer[s] = "checked" /\ conn # NoConn
    /\ writer' = [writer EXCEPT ![s] = "writing"]
    /\ target' = [target EXCEPT ![s] = conn]
    /\ UNCHANGED <<runVars, reader, holding, rival, fault, askVars, msgVars>>

\* That second read finds nil: the goroutine dies, and with it the process.
NilPanic(s) ==
    /\ writer[s] = "checked" /\ conn = NoConn
    /\ fault' = "nilconn"
    /\ UNCHANGED <<runVars, askVars, loopVars, msgVars, rival>>

\* Two writers in one connection: the library panics when it notices.
ConcurrentPanic(s) ==
    /\ writer[s] = "checked" /\ conn # NoConn
    /\ \E t \in Sessions : writer[t] = "writing" /\ target[t] = conn
    /\ fault' = "concurrent"
    /\ UNCHANGED <<runVars, askVars, loopVars, msgVars, rival>>

\* The write has no deadline: it ends when the bot has read enough to make room
\* for it, which a bot need never do, or with an error once the connection is gone.
\* handleWrite only logs the error.
Written(s) ==
    /\ writer[s] = "writing"
    /\ target[s] \in Sessions /\ sock[target[s]] = "open"
    /\ writer' = [writer EXCEPT ![s] = "idle"]
    /\ holding' = [holding EXCEPT ![s] = NoMsg]
    /\ target' = [target EXCEPT ![s] = NoConn]
    /\ sent' = [sent EXCEPT ![holding[s]] = @ + 1]
    /\ UNCHANGED <<runVars, reader, queue, fwd, rival, fault, askVars>>

WriteFails(s) ==
    /\ writer[s] = "writing"
    /\ ~(target[s] \in Sessions /\ sock[target[s]] = "open")
    /\ writer' = [writer EXCEPT ![s] = "idle"]
    /\ holding' = [holding EXCEPT ![s] = NoMsg]
    /\ target' = [target EXCEPT ![s] = NoConn]
    /\ UNCHANGED <<runVars, reader, queue, fwd, sent, rival, fault, askVars>>

\* What the goroutine does of itself; Written waits for the bot.
WriterStep(s) ==
    \/ Take(s) \/ WriterExit(s) \/ Discard(s) \/ PassChecks(s)
    \/ BeginWrite(s) \/ NilPanic(s) \/ ConcurrentPanic(s) \/ WriteFails(s)

-----------------------------------------------------------------------------
(* broadcastToClients and write: one goroutine per message *)

\* snapshotClients lists c exactly while it is registered.
Broadcast(m) ==
    /\ fwd[m] = "new"
    /\ fwd' = [fwd EXCEPT ![m] = IF registered THEN "spawned" ELSE "over"]
    /\ UNCHANGED <<runVars, loopVars, queue, sent, rival, fault, askVars>>

CheckConnected(m) ==
    /\ fwd[m] = "spawned"
    /\ fwd' = [fwd EXCEPT ![m] = IF connected THEN "checked" ELSE "over"]
    /\ UNCHANGED <<runVars, loopVars, queue, sent, rival, fault, askVars>>

\* Mutant: the channel has no limit.
EnqueueUnbounded(m) ==
    /\ fwd[m] = "checked"
    /\ fwd' = [fwd EXCEPT ![m] = "over"]
    /\ queue' = Append(queue, m)
    /\ UNCHANGED <<runVars, loopVars, sent, rival, fault, askVars>>

\* A full channel drops the message.
Enqueue(m) ==
    /\ fwd[m] = "checked"
    /\ fwd' = [fwd EXCEPT ![m] = "over"]
    /\ queue' = IF Len(queue) < QueueCap THEN Append(queue, m) ELSE queue
    /\ UNCHANGED <<runVars, loopVars, sent, rival, fault, askVars>>

-----------------------------------------------------------------------------
(* The owner *)

Stop ==
    /\ ~stop
    /\ stop' = TRUE
    /\ UNCHANGED <<runVars, loopVars, msgVars, parentDone, rival, fault>>

ParentCancel ==
    /\ ~parentDone
    /\ parentDone' = TRUE
    /\ UNCHANGED <<runVars, loopVars, msgVars, stop, rival, fault>>

RivalLeaves ==
    /\ rival
    /\ rival' = FALSE
    /\ UNCHANGED <<runVars, loopVars, msgVars, askVars, fault>>

-----------------------------------------------------------------------------

Alive == fault = "none"

ReaderStep(s) == ReadFail(s)
FwdStep(m)    == CheckConnected(m) \/ Enqueue(m)

\* A panic in any goroutine ends the process: nothing moves afterwards.
Next ==
    /\ Alive
    /\ \/ RunnerStep
       \/ \E s \in Sessions : Drop(s) \/ ReaderStep(s) \/ WriterStep(s) \/ Written(s)
       \/ \E m \in Msgs : Broadcast(m) \/ FwdStep(m)
       \/ Stop \/ ParentCancel \/ RivalLeaves

Safety == Init /\ [][Next]_vars

\* Every goroutine that can run is scheduled.  Dial always returns; that it
\* succeeds again and again while it is tried is asked of the bot.  That the bot
\* reads what is written to it is not: Written is not fair.
Fairness ==
    /\ WF_vars(Alive /\ RunnerStep)
    /\ SF_vars(Alive /\ DialOK)
    /\ \A s \in Sessions : WF_vars(Alive /\ ReaderStep(s))
    /\ \A s \in Sessions : WF_vars(Alive /\ WriterStep(s))
    /\ \A m \in Msgs : WF_vars(Alive /\ FwdStep(m))

Spec == Safety /\ Fairness

-----------------------------------------------------------------------------
(* Properties *)

\* While the client is in server.clients, where broadcasts find it, its
\* connection is set and flagged; and once c.stopped is closed nothing of it is
\* left behind: the manager that waited for it may reuse the name at once.
RegisteredImpliesLinked ==
    registered => /\ connected
                  /\ conn = session /\ session # 0

CleanExit ==
    runner = "done" =>
        /\ ~registered /\ ~connected /\ conn = NoConn
        /\ \A s \in Sessions : sock[s] \in {"unused", "closed"}

\* At most one writer goroutine is not yet told to leave, and it is the one of
\* the current session: an older writer outlives its session only until it next
\* looks at its context.
OneLiveWriter ==
    \A s \in Sessions :
        writer[s] \notin {"off", "gone"} /\ s \notin cancelled => s = session

\* Across sessions, reconnects and stale writers a frame is written to the bot
\* at most once, and a refused one never.
DeliveredAtMostOnce ==
    \A m \in Msgs : sent[m] <= IF m \in Blocked THEN 0 ELSE 1

\* The process can only die here once some session has been torn down: the
\* first session, however long, is safe.
PanicNeedsTeardown == fault # "none" => cancelled # {}

\* Outside of a teardown the last event a subscriber saw of this client tells
\* whether it is connected; only the end of a stopped client goes untold.
EventsTellLink ==
    runner \in {"head", "dial", "flag", "add", "forget", "unflag", "sleep", "up"} =>
        (announced = "up" <=> registered)

\* What the manager waits for: the client as ClientLife sees it.
link ==
    IF runner = "done" THEN "ended"
    ELSE IF runner \in {"dial", "flag", "add", "forget", "unflag"} THEN "trying"
    ELSE IF registered THEN "up"
    ELSE "idle"

Life == INSTANCE ClientLife WITH link <- link, quit <- Quitting, crashed <- ~Alive

LifeSafety == Life!LifeSafety
LifeSpec   == Life!LifeSpec

\* After the end of run its readers and writers end too: none of them stays
\* blocked on a connection, a channel or a context.
GoroutinesEnd ==
    runner = "done" ~> \/ ~Alive
                       \/ \A s \in Sessions : /\ reader[s] # "reading"
                                              /\ writer[s] \in {"off", "gone"}

\* A client without a session gets one again, unless it is told to quit, its
\* name is taken, or the process dies.
Reconnect == runner = "sleep" ~> registered \/ Quitting \/ rival \/ ~Alive

\* The same without the last exception: a client that lost its bot retries until
\* it is told to quit.
RetriesUntilTold == runner = "sleep" ~> registered \/ Quitting \/ rival

\* A writer for ever in a write: of a bot that neither reads nor hangs up.
Stuck(s) == writer[s] = "writing"

\* A frame that waits in writeChan is taken by a writer, of this session or of
\* a later one, unless the client is told to quit, its name is taken, the process
\* dies, or a bot leaves a write unread for ever: nothing else may strand it.
QueueDrains ==
    (\A s \in Sessions : []<>~Stuck(s)) =>
        \A m \in Msgs : Queued(m) ~> ~Queued(m) \/ Quitting \/ rival \/ ~Alive

-----------------------------------------------------------------------------
(* The inductive invariant behind the safety properties *)

\* From the assignment of c.conn to its reset, run has a connection in hand.
HasConn == {"flag", "add", "forget", "start", "up", "cancel", "close", "remove", "clear", "nil"}

\* Where run is fixes what the shared fields hold.
RunInv ==
    /\ registered <=> runner \in {"start", "up", "cancel", "close", "remove"}
    /\ connected <=> runner \in {"add", "forget", "unflag", "start", "up", "cancel",
                                "close", "remove", "clear"}
    /\ conn = IF runner \in HasConn THEN session ELSE NoConn
    /\ runner \in HasConn => session # 0
    /\ announced = "up" => runner \in {"up", "cancel", "close", "remove", "clear", "nil", "done"}
    /\ runner = "up" => announced = "up"
    /\ leaving /\ runner \in {"cancel", "close", "remove", "clear", "nil"} => Quitting

\* Only the connection in hand can be open, and only until it is closed.
SockInv ==
    \A s \in Sessions :
        sock[s] \in {"open", "lost"} =>
            s = session /\ runner \in {"flag", "add", "start", "up", "cancel", "close"}

\* A writer whose context is not cancelled belongs to the session in progress.
WriterInv ==
    \A s \in Sessions : writer[s] # "off" =>
        /\ s <= session
        /\ s = session => runner \notin {"flag", "add", "start"}
        /\ s \notin cancelled => s = session /\ runner \in {"up", "cancel"}

LoopInv == RunInv /\ SockInv /\ WriterInv /\ PanicNeedsTeardown

\* A frame is in one place: with its own goroutine, in the channel, in the hand
\* of one writer, or written.
FwdInv ==
    \A m \in Msgs : fwd[m] # "over" =>
        /\ ~Queued(m)
        /\ \A s \in Sessions : writer[s] \in Busy => holding[s] # m
        /\ sent[m] = 0

QueueInv ==
    /\ \A i, j \in 1..Len(queue) : queue[i] = queue[j] => i = j
    /\ \A m \in Msgs : Queued(m) => sent[m] = 0

HoldInv ==
    \A s \in Sessions : writer[s] \in Busy =>
        /\ holding[s] \in Msgs
        /\ ~Queued(holding[s])
        /\ sent[holding[s]] = 0
        /\ writer[s] # "got" => holding[s] \notin Blocked
        /\ \A t \in Sessions \ {s} : writer[t] \in Busy => holding[t] # holding[s]

MsgInv == FwdInv /\ QueueInv /\ HoldInv /\ DeliveredAtMostOnce
=============================================================================

----------------------- MODULE DownstreamClientProofs -----------------------
(***************************************************************************)
(* The safety of DownstreamClient for every number of sessions, every set  *)
(* of frames and every capacity of the channel.  The invariant has two     *)
(* layers: LoopInv ties the fields, the connections and the writers to     *)
(* where run is, and MsgInv says where each frame is.                      *)
(***************************************************************************)
EXTENDS DownstreamClient, TLAPS

-----------------------------------------------------------------------------
(* Types *)

\* Tail and Append keep a channel a channel.
LEMMA QueueType ==
    ASSUME NEW q \in Seq(Msgs)
    PROVE  /\ Len(q) \in Nat
           /\ \A m \in Msgs : /\ Append(q, m) \in Seq(Msgs)
                              /\ Len(Append(q, m)) = Len(q) + 1
           /\ q # << >> => /\ Head(q) \in Msgs
                           /\ Tail(q) \in Seq(Msgs)
                           /\ Len(Tail(q)) = Len(q) - 1
OBVIOUS

\* The fields of a new client have their types.
LEMMA TypeInit == Init => TypeOK
<1>1. Init => FlagsOK
  BY DEF Init, FlagsOK
<1>2. Init => DataOK
  BY ClientAssumption DEF Init, DataOK, Sessions, NoConn
<1> QED BY <1>1, <1>2 DEF TypeOK

\* Every step keeps the types of the fields that run and its goroutines set.
LEMMA FlagsStep == FlagsOK /\ [Next]_vars => FlagsOK'
<1> SUFFICES ASSUME FlagsOK, [Next]_vars PROVE FlagsOK'
    OBVIOUS
<1>1. CASE RunnerStep
  BY <1>1 DEF FlagsOK, RunnerStep, TryOrReturn, DialOK, DialFail, SetConnected, AddClient,
     AddRefused, ForgetRefused, UnflagRefused, StartLoops, Lose, Quit, Cancel, CloseConn,
     RemoveClient, ClearConnected,
     ForgetConn, SleepOver, SleepQuit, askVars
<1>2. ASSUME NEW s \in Sessions, Drop(s) \/ ReaderStep(s) \/ WriterStep(s) \/ Written(s) PROVE FlagsOK'
  BY <1>2 DEF FlagsOK, Drop, ReaderStep, ReadFail, WriterStep, Take, WriterExit, Discard,
     PassChecks, BeginWrite, NilPanic, ConcurrentPanic, Written, WriteFails, runVars, askVars
<1>3. ASSUME NEW m \in Msgs, Broadcast(m) \/ FwdStep(m) PROVE FlagsOK'
  BY <1>3 DEF FlagsOK, Broadcast, FwdStep, CheckConnected, Enqueue, runVars, askVars
<1>4. CASE Stop \/ ParentCancel \/ RivalLeaves \/ UNCHANGED vars
  BY <1>4 DEF FlagsOK, Stop, ParentCancel, RivalLeaves, vars, runVars, askVars
<1> QED BY <1>1, <1>2, <1>3, <1>4 DEF Next

\* No step leaves the types, and in particular none overfills writeChan.
LEMMA DataStep == DataOK /\ [Next]_vars => DataOK'
<1> SUFFICES ASSUME DataOK, [Next]_vars PROVE DataOK'
    OBVIOUS
<1> USE ClientAssumption DEF Sessions, NoConn
<1>1. CASE RunnerStep
  <2>1. CASE TryOrReturn \/ DialFail \/ SetConnected \/ AddClient \/ Lose \/ Quit
             \/ RemoveClient \/ ClearConnected \/ UnflagRefused \/ SleepOver \/ SleepQuit
    <3>1. /\ UNCHANGED <<session, conn, sock, announced, cancelled, fault, loopVars, msgVars>>
          /\ runner' \in {"head", "dial", "flag", "add", "forget", "unflag", "start", "up",
                          "cancel", "close", "remove", "clear", "nil", "sleep", "done"}
      BY <2>1 DEF TryOrReturn, DialFail, SetConnected, AddClient, Lose, Quit,
         RemoveClient, ClearConnected, UnflagRefused, SleepOver, SleepQuit
    <3> QED BY <3>1 DEF DataOK, loopVars, msgVars
  <2>2. CASE DialOK
    BY <2>2 DEF DataOK, DialOK, loopVars, msgVars
  <2>5. CASE AddRefused
    <3>1. /\ sock' = [sock EXCEPT ![session] = "closed"]
          /\ runner' = "forget"
          /\ UNCHANGED <<session, conn, announced, cancelled, fault, loopVars, msgVars>>
      BY <2>5 DEF AddRefused
    <3>2. sock' \in [Sessions -> {"unused", "open", "lost", "closed"}]
      BY <3>1 DEF DataOK
    <3> QED BY <3>1, <3>2 DEF DataOK, loopVars, msgVars
  <2>6. CASE CloseConn
    BY <2>6 DEF DataOK, CloseConn, loopVars, msgVars
  <2>7. CASE ForgetConn
    BY <2>7 DEF DataOK, ForgetConn, loopVars, msgVars
  <2>8. CASE ForgetRefused
    BY <2>8 DEF DataOK, ForgetRefused, loopVars, msgVars
  <2>3. CASE StartLoops
    BY <2>3 DEF DataOK, StartLoops, askVars, msgVars
  <2>4. CASE Cancel
    BY <2>4 DEF DataOK, Cancel, askVars, loopVars, msgVars
  <2> QED BY <1>1, <2>1, <2>2, <2>3, <2>4, <2>5, <2>6, <2>7, <2>8 DEF RunnerStep
<1>2. ASSUME NEW s \in Sessions, Drop(s) \/ ReaderStep(s) PROVE DataOK'
  BY <1>2 DEF DataOK, Drop, ReaderStep, ReadFail, runVars, askVars, loopVars, msgVars
<1>3. ASSUME NEW s \in Sessions, WriterStep(s) \/ Written(s) PROVE DataOK'
  <2>1. CASE Take(s)
    BY <2>1, QueueType DEF DataOK, Take, runVars, askVars
  <2>2. CASE WriterExit(s)
    BY <2>2 DEF DataOK, WriterExit, runVars, msgVars
  <2>6. CASE Discard(s)
    BY <2>6 DEF DataOK, Discard, runVars, msgVars
  <2>7. CASE PassChecks(s)
    BY <2>7 DEF DataOK, PassChecks, runVars, msgVars
  <2>5. CASE BeginWrite(s)
    BY <2>5 DEF DataOK, BeginWrite, runVars, msgVars
  <2>3. CASE NilPanic(s) \/ ConcurrentPanic(s)
    <3>1. /\ fault' \in {"nilconn", "concurrent"}
          /\ UNCHANGED <<runVars, loopVars, msgVars>>
      BY <2>3 DEF NilPanic, ConcurrentPanic
    <3> QED BY <3>1 DEF DataOK, runVars, loopVars, msgVars
  <2>4. CASE Written(s) \/ WriteFails(s)
    <3>1. sent' \in [Msgs -> Nat]
      <4>1. \/ sent' = sent
            \/ sent' = [sent EXCEPT ![holding[s]] = sent[holding[s]] + 1]
        BY <2>4 DEF Written, WriteFails
      <4>2. sent \in [Msgs -> Nat] /\ holding[s] \in Msgs \cup {NoMsg}
        BY DEF DataOK
      <4> QED BY <4>1, <4>2
    <3>2. /\ writer' \in [Sessions -> {"off", "idle", "got", "checked", "writing", "gone"}]
          /\ holding' \in [Sessions -> Msgs \cup {NoMsg}]
          /\ target' \in [Sessions -> 0..MaxSession]
      <4>1. /\ writer' = [writer EXCEPT ![s] = "idle"]
            /\ holding' = [holding EXCEPT ![s] = NoMsg]
            /\ target' = [target EXCEPT ![s] = NoConn]
        BY <2>4 DEF Written, WriteFails
      <4> QED BY <4>1 DEF DataOK
    <3>3. UNCHANGED <<runVars, reader, queue, fwd, fault>>
      BY <2>4 DEF Written, WriteFails
    <3> QED BY <3>1, <3>2, <3>3 DEF DataOK, runVars
  <2> QED BY <1>3, <2>1, <2>2, <2>3, <2>4, <2>5, <2>6, <2>7 DEF WriterStep
<1>4. ASSUME NEW m \in Msgs, Broadcast(m) \/ CheckConnected(m) PROVE DataOK'
  BY <1>4 DEF DataOK, Broadcast, CheckConnected, runVars, askVars, loopVars, msgVars
<1>5. ASSUME NEW m \in Msgs, Enqueue(m) PROVE DataOK'
  BY <1>5, QueueType DEF DataOK, Enqueue, runVars, askVars, loopVars
<1>6. CASE Stop \/ ParentCancel \/ RivalLeaves
  BY <1>6 DEF DataOK, Stop, ParentCancel, RivalLeaves, runVars, askVars, loopVars, msgVars
<1>7. CASE UNCHANGED vars
  BY <1>7 DEF DataOK, vars, runVars, askVars, loopVars, msgVars
<1> QED
  BY <1>1, <1>2, <1>3, <1>4, <1>5, <1>6, <1>7 DEF Next, FwdStep

\* Every step keeps the types.
LEMMA TypeStep == TypeOK /\ [Next]_vars => TypeOK'
BY FlagsStep, DataStep DEF TypeOK

\* The fields of a client keep their types, and writeChan its capacity.
THEOREM TypeCorrect == Safety => []TypeOK
BY TypeInit, TypeStep, PTL DEF Safety

-----------------------------------------------------------------------------
(* The loop *)

\* A new client has neither connection nor writer.
LEMMA LoopInit == Init => LoopInv
BY ClientAssumption
   DEF Init, LoopInv, RunInv, SockInv, WriterInv, PanicNeedsTeardown, HasConn, NoConn, Sessions

\* Every step keeps the invariant of the goroutines.
LEMMA LoopStep == TypeOK /\ LoopInv /\ [Next]_vars => LoopInv'
<1> SUFFICES ASSUME TypeOK, LoopInv, [Next]_vars PROVE LoopInv'
    OBVIOUS
<1> USE ClientAssumption DEF Sessions, NoConn
<1>1. CASE RunnerStep
  <2>1. RunInv'
    <3>1. CASE TryOrReturn \/ DialOK \/ DialFail \/ SetConnected \/ AddClient \/ AddRefused
               \/ ForgetRefused \/ UnflagRefused \/ StartLoops
      BY <3>1 DEF TypeOK, DataOK, LoopInv, RunInv, HasConn, Quitting, askVars, TryOrReturn,
         DialOK, DialFail, SetConnected, AddClient, AddRefused, ForgetRefused, UnflagRefused,
         StartLoops
    <3>2. CASE Lose \/ Quit \/ Cancel \/ CloseConn \/ RemoveClient \/ ClearConnected
               \/ ForgetConn \/ SleepOver \/ SleepQuit
      BY <3>2 DEF TypeOK, DataOK, LoopInv, RunInv, HasConn, Quitting, askVars, Lose, Quit,
         Cancel, CloseConn,
         RemoveClient, ClearConnected, ForgetConn, SleepOver, SleepQuit
    <3> QED BY <1>1, <3>1, <3>2 DEF RunnerStep
  <2>2. SockInv'
    <3>1. CASE DialOK
      BY <3>1 DEF TypeOK, DataOK, LoopInv, SockInv, DialOK
    <3>2. CASE AddRefused \/ CloseConn
      BY <3>2 DEF TypeOK, DataOK, LoopInv, SockInv, AddRefused, CloseConn
    <3>3. CASE TryOrReturn \/ DialFail \/ SetConnected \/ AddClient \/ ForgetRefused
               \/ UnflagRefused \/ StartLoops \/ Lose \/ Quit \/ Cancel \/ RemoveClient
               \/ ClearConnected \/ ForgetConn
               \/ SleepOver \/ SleepQuit
      BY <3>3 DEF TypeOK, DataOK, LoopInv, SockInv, TryOrReturn, DialFail, SetConnected,
         AddClient,
         ForgetRefused, UnflagRefused, StartLoops, Lose, Quit, Cancel, RemoveClient,
         ClearConnected, ForgetConn, SleepOver, SleepQuit
    <3> QED BY <1>1, <3>1, <3>2, <3>3 DEF RunnerStep
  <2>3. WriterInv'
    <3>1. CASE DialOK
      BY <3>1 DEF TypeOK, DataOK, LoopInv, WriterInv, DialOK, loopVars
    <3>2. CASE StartLoops
      BY <3>2 DEF TypeOK, DataOK, LoopInv, WriterInv, StartLoops
    <3>3. CASE Cancel
      BY <3>3 DEF TypeOK, DataOK, LoopInv, WriterInv, Cancel, loopVars
    <3>4. CASE TryOrReturn \/ DialFail \/ SetConnected \/ AddClient \/ AddRefused
               \/ ForgetRefused \/ UnflagRefused \/ Lose \/ Quit \/ CloseConn
               \/ RemoveClient \/ ClearConnected \/ ForgetConn
               \/ SleepOver \/ SleepQuit
      BY <3>4 DEF TypeOK, DataOK, LoopInv, WriterInv, TryOrReturn, DialFail, SetConnected,
         AddClient, AddRefused, ForgetRefused, UnflagRefused, Lose, Quit, CloseConn,
         RemoveClient, ClearConnected,
         ForgetConn, SleepOver, SleepQuit, loopVars
    <3> QED BY <1>1, <3>1, <3>2, <3>3, <3>4 DEF RunnerStep
  <2>4. PanicNeedsTeardown'
    <3>1. fault' = fault /\ cancelled \subseteq cancelled'
      BY <1>1 DEF RunnerStep, TryOrReturn, DialOK, DialFail, SetConnected, AddClient,
         AddRefused, ForgetRefused, UnflagRefused, StartLoops, Lose, Quit, Cancel, CloseConn,
         RemoveClient,
         ClearConnected, ForgetConn, SleepOver, SleepQuit
    <3> QED BY <3>1 DEF LoopInv, PanicNeedsTeardown
  <2> QED BY <2>1, <2>2, <2>3, <2>4 DEF LoopInv
<1>2. ASSUME NEW s \in Sessions, Drop(s) PROVE LoopInv'
  BY <1>2 DEF TypeOK, DataOK, LoopInv, RunInv, SockInv, WriterInv, PanicNeedsTeardown,
     Quitting, Drop, askVars, loopVars
<1>3. ASSUME NEW s \in Sessions, ReaderStep(s) PROVE LoopInv'
  BY <1>3 DEF TypeOK, DataOK, LoopInv, RunInv, SockInv, WriterInv, PanicNeedsTeardown,
     Quitting, ReaderStep, ReadFail, runVars, askVars
<1>4. ASSUME NEW s \in Sessions, WriterStep(s) \/ Written(s) PROVE LoopInv'
  <2>1. UNCHANGED <<runVars, askVars>>
    BY <1>4 DEF WriterStep, Take, WriterExit, Discard, PassChecks, BeginWrite, NilPanic,
       ConcurrentPanic, Written, WriteFails
  <2>2. RunInv' /\ SockInv'
    BY <2>1 DEF LoopInv, RunInv, SockInv, Quitting, runVars, askVars
  <2>3. /\ \A t \in Sessions : writer'[t] # "off" => writer[t] # "off"
        /\ writer[s] # "off"
    BY <1>4 DEF TypeOK, DataOK, WriterStep, Take, WriterExit, Discard, PassChecks, BeginWrite,
       NilPanic,
       ConcurrentPanic, Written, WriteFails, loopVars
  <2>4. WriterInv'
    BY <2>1, <2>3 DEF LoopInv, WriterInv, runVars
  <2>5. PanicNeedsTeardown'
    <3>1. CASE NilPanic(s)
      <4>1. conn = NoConn /\ s \notin cancelled => FALSE
        BY <2>3 DEF TypeOK, DataOK, LoopInv, RunInv, WriterInv, HasConn
      <4> QED BY <3>1, <4>1, <2>1 DEF NilPanic, PanicNeedsTeardown, runVars
    <3>2. CASE ConcurrentPanic(s)
      <4>1. PICK t \in Sessions : writer[t] = "writing" /\ t # s
        BY <3>2 DEF ConcurrentPanic
      <4>2. s \in cancelled \/ t \in cancelled
        BY <4>1, <2>3 DEF LoopInv, WriterInv
      <4> QED BY <4>2, <2>1 DEF PanicNeedsTeardown, runVars
    <3>3. CASE fault' = fault
      BY <3>3, <2>1 DEF LoopInv, PanicNeedsTeardown, runVars
    <3> QED
      BY <1>4, <3>1, <3>2, <3>3 DEF WriterStep, Take, WriterExit, Discard, PassChecks,
         BeginWrite, Written, WriteFails
  <2> QED BY <2>2, <2>4, <2>5 DEF LoopInv
<1>5. CASE UNCHANGED <<runVars, writer, fault>> /\ (Quitting => Quitting')
  BY <1>5 DEF LoopInv, RunInv, SockInv, WriterInv, PanicNeedsTeardown, runVars
<1> QED
  BY <1>1, <1>2, <1>3, <1>4, <1>5
     DEF Next, FwdStep, Broadcast, CheckConnected, Enqueue, Stop, ParentCancel, RivalLeaves,
         vars, loopVars, askVars, Quitting

\* Types and the invariant of the goroutines hold of every reachable state.
LEMMA LoopCorrect == Safety => [](TypeOK /\ LoopInv)
BY TypeInit, TypeStep, LoopInit, LoopStep, PTL DEF Safety

\* A registered client is linked.
THEOREM LinkedCorrect == Safety => []RegisteredImpliesLinked
<1>1. LoopInv => RegisteredImpliesLinked
  BY DEF LoopInv, RunInv, HasConn, RegisteredImpliesLinked
<1> QED BY <1>1, LoopCorrect, PTL

\* A client that has ended has left nothing behind.
THEOREM ExitIsClean == Safety => []CleanExit
<1>1. TypeOK /\ LoopInv => CleanExit
  BY DEF TypeOK, DataOK, LoopInv, RunInv, SockInv, HasConn, CleanExit
<1> QED BY <1>1, LoopCorrect, PTL

\* No two writers are both in their session.
THEOREM LiveWriterCorrect == Safety => []OneLiveWriter
<1>1. LoopInv => OneLiveWriter
  BY DEF LoopInv, WriterInv, OneLiveWriter
<1> QED BY <1>1, LoopCorrect, PTL

\* The first session cannot kill the process.
THEOREM PanicCorrect == Safety => []PanicNeedsTeardown
<1>1. LoopInv => PanicNeedsTeardown
  BY DEF LoopInv
<1> QED BY <1>1, LoopCorrect, PTL

\* The last event tells the state of the link.
THEOREM EventsCorrect == Safety => []EventsTellLink
<1>1. LoopInv => EventsTellLink
  BY DEF LoopInv, RunInv, EventsTellLink
<1> QED BY <1>1, LoopCorrect, PTL

-----------------------------------------------------------------------------
(* The client as its manager sees it *)

\* Every step of the client is a step of ClientLife or none: it begins no
\* attempt once it is told to quit, and ends only from where it has no link.
THEOREM Implements == Safety => LifeSafety
<1>1. Init => Life!LifeInit
  BY DEF Init, Life!LifeInit, link, Quitting, Alive
<1>2. TypeOK /\ LoopInv /\ [Next]_vars => [Life!LifeNext]_(Life!lifeVars)
  <2> SUFFICES ASSUME TypeOK, LoopInv, [Next]_vars
               PROVE  [Life!LifeNext]_(Life!lifeVars)
    OBVIOUS
  <2> USE DEF Life!LifeNext, Life!lifeVars, Life!Ask, Life!Try, Life!Settle, Life!Fall,
              Life!End, Life!Crash, link, Quitting, Alive
  <2>1. CASE Alive /\ RunnerStep
    <3>1. UNCHANGED <<stop, parentDone, fault>>
      BY <2>1 DEF RunnerStep, TryOrReturn, DialOK, DialFail, SetConnected, AddClient,
         AddRefused, ForgetRefused, UnflagRefused, StartLoops, Lose, Quit, Cancel, CloseConn,
         RemoveClient,
         ClearConnected, ForgetConn, SleepOver, SleepQuit, askVars
    <3>2. CASE TryOrReturn \/ SleepQuit
      BY <2>1, <3>1, <3>2 DEF LoopInv, RunInv, TryOrReturn, SleepQuit
    <3>3. CASE DialOK \/ DialFail \/ SetConnected \/ AddClient \/ AddRefused
               \/ ForgetRefused \/ UnflagRefused
      BY <2>1, <3>1, <3>3 DEF LoopInv, RunInv, DialOK, DialFail, SetConnected, AddClient,
         AddRefused, ForgetRefused, UnflagRefused
    <3>4. CASE StartLoops \/ Lose \/ Quit \/ Cancel \/ CloseConn \/ RemoveClient
               \/ ClearConnected \/ SleepOver
      BY <2>1, <3>1, <3>4 DEF LoopInv, RunInv, StartLoops, Lose, Quit, Cancel, CloseConn,
         RemoveClient, ClearConnected, SleepOver
    <3>5. CASE ForgetConn
      BY <2>1, <3>1, <3>5 DEF LoopInv, RunInv, ForgetConn
    <3> QED BY <2>1, <3>2, <3>3, <3>4, <3>5 DEF RunnerStep
  <2>2. CASE UNCHANGED <<runner, registered, stop, parentDone>> /\ Alive
    BY <2>2
  <2>3. CASE UNCHANGED <<runner, registered, fault>> /\ Alive /\ Quitting'
    BY <2>3
  <2>4. CASE UNCHANGED vars
    BY <2>4 DEF vars, runVars, askVars
  <2> QED
    BY <2>1, <2>2, <2>3, <2>4
       DEF Next, Drop, ReaderStep, ReadFail, WriterStep, Take, WriterExit, Discard, PassChecks,
           BeginWrite, NilPanic, ConcurrentPanic, Written, WriteFails, Broadcast, FwdStep,
           CheckConnected,
           Enqueue, Stop, ParentCancel, RivalLeaves, runVars, askVars
<1> QED BY <1>1, <1>2, LoopCorrect, PTL DEF Safety, LifeSafety, Life!LifeSafety

-----------------------------------------------------------------------------
(***************************************************************************)
(* What is left of a client that has ended.  GoroutinesEnd needs fairness; *)
(* that nothing can hold up the goroutines it waits for does not.          *)
(***************************************************************************)
\* When run has returned its readers read from a closed connection, its writers are told
\* to end, and a write under way is to a closed connection.
LoopsReleased ==
    runner = "done" =>
        \A s \in Sessions :
            /\ reader[s] = "reading" => sock[s] = "closed"
            /\ writer[s] \notin {"off", "gone"} => CtxDone(s)
            /\ writer[s] = "writing" => target[s] \in Sessions /\ sock[target[s]] = "closed"

\* What a reader reads from and a writer writes to has been dialled.
DialledInv ==
    \A s \in Sessions :
        /\ s <= session => sock[s] # "unused"
        /\ reader[s] # "off" => s <= session
        /\ writer[s] = "writing" => target[s] \in Sessions /\ target[s] <= session

\* Every step keeps it.
LEMMA DialledStep == TypeOK /\ LoopInv /\ DialledInv /\ [Next]_vars => DialledInv'
<1> SUFFICES ASSUME TypeOK, LoopInv, DialledInv, [Next]_vars PROVE DialledInv'
    OBVIOUS
<1> USE ClientAssumption DEF Sessions, NoConn, DialledInv
<1>t. /\ session \in 0..MaxSession
      /\ conn \in {session, NoConn}
      /\ sock \in [Sessions -> {"unused", "open", "lost", "closed"}]
      /\ reader \in [Sessions -> {"off", "reading", "failed"}]
      /\ writer \in [Sessions -> {"off", "idle", "got", "checked", "writing", "gone"}]
      /\ target \in [Sessions -> 0..MaxSession]
  BY DEF TypeOK, DataOK, LoopInv, RunInv
<1>1. CASE DialOK
  BY <1>1, <1>t DEF DialOK, loopVars
<1>2. CASE AddRefused \/ CloseConn \/ \E s \in Sessions : Drop(s)
  <2>1. /\ \E s \in 0..MaxSession : \E l \in {"lost", "closed"} : sock' = [sock EXCEPT ![s] = l]
        /\ UNCHANGED <<session, reader, writer, target>>
    BY <1>2, <1>t DEF AddRefused, CloseConn, Drop, loopVars
  <2> QED BY <2>1, <1>t
<1>3. CASE StartLoops
  BY <1>3, <1>t DEF StartLoops
<1>4. ASSUME NEW s \in Sessions, ReaderStep(s) PROVE DialledInv'
  BY <1>4, <1>t DEF ReaderStep, ReadFail, runVars
<1>5. ASSUME NEW s \in Sessions, BeginWrite(s) PROVE DialledInv'
  <2>1. /\ conn # NoConn
        /\ writer' = [writer EXCEPT ![s] = "writing"]
        /\ target' = [target EXCEPT ![s] = conn]
        /\ UNCHANGED <<session, sock, reader>>
    BY <1>5 DEF BeginWrite, runVars
  <2>2. conn \in Sessions /\ conn <= session
    BY <2>1, <1>t
  <2> QED BY <2>1, <2>2, <1>t
<1>6. ASSUME NEW s \in Sessions, WriterStep(s) \/ Written(s), ~BeginWrite(s) PROVE DialledInv'
  <2>1. /\ UNCHANGED <<session, sock, reader>>
        /\ \A t \in Sessions : writer'[t] = "writing" =>
              writer[t] = "writing" /\ target'[t] = target[t]
    BY <1>6, <1>t DEF WriterStep, Take, WriterExit, Discard, PassChecks, NilPanic,
       ConcurrentPanic, Written, WriteFails, runVars, loopVars
  <2> QED BY <2>1
<1>7. CASE UNCHANGED <<session, sock, reader, writer, target>>
  BY <1>7
<1>8. CASE RunnerStep
  <2>1. \/ DialOK \/ AddRefused \/ CloseConn \/ StartLoops
        \/ UNCHANGED <<session, sock, reader, writer, target>>
    BY <1>8 DEF RunnerStep, TryOrReturn, DialFail, SetConnected, AddClient, ForgetRefused,
       UnflagRefused, Lose, Quit,
       Cancel, RemoveClient, ClearConnected, ForgetConn, SleepOver, SleepQuit, loopVars
  <2> QED BY <1>1, <1>2, <1>3, <1>7, <2>1
<1>9. CASE \/ \E m \in Msgs : Broadcast(m) \/ FwdStep(m)
           \/ Stop \/ ParentCancel \/ RivalLeaves \/ UNCHANGED vars
  BY <1>7, <1>9 DEF FwdStep, Broadcast, CheckConnected, Enqueue, Stop, ParentCancel,
     RivalLeaves, vars, runVars, loopVars
<1> QED BY <1>2, <1>4, <1>5, <1>6, <1>8, <1>9 DEF Next

\* No goroutine of a client that has ended has anything to wait for.
THEOREM NoLoopLeaks == Safety => []LoopsReleased
<1>1. Init => DialledInv
  BY ClientAssumption DEF Init, DialledInv, Sessions
<1>2. TypeOK /\ LoopInv /\ DialledInv => LoopsReleased
  <2> SUFFICES ASSUME TypeOK, LoopInv, DialledInv, runner = "done", NEW s \in Sessions
               PROVE  /\ reader[s] = "reading" => sock[s] = "closed"
                      /\ writer[s] \notin {"off", "gone"} => CtxDone(s)
                      /\ writer[s] = "writing" =>
                             target[s] \in Sessions /\ sock[target[s]] = "closed"
    BY DEF LoopsReleased
  <2>1. \A t \in Sessions : t <= session => sock[t] = "closed"
    BY DEF TypeOK, DataOK, LoopInv, SockInv, DialledInv
  <2>2. writer[s] \notin {"off", "gone"} => CtxDone(s)
    BY DEF LoopInv, WriterInv, CtxDone
  <2> QED BY <2>1, <2>2 DEF DialledInv
<1> QED BY <1>1, <1>2, LoopCorrect, DialledStep, PTL DEF Safety

-----------------------------------------------------------------------------
(* The frames *)

\* What a receive does to the frames that wait.
LEMMA TailQueue ==
    ASSUME NEW q \in Seq(Msgs), q # << >>,
           \A i, j \in 1..Len(q) : q[i] = q[j] => i = j
    PROVE  /\ \A i, j \in 1..Len(Tail(q)) : Tail(q)[i] = Tail(q)[j] => i = j
           /\ ~Waits(Tail(q), Head(q)) /\ Waits(q, Head(q))
           /\ \A m : Waits(Tail(q), m) => Waits(q, m)
<1>1. /\ Len(Tail(q)) = Len(q) - 1
      /\ \A i \in 1..Len(Tail(q)) : Tail(q)[i] = q[i + 1]
      /\ Head(q) = q[1]
      /\ Len(q) \in Nat \ {0}
  OBVIOUS
<1>2. \A i \in 1..Len(Tail(q)) : i + 1 \in 2..Len(q)
  BY <1>1
<1> QED BY <1>1, <1>2 DEF Waits

\* What a send does to them.
LEMMA AppendQueue ==
    ASSUME NEW q \in Seq(Msgs), NEW m \in Msgs,
           \A i, j \in 1..Len(q) : q[i] = q[j] => i = j,
           ~Waits(q, m)
    PROVE  /\ \A i, j \in 1..Len(Append(q, m)) : Append(q, m)[i] = Append(q, m)[j] => i = j
           /\ \A n : Waits(Append(q, m), n) => n = m \/ Waits(q, n)
<1>1. /\ Len(Append(q, m)) = Len(q) + 1
      /\ \A i \in 1..Len(q) : Append(q, m)[i] = q[i]
      /\ Append(q, m)[Len(q) + 1] = m
      /\ Len(q) \in Nat
  OBVIOUS
<1>2. \A i \in 1..Len(Append(q, m)) : i \in 1..Len(q) \/ i = Len(q) + 1
  BY <1>1
<1> QED BY <1>1, <1>2 DEF Waits

\* No message is anywhere at first.
LEMMA MsgInit == Init => MsgInv
<1> SUFFICES ASSUME Init PROVE MsgInv
    OBVIOUS
<1>1. \A m \in Msgs : ~Queued(m)
  BY DEF Init, Queued, Waits
<1>2. QueueInv
  BY <1>1 DEF Init, QueueInv
<1> QED
  BY <1>1, <1>2 DEF Init, MsgInv, FwdInv, HoldInv, DeliveredAtMostOnce, Busy

\* Every step keeps each message in one place at a time.
LEMMA MsgStep == TypeOK /\ MsgInv /\ [Next]_vars => MsgInv'
<1> SUFFICES ASSUME TypeOK, MsgInv, [Next]_vars PROVE MsgInv'
    OBVIOUS
<1> USE DEF TypeOK, DataOK
<1>0. CASE UNCHANGED <<msgVars, holding>> /\ \A t \in Sessions : writer'[t] \in Busy => writer'[t] = writer[t]
  BY <1>0 DEF MsgInv, FwdInv, QueueInv, HoldInv, DeliveredAtMostOnce, Queued, msgVars
<1>1. CASE RunnerStep
  <2>1. UNCHANGED <<msgVars, holding>>
    BY <1>1 DEF RunnerStep, TryOrReturn, DialOK, DialFail, SetConnected, AddClient,
       AddRefused, ForgetRefused, UnflagRefused, StartLoops, Lose, Quit, Cancel, CloseConn,
       RemoveClient,
       ClearConnected, ForgetConn, SleepOver, SleepQuit, loopVars
  <2>2. writer' = writer \/ writer' = [writer EXCEPT ![session] = "idle"]
    BY <1>1 DEF RunnerStep, TryOrReturn, DialOK, DialFail, SetConnected, AddClient,
       AddRefused, ForgetRefused, UnflagRefused, StartLoops, Lose, Quit, Cancel, CloseConn,
       RemoveClient,
       ClearConnected, ForgetConn, SleepOver, SleepQuit, loopVars
  <2> QED BY <2>1, <2>2, <1>0 DEF Busy
<1>2. ASSUME NEW s \in Sessions, Drop(s) \/ ReaderStep(s) PROVE MsgInv'
  BY <1>2, <1>0 DEF Drop, ReaderStep, ReadFail, loopVars
<1>3. ASSUME NEW s \in Sessions, WriterStep(s) \/ Written(s) PROVE MsgInv'
  <2>1. CASE Take(s)
    <3> PICK h \in Msgs : h = Head(queue)
      BY <2>1, QueueType DEF Take
    <3>1. /\ writer' = [writer EXCEPT ![s] = "got"]
          /\ holding' = [holding EXCEPT ![s] = h]
          /\ queue' = Tail(queue) /\ queue # << >>
          /\ UNCHANGED <<fwd, sent>>
      BY <2>1 DEF Take
    <3>2. /\ \A i, j \in 1..Len(queue') : queue'[i] = queue'[j] => i = j
          /\ ~Waits(queue', h) /\ Waits(queue, h)
          /\ \A m : Waits(queue', m) => Waits(queue, m)
      BY <3>1, TailQueue DEF MsgInv, QueueInv
    <3>3. /\ sent[h] = 0 /\ fwd[h] = "over"
          /\ \A t \in Sessions : writer[t] \in Busy => holding[t] # h
      BY <3>2 DEF MsgInv, QueueInv, FwdInv, HoldInv, Queued
    <3>4. FwdInv'
      BY <3>1, <3>2, <3>3 DEF MsgInv, FwdInv, Queued
    <3>5. QueueInv'
      BY <3>1, <3>2, <3>3 DEF MsgInv, QueueInv, Queued
    <3>6. HoldInv'
      <4>1. /\ writer'[s] = "got" /\ holding'[s] = h
            /\ \A t \in Sessions \ {s} : writer'[t] = writer[t] /\ holding'[t] = holding[t]
        BY <3>1
      <4>2. \A t \in Sessions \ {s} : writer'[t] \in Busy =>
              /\ holding'[t] \in Msgs /\ holding'[t] # h
              /\ ~Waits(queue', holding'[t]) /\ sent'[holding'[t]] = 0
              /\ writer'[t] # "got" => holding'[t] \notin Blocked
              /\ \A u \in Sessions \ {t} :
                   writer'[u] \in Busy => holding'[u] # holding'[t]
        BY <3>1, <3>2, <3>3, <4>1 DEF MsgInv, HoldInv, Queued
      <4> QED BY <3>1, <3>2, <3>3, <4>1, <4>2 DEF HoldInv, Queued
    <3>7. DeliveredAtMostOnce'
      BY <3>1 DEF MsgInv, DeliveredAtMostOnce
    <3> QED BY <3>4, <3>5, <3>6, <3>7 DEF MsgInv
  <2>2. CASE WriterExit(s)
    BY <2>2, <1>0 DEF WriterExit, Busy
  <2>3. CASE Discard(s) \/ Written(s) \/ WriteFails(s)
    <3>1. /\ writer' = [writer EXCEPT ![s] = "idle"]
          /\ holding' = [holding EXCEPT ![s] = NoMsg]
          /\ UNCHANGED <<queue, fwd>>
          /\ writer[s] \in Busy
      BY <2>3 DEF Discard, Written, WriteFails, msgVars, Busy
    <3>2. \A t \in Sessions : writer'[t] \in Busy => t # s /\ writer[t] = writer'[t] /\ holding'[t] = holding[t]
      BY <3>1 DEF Busy
    <3>3. \/ sent' = sent
          \/ /\ sent' = [sent EXCEPT ![holding[s]] = @ + 1]
             /\ writer[s] # "got"
      BY <2>3 DEF Discard, Written, WriteFails, msgVars
    <3>4. \A m \in Msgs : m # holding[s] => sent'[m] = sent[m]
      BY <3>3
    <3>5. FwdInv'
      BY <3>1, <3>2, <3>4 DEF MsgInv, FwdInv, Queued
    <3>6. QueueInv'
      BY <3>1, <3>4 DEF MsgInv, QueueInv, HoldInv, Queued
    <3>7. HoldInv'
      <4>1. \A t \in Sessions : writer'[t] \in Busy =>
              /\ holding[t] \in Msgs /\ holding[t] # holding[s]
              /\ sent'[holding[t]] = sent[holding[t]]
        BY <3>1, <3>2, <3>4 DEF MsgInv, HoldInv
      <4> QED BY <3>1, <3>2, <4>1 DEF MsgInv, HoldInv, Queued
    <3>8. DeliveredAtMostOnce'
      <4>1. /\ holding[s] \in Msgs /\ sent[holding[s]] = 0
            /\ writer[s] # "got" => holding[s] \notin Blocked
        BY <3>1 DEF MsgInv, HoldInv
      <4>2. sent' = sent \/ (sent'[holding[s]] = 1 /\ holding[s] \notin Blocked)
        BY <3>3, <4>1
      <4> QED BY <3>4, <4>1, <4>2 DEF MsgInv, DeliveredAtMostOnce
    <3> QED BY <3>5, <3>6, <3>7, <3>8 DEF MsgInv
  <2>4. CASE PassChecks(s) \/ BeginWrite(s)
    <3>1. /\ UNCHANGED <<holding, queue, fwd, sent>>
          /\ \A t \in Sessions : writer'[t] \in Busy => writer[t] \in Busy
          /\ \A t \in Sessions : writer'[t] \in Busy \ {"got"} =>
               writer[t] # "got" \/ holding[t] \notin Blocked
      BY <2>4 DEF PassChecks, BeginWrite, msgVars, Busy
    <3> QED
      BY <3>1 DEF MsgInv, FwdInv, QueueInv, HoldInv, DeliveredAtMostOnce, Queued
  <2>5. CASE NilPanic(s) \/ ConcurrentPanic(s)
    BY <2>5, <1>0 DEF NilPanic, ConcurrentPanic, loopVars
  <2> QED BY <1>3, <2>1, <2>2, <2>3, <2>4, <2>5 DEF WriterStep
<1>4. ASSUME NEW m \in Msgs, Broadcast(m) \/ CheckConnected(m) PROVE MsgInv'
  <2>1. /\ UNCHANGED <<queue, sent, writer, holding>>
        /\ \A n \in Msgs : fwd'[n] # "over" => fwd[n] # "over"
    BY <1>4 DEF Broadcast, CheckConnected, loopVars
  <2> QED
    BY <2>1 DEF MsgInv, FwdInv, QueueInv, HoldInv, DeliveredAtMostOnce, Queued
<1>5. ASSUME NEW m \in Msgs, Enqueue(m) PROVE MsgInv'
  <2>1. /\ fwd[m] = "checked" /\ fwd' = [fwd EXCEPT ![m] = "over"]
        /\ queue' \in {queue, Append(queue, m)}
        /\ UNCHANGED <<sent, writer, holding>>
    BY <1>5 DEF Enqueue, loopVars
  <2>2. /\ ~Queued(m) /\ sent[m] = 0
        /\ \A s \in Sessions : writer[s] \in Busy => holding[s] # m
    BY <2>1 DEF MsgInv, FwdInv
  <2>3. /\ \A i, j \in 1..Len(queue') : queue'[i] = queue'[j] => i = j
        /\ \A n : Waits(queue', n) => n = m \/ Waits(queue, n)
    <3>1. CASE queue' = queue
      BY <3>1 DEF MsgInv, QueueInv
    <3>2. CASE queue' = Append(queue, m)
      <4>1. ~Waits(queue, m) /\ \A i, j \in 1..Len(queue) : queue[i] = queue[j] => i = j
        BY <2>2 DEF MsgInv, QueueInv, Queued
      <4>2. queue \in Seq(Msgs)
        OBVIOUS
      <4> QED BY <3>2, <4>1, <4>2, AppendQueue
    <3> QED BY <2>1, <3>1, <3>2
  <2>4. FwdInv'
    BY <2>1, <2>3 DEF MsgInv, FwdInv, Queued
  <2>5. QueueInv'
    BY <2>1, <2>2, <2>3 DEF MsgInv, QueueInv, Queued
  <2>6. HoldInv'
    BY <2>1, <2>2, <2>3 DEF MsgInv, HoldInv, Queued
  <2>7. DeliveredAtMostOnce'
    BY <2>1 DEF MsgInv, DeliveredAtMostOnce
  <2> QED BY <2>4, <2>5, <2>6, <2>7 DEF MsgInv
<1>6. CASE Stop \/ ParentCancel \/ RivalLeaves \/ UNCHANGED vars
  BY <1>6, <1>0 DEF Stop, ParentCancel, RivalLeaves, vars, loopVars
<1> QED
  BY <1>1, <1>2, <1>3, <1>4, <1>5, <1>6 DEF Next, FwdStep

\* A frame reaches the bot at most once, a refused one never.
THEOREM AtMostOnce == Safety => []DeliveredAtMostOnce
<1>1. MsgInv => DeliveredAtMostOnce
  BY DEF MsgInv
<1> QED BY <1>1, TypeInit, TypeStep, MsgInit, MsgStep, PTL DEF Safety
=============================================================================

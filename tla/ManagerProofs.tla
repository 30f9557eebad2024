--------------------------- MODULE ManagerProofs ---------------------------
(***************************************************************************)
(* The safety of Manager for every set of apps, of configurations and of   *)
(* requests.  The invariant has one part per question: who holds m.mu      *)
(* (HolderInv), what the manager has while it does not run (IdleInv),      *)
(* which client objects exist (FreshInv, NoOrphan), how far the loop of    *)
(* stopClientsLocked is (StopInv, CloseInv), which dedup cache is cleaned  *)
(* (OneCleaner), and what of the store has been read (SyncInv).  At the    *)
(* end, why a wait for a client is a wait for something that comes.        *)
(***************************************************************************)
EXTENDS Manager, TLAPS

-----------------------------------------------------------------------------
(* The parts of the invariant *)

\* m.mu is held from the first step under it to the last.
HolderInv ==
    /\ \A p \in Owners : pc[p] \in {"stop", "wait", "apps", "start", "halt"} <=> mu = p
    /\ pc[Boot] \notin {"lock", "reply"}
    /\ \A r \in Requests : pc[r] \notin {"serving", "signal", "halt", "failed"}

\* m.running is set by Start at its end and cleared by Stop at its beginning; a
\* reload sees it set, and there is none before Start has returned.
RunInv ==
    /\ running => pc[Boot] \in {"serving", "signal"}
    /\ mu \in Requests => running
    /\ pc[Boot] \in {"new", "apps", "start", "failed"} => \A r \in Requests : pc[r] = "new"

\* A manager that does not run has no clients, unless Stop is at work, and
\* neither listener nor dedup cache, unless Start or Stop is.
IdleInv ==
    /\ ~running /\ pc[Boot] \notin {"stop", "wait"} => Held = {} /\ filters = NoApps
    /\ ~running /\ pc[Boot] \notin {"apps", "start", "stop", "wait", "halt"} =>
          bound = NoAddr /\ dedup = None

\* Owner p has not created its clients.
Unstarted(p) ==
    IF p = Boot THEN pc[p] \in {"new", "apps", "start", "failed"}
                ELSE pc[p] \notin {"reply", "over"}

FreshInv ==
    \A p \in Owners : Unstarted(p) =>
        \A a \in Apps : link[<<a, p>>] = "none" /\ <<a, p>> \notin stopClosed /\ clients[a] # p

\* The loop of stopClientsLocked: whatever it has passed has ended.  After it the
\* maps are empty.
StopInv ==
    /\ left \subseteq Held
    /\ \A p \in Owners :
         /\ pc[p] = "stop" =>
              \A a \in Held \ left : link[<<a, clients[a]>>] = "ended"
         /\ pc[p] = "wait" =>
              /\ waiting \in Held \ left
              /\ \A a \in Held \ (left \cup {waiting}) : link[<<a, clients[a]>>] = "ended"
         /\ pc[p] \in {"apps", "start", "halt"} => Held = {} /\ filters = NoApps

\* A client in the map has been told to stop only if the loop has passed it.
CloseInv ==
    /\ ~doubleClose
    /\ \A a \in Held : <<a, clients[a]>> \in stopClosed =>
          a \notin left /\ \E p \in Owners : pc[p] \in {"stop", "wait"}

\* A reload that no other edit is waiting behind has the settings of the store,
\* and so has startClientsLocked the apps, unless the store has changed behind
\* the back of Reload.
SyncInv ==
    (\A r \in Requests : pc[r] # "lock") =>
        /\ mu # None /\ (running \/ pc[Boot] \in {"apps", "start"}) => gateway = dbGw
        /\ ~unapplied => \A p \in Owners : pc[p] = "start" => seen = dbApps

\* Outside of a reload the settings and the maps are those of the store.
HeldInv ==
    Quiet /\ running /\ ~unapplied =>
        /\ gateway = dbGw
        /\ filters = dbApps
        /\ \A a \in Apps : clients[a] # None <=> dbApps[a] \in Outward

Inv ==
    /\ TypeOK /\ HolderInv /\ RunInv /\ IdleInv /\ FreshInv /\ StopInv /\ CloseInv
    /\ NoOrphan /\ OneCleaner /\ SyncInv /\ HeldInv

-----------------------------------------------------------------------------
(* Types *)

\* The loop of stopClientsLocked visits clients that are in the map.
LEMMA TypeStep == Inv /\ [Next]_vars => TypeOK'
<1> SUFFICES ASSUME Inv, [Next]_vars PROVE TypeOK'
    OBVIOUS
<1> USE ManagerAssumption DEF Owners, Goto, storeVars, procVars, serverVars, mapVars, objVars
<1>t. TypeOK /\ left \subseteq Held
  BY DEF Inv, StopInv
<1>1. CASE StartDisabled \/ StartFails
  BY <1>1, <1>t DEF TypeOK, StartDisabled, StartFails
<1>2. CASE StartListen
  BY <1>2, <1>t DEF TypeOK, StartListen, Gateways
<1>3. CASE Signal \/ StopIgnored
  BY <1>3, <1>t DEF TypeOK, Signal, StopIgnored
<1>4. CASE StopBegin
  BY <1>4, <1>t DEF TypeOK, StopBegin, Held
<1>5. CASE Halt
  BY <1>5, <1>t DEF TypeOK, Halt
<1>6. ASSUME NEW r \in Requests, EditApp(r) \/ DeleteTemplate(r) PROVE TypeOK'
  <2>1. dbApps' \in [Apps -> Configs \cup {Off}]
    BY <1>6, <1>t DEF TypeOK, EditApp, DeleteTemplate
  <2>2. unapplied' \in BOOLEAN
    BY <1>6, <1>t DEF TypeOK, EditApp, DeleteTemplate
  <2> QED BY <1>6, <2>1, <2>2, <1>t DEF TypeOK, EditApp, DeleteTemplate, Arrive
<1>7. ASSUME NEW r \in Requests, EditGateway(r) \/ Restart(r) PROVE TypeOK'
  BY <1>7, <1>t DEF TypeOK, EditGateway, Restart, Arrive
<1>8. ASSUME NEW r \in Requests, Reply(r) \/ Disconnect(r) PROVE TypeOK'
  <2>1. CASE Reply(r)
    BY <2>1, <1>t DEF TypeOK, Reply
  <2>2. CASE Disconnect(r)
    BY <2>2, <1>t DEF TypeOK, Disconnect
  <2> QED BY <1>8, <2>1, <2>2
<1>9. ASSUME NEW r \in Requests, ReloadIgnored(r) \/ ReloadFails(r) PROVE TypeOK'
  BY <1>9, <1>t DEF TypeOK, ReloadIgnored, ReloadFails
<1>10. ASSUME NEW r \in Requests, ReloadBegin(r) PROVE TypeOK'
  BY <1>10, <1>t DEF TypeOK, ReloadBegin, Held
<1>11. ASSUME NEW p \in Owners, StopOne(p) PROVE TypeOK'
  <2>1. PICK a \in left :
           /\ left' = left \ {a} /\ waiting' = a
           /\ doubleClose' = (doubleClose \/ <<a, clients[a]>> \in stopClosed)
           /\ stopClosed' = stopClosed \cup {<<a, clients[a]>>}
    BY <1>11 DEF StopOne
  <2>2. a \in Apps /\ clients[a] \in Owners
    BY <1>t DEF TypeOK, Held
  <2>3. doubleClose' \in BOOLEAN
    BY <2>1
  <2>4. stopClosed' \in SUBSET Objects
    BY <2>1, <2>2, <1>t DEF TypeOK, Objects
  <2> QED BY <1>11, <2>1, <2>2, <2>3, <2>4, <1>t DEF TypeOK, StopOne
<1>12. ASSUME NEW p \in Owners, Stopped(p) PROVE TypeOK'
  BY <1>12, <1>t DEF TypeOK, Stopped
<1>13. ASSUME NEW p \in Owners, AllStopped(p) PROVE TypeOK'
  BY <1>13, <1>t DEF TypeOK, AllStopped, NoApps
<1>14. ASSUME NEW p \in Owners, ReadApps(p) \/ ReadAppsFails(p) PROVE TypeOK'
  <2>1. CASE ReadApps(p)
    BY <2>1, <1>t DEF TypeOK, ReadApps
  <2>2. CASE ReadAppsFails(p)
    BY <2>2, <1>t DEF TypeOK, ReadAppsFails
  <2> QED BY <1>14, <2>1, <2>2
<1>15. ASSUME NEW p \in Owners, StartClients(p) PROVE TypeOK'
  BY <1>15, <1>t DEF TypeOK, StartClients, NoApps, Objects
<1>16. ASSUME NEW o \in Objects, ClientTry(o) \/ ClientUp(o) \/ ClientDown(o) \/ ClientEnd(o)
       PROVE  TypeOK'
  BY <1>16, <1>t DEF TypeOK, ClientTry, ClientUp, ClientDown, ClientEnd, Become
<1>17. CASE UNCHANGED vars
  BY <1>17, <1>t DEF TypeOK, vars
<1> QED
  BY <1>1, <1>2, <1>3, <1>4, <1>5, <1>6, <1>7, <1>8, <1>9, <1>10, <1>11, <1>12, <1>13, <1>14,
     <1>15, <1>16, <1>17 DEF Next, Locked, Acquire

-----------------------------------------------------------------------------
(* Where the callers go *)

\* Owner p goes on to a place.
Moves(p, to) == p \in Owners /\ pc' = [pc EXCEPT ![p] = to]

\* The four kinds of moves: p stays outside m.mu, takes it, keeps it, releases it.
Outside(p) ==
    /\ UNCHANGED <<mu, running>>
    /\ \/ p = Boot /\ pc[p] = "new" /\ (Moves(p, "serving") \/ Moves(p, "failed"))
       \/ p = Boot /\ pc[p] = "serving" /\ Moves(p, "signal")
       \/ p = Boot /\ pc[p] = "signal" /\ ~running /\ Moves(p, "over")
       \/ p \in Requests /\ Arrive(p) /\ (Moves(p, "lock") \/ Moves(p, "reply"))
       \/ p \in Requests /\ pc[p] = "lock" /\ Moves(p, "reply")
       \/ p \in Requests /\ pc[p] = "reply" /\ Moves(p, "over")

Enters(p) ==
    /\ mu = None /\ mu' = p
    /\ \/ p = Boot /\ pc[p] = "new" /\ Moves(p, "apps") /\ running' = running
       \/ p = Boot /\ pc[p] = "signal" /\ Moves(p, "stop") /\ ~running'
       \/ p \in Requests /\ pc[p] = "lock" /\ Moves(p, "stop") /\ running /\ running'

Inside(p) ==
    /\ UNCHANGED <<mu, running>>
    /\ \/ pc[p] = "stop" /\ Moves(p, "wait")
       \/ pc[p] = "wait" /\ Moves(p, "stop")
       \/ p = Boot /\ pc[p] = "stop" /\ Moves(p, "halt")
       \/ p # Boot /\ pc[p] = "stop" /\ Moves(p, "apps")
       \/ pc[p] = "apps" /\ Moves(p, "start")

Leaves(p) ==
    /\ mu' = None
    /\ \/ p = Boot /\ pc[p] \in {"apps", "start"} /\ Moves(p, "serving") /\ running'
       \/ p # Boot /\ pc[p] \in {"apps", "start"} /\ Moves(p, "reply") /\ running' = running
       \/ p = Boot /\ pc[p] = "halt" /\ Moves(p, "over") /\ running' = running

\* Each step is one of them, or moves nobody.
LEMMA StepMoves ==
    ASSUME TypeOK, [Next]_vars
    PROVE  \/ UNCHANGED <<pc, mu, running>>
           \/ \E p \in Owners : Outside(p) \/ Enters(p) \/ Inside(p) \/ Leaves(p)
<1> DEFINE Goal == \/ UNCHANGED <<pc, mu, running>>
                   \/ \E p \in Owners : Outside(p) \/ Enters(p) \/ Inside(p) \/ Leaves(p)
<1> USE ManagerAssumption DEF Moves, Goto, Owners, procVars, serverVars
<1>1. CASE StartDisabled \/ StartFails \/ Signal \/ StopIgnored
  <2>1. Outside(Boot)
    BY <1>1 DEF Outside, StartDisabled, StartFails, Signal, StopIgnored
  <2> QED BY <2>1
<1>2. CASE StartListen \/ StopBegin
  <2>1. Enters(Boot)
    BY <1>2 DEF Enters, StartListen, StopBegin
  <2> QED BY <2>1
<1>3. CASE Halt
  <2>1. Leaves(Boot)
    BY <1>3 DEF Leaves, Halt
  <2> QED BY <2>1
<1>4. ASSUME NEW r \in Requests, EditApp(r) \/ EditGateway(r) \/ Restart(r) \/ DeleteTemplate(r)
      PROVE  Goal
  <2>1. Outside(r)
    BY <1>4 DEF Outside, EditApp, EditGateway, Restart, DeleteTemplate, Arrive
  <2> QED BY <2>1
<1>5. ASSUME NEW r \in Requests, Reply(r) \/ ReloadIgnored(r) \/ ReloadFails(r) PROVE Goal
  <2>1. Outside(r)
    BY <1>5 DEF Outside, Reply, ReloadIgnored, ReloadFails
  <2> QED BY <2>1
<1>6. ASSUME NEW r \in Requests, ReloadBegin(r) PROVE Goal
  <2>1. Enters(r)
    BY <1>6 DEF Enters, ReloadBegin
  <2> QED BY <2>1
<1>7. ASSUME NEW p \in Owners, StopOne(p) \/ Stopped(p) \/ AllStopped(p) \/ ReadApps(p)
      PROVE  Goal
  <2>1. Inside(p)
    BY <1>7 DEF Inside, StopOne, Stopped, AllStopped, ReadApps
  <2> QED BY <2>1
<1>8. ASSUME NEW p \in Owners, ReadAppsFails(p) \/ StartClients(p) PROVE Goal
  <2>1. Leaves(p)
    BY <1>8 DEF Leaves, ReadAppsFails, StartClients, TypeOK
  <2> QED BY <2>1
<1>9. ASSUME \/ \E r \in Requests : Disconnect(r)
             \/ \E o \in Objects : ClientTry(o) \/ ClientUp(o) \/ ClientDown(o) \/ ClientEnd(o)
             \/ UNCHANGED vars
      PROVE  Goal
  BY <1>9 DEF Disconnect, ClientTry, ClientUp, ClientDown, ClientEnd, Become, vars
<1> QED
  BY <1>1, <1>2, <1>3, <1>4, <1>5, <1>6, <1>7, <1>8, <1>9 DEF Next, Locked, Acquire

\* m.mu is taken when free and given back at the end, and running follows its holder.
LEMMA HolderStep == Inv /\ [Next]_vars => HolderInv' /\ RunInv'
<1> SUFFICES ASSUME Inv, [Next]_vars PROVE HolderInv' /\ RunInv'
    OBVIOUS
<1> USE ManagerAssumption DEF Owners, Moves
<1>t. /\ pc \in [Owners -> {"new", "lock", "stop", "wait", "apps", "start", "serving",
                            "signal", "halt", "reply", "over", "failed"}]
      /\ HolderInv /\ RunInv /\ running \in BOOLEAN
  BY DEF Inv, TypeOK
<1>1. ASSUME NEW p \in Owners, Outside(p) PROVE HolderInv' /\ RunInv'
  <2>1. HolderInv'
    BY <1>1, <1>t DEF Outside, HolderInv, Arrive
  <2>2. RunInv'
    BY <1>1, <1>t DEF Outside, HolderInv, RunInv, Arrive, Served
  <2> QED BY <2>1, <2>2
<1>2. ASSUME NEW p \in Owners, Enters(p) PROVE HolderInv' /\ RunInv'
  BY <1>2, <1>t DEF Enters, HolderInv, RunInv
<1>3. ASSUME NEW p \in Owners, Inside(p) PROVE HolderInv' /\ RunInv'
  BY <1>3, <1>t DEF Inside, HolderInv, RunInv
<1>4. ASSUME NEW p \in Owners, Leaves(p) PROVE HolderInv' /\ RunInv'
  BY <1>4, <1>t DEF Leaves, HolderInv, RunInv
<1>5. CASE UNCHANGED <<pc, mu, running>>
  BY <1>5, <1>t DEF HolderInv, RunInv
<1> QED
  BY <1>1, <1>2, <1>3, <1>4, <1>5, StepMoves DEF Inv

-----------------------------------------------------------------------------
(* What a manager has that does not run *)

\* Every step keeps a manager that does not run without clients.
LEMMA IdleStep == Inv /\ [Next]_vars => IdleInv'
<1> SUFFICES ASSUME Inv, [Next]_vars PROVE IdleInv'
    OBVIOUS
<1> USE ManagerAssumption
    DEF Owners, Goto, storeVars, procVars, serverVars, mapVars, objVars, IdleInv
<1>t. /\ pc \in [Owners -> {"new", "lock", "stop", "wait", "apps", "start", "serving",
                            "signal", "halt", "reply", "over", "failed"}]
      /\ clients \in [Apps -> Owners \cup {None}]
      /\ HolderInv /\ RunInv /\ IdleInv
  BY DEF Inv, TypeOK
<1>1. CASE /\ pc'[Boot] = pc[Boot]
           /\ UNCHANGED <<running, clients, filters, bound, dedup>>
  BY <1>1, <1>t DEF Held
<1>2. CASE running'
  BY <1>2
<1>3. CASE StartDisabled \/ StartFails \/ StartListen \/ Signal \/ StopIgnored
  BY <1>3, <1>t DEF StartDisabled, StartFails, StartListen, Signal, StopIgnored, Held, RunInv
<1>4. CASE StopBegin
  BY <1>4, <1>t DEF StopBegin
<1>5. CASE Halt
  BY <1>5, <1>t DEF Halt, Held, RunInv
<1>6. ASSUME NEW p \in Owners, Locked(p) PROVE IdleInv'
  <2>1. CASE p # Boot
    <3>1. running'
      BY <1>6, <2>1, <1>t DEF HolderInv, RunInv, Locked, StopOne, Stopped, AllStopped, ReadApps,
         ReadAppsFails, StartClients
    <3> QED BY <3>1, <1>2
  <2>2. CASE p = Boot /\ (StopOne(p) \/ Stopped(p))
    BY <2>2, <1>t DEF StopOne, Stopped
  <2>3. CASE p = Boot /\ AllStopped(p)
    BY <2>3, <1>t DEF AllStopped, Held
  <2>4. CASE p = Boot /\ ReadApps(p)
    BY <2>4, <1>t DEF ReadApps, RunInv, Held
  <2>5. CASE p = Boot /\ (ReadAppsFails(p) \/ StartClients(p))
    BY <2>5 DEF ReadAppsFails, StartClients
  <2> QED BY <1>6, <2>1, <2>2, <2>3, <2>4, <2>5 DEF Locked
<1>7. ASSUME NEW r \in Requests, ReloadBegin(r) PROVE IdleInv'
  BY <1>7 DEF ReloadBegin
<1>8. ASSUME NEW r \in Requests,
             \/ EditApp(r) \/ EditGateway(r) \/ Restart(r) \/ DeleteTemplate(r)
             \/ Reply(r) \/ Disconnect(r) \/ ReloadIgnored(r) \/ ReloadFails(r)
      PROVE  IdleInv'
  BY <1>8, <1>1, <1>t DEF EditApp, EditGateway, Restart, DeleteTemplate, Reply, Disconnect,
     ReloadIgnored, ReloadFails
<1>9. CASE \/ \E o \in Objects : ClientTry(o) \/ ClientUp(o) \/ ClientDown(o) \/ ClientEnd(o)
           \/ UNCHANGED vars
  BY <1>9, <1>1 DEF ClientTry, ClientUp, ClientDown, ClientEnd, Become, vars
<1> QED
  BY <1>3, <1>4, <1>5, <1>6, <1>7, <1>8, <1>9 DEF Next, Acquire

\* The dedup cache in use.
LEMMA CleanerStep == Inv /\ [Next]_vars => OneCleaner'
<1> SUFFICES ASSUME Inv, [Next]_vars PROVE OneCleaner'
    OBVIOUS
<1> USE ManagerAssumption DEF Owners, OneCleaner, serverVars
<1>t. /\ TypeOK /\ OneCleaner
      /\ pc[Boot] = "new" => dedup = None
  BY DEF Inv, IdleInv, RunInv
<1>1. CASE StartDisabled \/ StartFails
  BY <1>1, <1>t DEF StartDisabled, StartFails
<1>2. CASE StartListen
  BY <1>2 DEF StartListen
<1>3. CASE Halt
  BY <1>3, <1>t DEF Halt
<1>4. ASSUME NEW r \in Requests, ReloadBegin(r) PROVE OneCleaner'
  BY <1>4, <1>t DEF ReloadBegin, TypeOK, Gateways
<1>5. CASE UNCHANGED <<gateway, dedup, cleaners>>
  BY <1>5, <1>t
<1>6. \/ StartDisabled \/ StartFails \/ StartListen \/ Halt
      \/ \E r \in Requests : ReloadBegin(r)
      \/ UNCHANGED <<gateway, dedup, cleaners>>
  BY DEF Next, Acquire, Locked, EditApp, EditGateway, Restart, DeleteTemplate, ReloadIgnored,
     ReloadFails, Reply, Disconnect, StopOne, Stopped, AllStopped, ReadApps, ReadAppsFails,
     StartClients, Signal, StopIgnored, StopBegin, ClientTry, ClientUp, ClientDown, ClientEnd,
     Become, vars
<1> QED
  BY <1>1, <1>2, <1>3, <1>4, <1>5, <1>6

-----------------------------------------------------------------------------
(* Which client objects there are *)

\* Every step keeps the unused client objects, those that will be made next, unused.
LEMMA FreshStep == Inv /\ [Next]_vars => FreshInv'
<1> SUFFICES ASSUME Inv, [Next]_vars PROVE FreshInv'
    OBVIOUS
<1> USE ManagerAssumption
    DEF Owners, Goto, storeVars, procVars, serverVars, mapVars, objVars, FreshInv, Unstarted
<1>t. /\ pc \in [Owners -> {"new", "lock", "stop", "wait", "apps", "start", "serving",
                            "signal", "halt", "reply", "over", "failed"}]
      /\ clients \in [Apps -> Owners \cup {None}]
      /\ link \in [Objects -> {"none", "idle", "trying", "up", "ended"}]
      /\ HolderInv /\ FreshInv /\ left \subseteq Held
  BY DEF Inv, TypeOK, StopInv
<1>1. CASE StartDisabled \/ StartListen \/ StartFails
  BY <1>1, <1>t DEF StartDisabled, StartListen, StartFails
<1>2. ASSUME NEW r \in Requests,
             EditApp(r) \/ EditGateway(r) \/ Restart(r) \/ DeleteTemplate(r) \/ Reply(r)
      PROVE  FreshInv'
  BY <1>2, <1>t DEF EditApp, EditGateway, Restart, DeleteTemplate, Arrive, Reply
<1>3. ASSUME NEW r \in Requests, Disconnect(r) PROVE FreshInv'
  BY <1>3, <1>t DEF Disconnect
<1>4. ASSUME NEW r \in Requests, Acquire(r) PROVE FreshInv'
  BY <1>4, <1>t DEF Acquire, ReloadIgnored, ReloadFails, ReloadBegin
<1>5. ASSUME NEW p \in Owners, StopOne(p) PROVE FreshInv'
  <2>1. PICK a \in left : stopClosed' = stopClosed \cup {<<a, clients[a]>>}
    BY <1>5 DEF StopOne
  <2>2. \A q \in Owners : Unstarted(q)' => Unstarted(q)
    BY <1>5, <1>t DEF StopOne, HolderInv
  <2>3. UNCHANGED <<link, clients>>
    BY <1>5 DEF StopOne
  <2> QED BY <2>1, <2>2, <2>3, <1>t DEF Held
<1>6. ASSUME NEW p \in Owners, Stopped(p) PROVE FreshInv'
  BY <1>6, <1>t DEF Stopped, HolderInv
<1>7. ASSUME NEW p \in Owners, AllStopped(p) PROVE FreshInv'
  BY <1>7, <1>t DEF AllStopped, HolderInv
<1>8. ASSUME NEW p \in Owners, ReadApps(p) \/ ReadAppsFails(p) PROVE FreshInv'
  BY <1>8, <1>t DEF ReadApps, ReadAppsFails
<1>9. ASSUME NEW p \in Owners, StartClients(p) PROVE FreshInv'
  BY <1>9, <1>t DEF StartClients, Objects
<1>10. CASE Signal \/ StopIgnored \/ StopBegin \/ Halt
  BY <1>10, <1>t DEF Signal, StopIgnored, StopBegin, Halt
<1>11. ASSUME NEW o \in Objects, ClientTry(o) \/ ClientUp(o) \/ ClientDown(o) \/ ClientEnd(o)
       PROVE  FreshInv'
  BY <1>11, <1>t DEF ClientTry, ClientUp, ClientDown, ClientEnd, Become, Objects
<1>12. CASE UNCHANGED vars
  BY <1>12, <1>t DEF vars
<1> QED
  BY <1>1, <1>2, <1>3, <1>4, <1>5, <1>6, <1>7, <1>8, <1>9, <1>10, <1>11, <1>12
     DEF Next, Locked

\* A live client is in the map: the loop that empties it has waited for each, and
\* the next clients start from an empty map.
LEMMA OrphanStep == Inv /\ [Next]_vars => NoOrphan'
<1> SUFFICES ASSUME Inv, [Next]_vars PROVE NoOrphan'
    OBVIOUS
<1> USE ManagerAssumption DEF mapVars, objVars, NoOrphan, Live, Objects
<1>t. /\ clients \in [Apps -> Owners \cup {None}]
      /\ link \in [Objects -> {"none", "idle", "trying", "up", "ended"}]
      /\ NoOrphan /\ StopInv
  BY DEF Inv, TypeOK
<1>1. ASSUME NEW p \in Owners, AllStopped(p) PROVE NoOrphan'
  BY <1>1, <1>t DEF AllStopped, StopInv, Held, Owners
<1>2. ASSUME NEW p \in Owners, StartClients(p) PROVE NoOrphan'
  BY <1>2, <1>t DEF StartClients, StopInv, Held, Owners
<1>3. ASSUME NEW o \in Objects, ClientTry(o) \/ ClientUp(o) \/ ClientDown(o) \/ ClientEnd(o)
      PROVE  NoOrphan'
  BY <1>3, <1>t DEF ClientTry, ClientUp, ClientDown, ClientEnd, Become
<1>4. CASE UNCHANGED <<clients, link>>
  BY <1>4, <1>t
<1>5. \/ \E p \in Owners : AllStopped(p) \/ StartClients(p)
      \/ \E o \in Objects : ClientTry(o) \/ ClientUp(o) \/ ClientDown(o) \/ ClientEnd(o)
      \/ UNCHANGED <<clients, link>>
  BY DEF Next, Acquire, Locked, StartDisabled, StartListen, StartFails, EditApp, EditGateway,
     Restart, DeleteTemplate, ReloadIgnored, ReloadFails, ReloadBegin, Reply, Disconnect,
     StopOne, Stopped, ReadApps, ReadAppsFails, Signal, StopIgnored, StopBegin, Halt, vars
<1> QED BY <1>1, <1>2, <1>3, <1>4, <1>5

-----------------------------------------------------------------------------
(* The loop of stopClientsLocked *)

\* Every step of the loop of stopClientsLocked leaves ended clients behind it.
LEMMA StopStep == Inv /\ [Next]_vars => StopInv'
<1> SUFFICES ASSUME Inv, [Next]_vars PROVE StopInv'
    OBVIOUS
<1> USE ManagerAssumption
    DEF Owners, Goto, storeVars, procVars, serverVars, mapVars, objVars, StopInv, Held
<1>t. /\ pc \in [Owners -> {"new", "lock", "stop", "wait", "apps", "start", "serving",
                            "signal", "halt", "reply", "over", "failed"}]
      /\ clients \in [Apps -> Owners \cup {None}]
      /\ link \in [Objects -> {"none", "idle", "trying", "up", "ended"}]
      /\ left \in SUBSET Apps
      /\ HolderInv /\ RunInv /\ StopInv
      /\ ~running /\ pc[Boot] = "new" => Held = {} /\ filters = NoApps
  BY DEF Inv, TypeOK, IdleInv
<1>1. CASE StartDisabled \/ StartListen \/ StartFails
  BY <1>1, <1>t DEF StartDisabled, StartListen, StartFails, RunInv
<1>2. ASSUME NEW r \in Requests,
             EditApp(r) \/ EditGateway(r) \/ Restart(r) \/ DeleteTemplate(r) \/ Reply(r)
      PROVE  StopInv'
  BY <1>2, <1>t DEF EditApp, EditGateway, Restart, DeleteTemplate, Arrive, Reply
<1>3. ASSUME NEW r \in Requests, Disconnect(r) PROVE StopInv'
  BY <1>3, <1>t DEF Disconnect
<1>4. ASSUME NEW r \in Requests, Acquire(r) PROVE StopInv'
  BY <1>4, <1>t DEF Acquire, ReloadIgnored, ReloadFails, ReloadBegin, HolderInv
<1>5. ASSUME NEW p \in Owners, StopOne(p) PROVE StopInv'
  BY <1>5, <1>t DEF StopOne, HolderInv
<1>6. ASSUME NEW p \in Owners, Stopped(p) PROVE StopInv'
  BY <1>6, <1>t DEF Stopped, HolderInv
<1>7. ASSUME NEW p \in Owners, AllStopped(p) PROVE StopInv'
  BY <1>7, <1>t DEF AllStopped, HolderInv
<1>8. ASSUME NEW p \in Owners, ReadApps(p) \/ ReadAppsFails(p) PROVE StopInv'
  BY <1>8, <1>t DEF ReadApps, ReadAppsFails, HolderInv
<1>9. ASSUME NEW p \in Owners, StartClients(p) PROVE StopInv'
  BY <1>9, <1>t DEF StartClients, HolderInv
<1>10. CASE Signal \/ StopIgnored \/ StopBegin \/ Halt
  BY <1>10, <1>t DEF Signal, StopIgnored, StopBegin, Halt, HolderInv
<1>11. ASSUME NEW o \in Objects, ClientTry(o) \/ ClientUp(o) \/ ClientDown(o) \/ ClientEnd(o)
       PROVE  StopInv'
  <2>1. /\ link[o] # "ended" /\ \E l : link' = [link EXCEPT ![o] = l]
        /\ UNCHANGED <<pc, left, waiting, clients, filters>>
    BY <1>11 DEF ClientTry, ClientUp, ClientDown, ClientEnd, Become
  <2>2. \A a \in Held : <<a, clients[a]>> \in Objects
    BY <1>t DEF Objects
  <2>3. \A a \in Held : link[<<a, clients[a]>>] = "ended" => link'[<<a, clients[a]>>] = "ended"
    BY <2>1, <2>2, <1>t
  <2> QED BY <2>1, <2>3, <1>t
<1>12. CASE UNCHANGED vars
  BY <1>12, <1>t DEF vars
<1> QED
  BY <1>1, <1>2, <1>3, <1>4, <1>5, <1>6, <1>7, <1>8, <1>9, <1>10, <1>11, <1>12
     DEF Next, Locked

\* Every step keeps the clients in the map untold, but for those the loop has passed.
LEMMA CloseStep == Inv /\ [Next]_vars => CloseInv'
<1> SUFFICES ASSUME Inv, [Next]_vars PROVE CloseInv'
    OBVIOUS
<1> USE ManagerAssumption DEF Owners, Goto, procVars, mapVars, objVars, CloseInv, Held
<1>t. /\ pc \in [Owners -> {"new", "lock", "stop", "wait", "apps", "start", "serving",
                            "signal", "halt", "reply", "over", "failed"}]
      /\ clients \in [Apps -> Owners \cup {None}]
      /\ HolderInv /\ FreshInv /\ StopInv /\ CloseInv
  BY DEF Inv, TypeOK
<1>1. ASSUME NEW p \in Owners, StopOne(p) PROVE CloseInv'
  <2>1. PICK a \in left :
           /\ left' = left \ {a}
           /\ doubleClose' = (doubleClose \/ <<a, clients[a]>> \in stopClosed)
           /\ stopClosed' = stopClosed \cup {<<a, clients[a]>>}
    BY <1>1 DEF StopOne
  <2>2. a \in Held /\ <<a, clients[a]>> \notin stopClosed
    BY <1>t DEF StopInv
  <2>3. pc'[p] = "wait" /\ clients' = clients
    BY <1>1, <1>t DEF StopOne
  <2>4. ~doubleClose'
    BY <2>1, <2>2, <1>t
  <2> QED BY <2>1, <2>2, <2>3, <2>4, <1>t
<1>2. ASSUME NEW p \in Owners, Stopped(p) PROVE CloseInv'
  BY <1>2, <1>t DEF Stopped
<1>3. ASSUME NEW p \in Owners, AllStopped(p) PROVE CloseInv'
  BY <1>3, <1>t DEF AllStopped
<1>4. ASSUME NEW p \in Owners, StartClients(p) PROVE CloseInv'
  <2>1. Held = {} /\ Unstarted(p)
    BY <1>4, <1>t DEF StartClients, StopInv, Unstarted
  <2>2. \A a \in Apps : clients'[a] # None => clients'[a] = p
    BY <1>4, <2>1 DEF StartClients
  <2> QED BY <1>4, <2>1, <2>2, <1>t DEF StartClients, FreshInv
<1>5. CASE StopBegin \/ \E r \in Requests : ReloadBegin(r)
  <2>1. \A a \in Held : <<a, clients[a]>> \notin stopClosed
    BY <1>5, <1>t DEF StopBegin, ReloadBegin, HolderInv
  <2> QED BY <1>5, <2>1, <1>t DEF StopBegin, ReloadBegin
<1>6. ASSUME UNCHANGED <<clients, stopClosed, left, doubleClose>>,
             \A p \in Owners : pc[p] \in {"stop", "wait"} => pc'[p] \in {"stop", "wait"}
      PROVE  CloseInv'
  BY <1>6, <1>t
<1>7. \/ \E p \in Owners : StopOne(p) \/ Stopped(p) \/ AllStopped(p) \/ StartClients(p)
      \/ StopBegin \/ \E r \in Requests : ReloadBegin(r)
      \/ /\ UNCHANGED <<clients, stopClosed, left, doubleClose>>
         /\ \A p \in Owners : pc[p] \in {"stop", "wait"} => pc'[p] \in {"stop", "wait"}
  BY <1>t DEF Next, Acquire, Locked, StartDisabled, StartListen, StartFails, Arrive, EditApp,
     EditGateway, Restart, DeleteTemplate, ReloadIgnored, ReloadFails, Reply, Disconnect,
     ReadApps, ReadAppsFails, Signal, StopIgnored, Halt, ClientTry, ClientUp, ClientDown,
     ClientEnd, Become, vars
<1> QED BY <1>1, <1>2, <1>3, <1>4, <1>5, <1>6, <1>7

-----------------------------------------------------------------------------
(* What of the store has been read *)

\* A request waits behind an edit.
Pending == \E r \in Requests : pc[r] = "lock"

\* Nobody edits the store without waiting to reload, but DeleteTemplate; and who
\* stops waiting reloads, or leaves what is unapplied.
LEMMA PendingStep ==
    ASSUME Inv, [Next]_vars
    PROVE  /\ \/ UNCHANGED <<dbApps, dbGw>> \/ Pending'
              \/ dbGw' = dbGw /\ unapplied'
           /\ Pending => \/ Pending'
                         \/ \E r \in Requests : ReloadIgnored(r) \/ ReloadFails(r) \/ ReloadBegin(r)
<1> USE ManagerAssumption DEF Owners, Goto, storeVars, procVars, Pending
<1>t. /\ pc \in [Owners -> {"new", "lock", "stop", "wait", "apps", "start", "serving",
                            "signal", "halt", "reply", "over", "failed"}]
      /\ pc[Boot] # "lock"
  BY DEF Inv, TypeOK, HolderInv
<1>1. ASSUME NEW r \in Requests, EditApp(r) \/ EditGateway(r) \/ Restart(r) PROVE Pending'
  BY <1>1, <1>t DEF EditApp, EditGateway, Restart
<1>2. ASSUME NEW r \in Requests, DeleteTemplate(r)
      PROVE  dbGw' = dbGw /\ unapplied' /\ (Pending => Pending')
  BY <1>2, <1>t DEF DeleteTemplate, Arrive
<1>3. ASSUME NEW r \in Requests, ReloadIgnored(r) \/ ReloadFails(r) \/ ReloadBegin(r)
      PROVE  UNCHANGED <<dbApps, dbGw>>
  BY <1>3 DEF ReloadIgnored, ReloadFails, ReloadBegin
<1>4. ASSUME NEW r \in Requests, Reply(r) \/ Disconnect(r)
      PROVE  UNCHANGED <<dbApps, dbGw>> /\ (Pending => Pending')
  BY <1>4, <1>t DEF Reply, Disconnect
<1>5. ASSUME NEW p \in Owners, Locked(p)
      PROVE  UNCHANGED <<dbApps, dbGw>> /\ (Pending => Pending')
  <2>1. /\ UNCHANGED <<dbApps, dbGw>>
        /\ pc[p] # "lock" /\ \E w : pc' = [pc EXCEPT ![p] = w]
    BY <1>5 DEF Locked, StopOne, Stopped, AllStopped, ReadApps, ReadAppsFails, StartClients
  <2> QED BY <2>1, <1>t
<1>6. CASE \/ StartDisabled \/ StartListen \/ StartFails
           \/ Signal \/ StopIgnored \/ StopBegin \/ Halt
  <2>1. /\ UNCHANGED <<dbApps, dbGw>>
        /\ \E w : pc' = [pc EXCEPT ![Boot] = w]
    BY <1>6 DEF StartDisabled, StartListen, StartFails, Signal, StopIgnored, StopBegin, Halt
  <2> QED BY <2>1, <1>t
<1>7. ASSUME \/ \E o \in Objects : ClientTry(o) \/ ClientUp(o) \/ ClientDown(o) \/ ClientEnd(o)
             \/ UNCHANGED vars
      PROVE  UNCHANGED <<dbApps, dbGw, pc>>
  BY <1>7 DEF ClientTry, ClientUp, ClientDown, ClientEnd, Become, vars
<1> QED BY <1>1, <1>2, <1>3, <1>4, <1>5, <1>6, <1>7 DEF Next, Acquire

\* Every step keeps what a reload has read true to the store, if no edit is behind it.
LEMMA ReadStep == Inv /\ [Next]_vars => SyncInv'
<1> SUFFICES ASSUME Inv, [Next]_vars, ~Pending' PROVE SyncInv'
    BY DEF SyncInv, Pending
<1> USE ManagerAssumption DEF Owners, Goto, storeVars, procVars, serverVars
<1>t. /\ pc \in [Owners -> {"new", "lock", "stop", "wait", "apps", "start", "serving",
                            "signal", "halt", "reply", "over", "failed"}]
      /\ HolderInv /\ RunInv /\ SyncInv /\ unapplied \in BOOLEAN /\ running \in BOOLEAN
  BY DEF Inv, TypeOK
<1>1. ASSUME NEW r \in Requests, ReloadIgnored(r) \/ ReloadFails(r) PROVE SyncInv'
  BY <1>1, <1>t DEF ReloadIgnored, ReloadFails, SyncInv, HolderInv
<1>2. ASSUME NEW r \in Requests, ReloadBegin(r) PROVE SyncInv'
  BY <1>2, <1>t DEF ReloadBegin, SyncInv, HolderInv
<1>3. CASE ~Pending
  <2>0. /\ mu # None /\ (running \/ pc[Boot] \in {"apps", "start"}) => gateway = dbGw
        /\ ~unapplied => \A p \in Owners : pc[p] = "start" => seen = dbApps
    BY <1>3, <1>t DEF Pending, SyncInv
  <2>1. UNCHANGED <<dbApps, dbGw>> \/ (dbGw' = dbGw /\ unapplied')
    BY PendingStep
  <2>2. CASE StartListen
    BY <2>2, <1>t DEF StartListen, SyncInv, HolderInv
  <2>3. CASE StopBegin
    BY <2>3, <2>0, <1>t DEF StopBegin, SyncInv
  <2>4. ASSUME NEW p \in Owners, ReadApps(p) PROVE SyncInv'
    BY <2>4, <2>0, <1>t DEF ReadApps, SyncInv
  <2>5. ASSUME NEW p \in Owners, ReadAppsFails(p) \/ StartClients(p) PROVE SyncInv'
    BY <2>5, <2>0, <1>t DEF ReadAppsFails, StartClients, SyncInv, HolderInv
  <2>6. CASE StartDisabled \/ StartFails
    BY <2>6, <2>0, <1>t DEF StartDisabled, StartFails, SyncInv
  <2>7. CASE Signal \/ StopIgnored \/ Halt
    BY <2>7, <2>0, <1>t DEF Signal, StopIgnored, Halt, SyncInv
  <2>8. ASSUME NEW p \in Owners, StopOne(p) \/ Stopped(p) \/ AllStopped(p) PROVE SyncInv'
    BY <2>8, <2>0, <1>t DEF StopOne, Stopped, AllStopped, SyncInv
  <2>9. ASSUME NEW r \in Requests,
               EditApp(r) \/ EditGateway(r) \/ Restart(r) \/ DeleteTemplate(r) \/ Reply(r)
        PROVE  SyncInv'
    <3>1. /\ UNCHANGED <<mu, running, gateway, seen>>
          /\ \E w \in {"lock", "reply", "over"} : pc' = [pc EXCEPT ![r] = w]
          /\ unapplied' = unapplied \/ unapplied'
      BY <2>9 DEF EditApp, EditGateway, Restart, DeleteTemplate, Reply
    <3>2. unapplied' = unapplied \/ unapplied'
      BY <3>1
    <3> QED BY <2>0, <2>1, <3>1, <3>2, <1>t DEF SyncInv
  <2>10. CASE \/ \E r \in Requests : Disconnect(r)
              \/ \E o \in Objects : ClientTry(o) \/ ClientUp(o) \/ ClientDown(o) \/ ClientEnd(o)
              \/ UNCHANGED vars
    BY <2>10, <2>0, <1>t DEF Disconnect, ClientTry, ClientUp, ClientDown, ClientEnd, Become,
       vars, SyncInv
  <2> QED
    BY <1>1, <1>2, <2>2, <2>3, <2>4, <2>5, <2>6, <2>7, <2>8, <2>9, <2>10
       DEF Next, Locked, Acquire
<1> QED BY <1>1, <1>2, <1>3, PendingStep

\* The maps are filled at the end of a reload that has read both tables.
LEMMA SyncStep == Inv /\ [Next]_vars => HeldInv'
<1> SUFFICES ASSUME Inv, [Next]_vars, Quiet', running', ~unapplied'
             PROVE  /\ gateway' = dbGw' /\ filters' = dbApps'
                    /\ \A a \in Apps : clients'[a] # None <=> dbApps'[a] \in Outward
    BY DEF HeldInv
<1> DEFINE Goal == /\ gateway' = dbGw' /\ filters' = dbApps'
                   /\ \A a \in Apps : clients'[a] # None <=> dbApps'[a] \in Outward
<1> USE ManagerAssumption DEF Owners, Goto, storeVars, procVars, serverVars, mapVars
<1>t. /\ TypeOK /\ HolderInv /\ RunInv /\ StopInv /\ SyncInv /\ HeldInv
  BY DEF Inv
<1>0. mu' = None /\ ~Pending'
  BY DEF Quiet, Pending
<1>1. ASSUME NEW p \in Owners, StartClients(p) PROVE Goal
  <2>1. /\ pc[p] = "start" /\ mu = p
        /\ running \/ pc[Boot] \in {"apps", "start"}
        /\ UNCHANGED <<dbApps, dbGw, gateway, unapplied>>
    BY <1>1, <1>t DEF StartClients, HolderInv, RunInv
  <2>2. ~Pending
    BY <1>0, <1>1, PendingStep DEF StartClients, ReloadIgnored, ReloadFails, ReloadBegin
  <2>3. gateway = dbGw /\ seen = dbApps
    BY <2>1, <2>2, <1>t DEF SyncInv, Pending
  <2>4. \A a \in Apps : clients[a] = None /\ filters[a] = Off
    BY <2>1, <1>t DEF StopInv, Held, NoApps
  <2>5. filters' = dbApps
    BY <1>1, <2>3, <2>4, <1>t DEF StartClients, TypeOK
  <2>6. \A a \in Apps : clients'[a] # None <=> dbApps[a] \in Outward
    BY <1>1, <2>3, <2>4 DEF StartClients
  <2> QED BY <2>1, <2>3, <2>5, <2>6
<1>2. ASSUME mu = None, running, ~unapplied, ~Pending,
             UNCHANGED <<dbApps, dbGw, gateway, filters, clients>>
      PROVE  Goal
  BY <1>2, <1>t DEF HeldInv, Quiet, Pending
<1>3. CASE \E r \in Requests : ReloadIgnored(r) \/ ReloadFails(r) \/ ReloadBegin(r)
  BY <1>3, <1>0 DEF ReloadIgnored, ReloadFails, ReloadBegin
<1>4. CASE \/ StartDisabled \/ StartListen \/ StartFails
           \/ StopIgnored \/ StopBegin \/ Halt
  BY <1>4, <1>0, <1>t DEF StartDisabled, StartListen, StartFails, StopIgnored, StopBegin, Halt,
     RunInv
<1>5. ASSUME NEW p \in Owners, StopOne(p) \/ Stopped(p) \/ AllStopped(p) \/ ReadApps(p)
      PROVE  Goal
  BY <1>5, <1>0, <1>t DEF StopOne, Stopped, AllStopped, ReadApps, HolderInv
<1>6. CASE \E p \in Owners : ReadAppsFails(p)
  BY <1>6 DEF ReadAppsFails
<1>7. CASE \E r \in Requests :
              EditApp(r) \/ EditGateway(r) \/ Restart(r) \/ DeleteTemplate(r)
  BY <1>7, <1>0, <1>t DEF EditApp, EditGateway, Restart, DeleteTemplate, Pending, TypeOK
<1>8. CASE \/ \E r \in Requests : Reply(r) \/ Disconnect(r)
           \/ \E o \in Objects : ClientTry(o) \/ ClientUp(o) \/ ClientDown(o) \/ ClientEnd(o)
           \/ Signal \/ UNCHANGED vars
  <2>1. UNCHANGED <<mu, running, unapplied, dbApps, dbGw, gateway, filters, clients>>
    BY <1>8 DEF Reply, Disconnect, ClientTry, ClientUp, ClientDown, ClientEnd, Become, Signal, vars
  <2>2. ~Pending
    BY <1>0, <1>8, PendingStep DEF Pending, Reply, Disconnect, ClientTry, ClientUp, ClientDown,
       ClientEnd, Become, Signal, vars, ReloadIgnored, ReloadFails, ReloadBegin
  <2> QED BY <1>0, <1>2, <2>1, <2>2
<1> QED
  BY <1>1, <1>3, <1>4, <1>5, <1>6, <1>7, <1>8 DEF Next, Locked, Acquire

-----------------------------------------------------------------------------
(* The theorems *)

\* The invariant holds before Start.
LEMMA InvInit == Init => Inv
<1> SUFFICES ASSUME Init PROVE Inv
    OBVIOUS
<1> USE ManagerAssumption DEF Init, Owners
<1>1. TypeOK
  BY DEF TypeOK, NoApps, Gateways
<1>2. HolderInv /\ RunInv /\ IdleInv
  BY DEF HolderInv, RunInv, IdleInv, Held
<1>3. FreshInv /\ NoOrphan
  BY DEF FreshInv, NoOrphan, Live, Objects
<1>4. StopInv /\ CloseInv
  BY DEF StopInv, CloseInv, Held
<1>5. OneCleaner /\ SyncInv /\ HeldInv
  BY DEF OneCleaner, SyncInv, HeldInv
<1> QED BY <1>1, <1>2, <1>3, <1>4, <1>5 DEF Inv

\* Every step keeps every part of the invariant.
LEMMA InvStep == Inv /\ [Next]_vars => Inv'
BY TypeStep, HolderStep, IdleStep, FreshStep, StopStep, CloseStep, OrphanStep, CleanerStep,
   ReadStep, SyncStep DEF Inv

\* The invariant holds of every reachable state.
LEMMA InvCorrect == Safety => []Inv
BY InvInit, InvStep, PTL DEF Safety

\* The types are kept, for every number of apps and of requests.
THEOREM TypeCorrect == Safety => []TypeOK
<1>1. Inv => TypeOK
  BY DEF Inv
<1> QED BY <1>1, InvCorrect, PTL

\* No reload leaves a client object behind that nobody can stop.
THEOREM NoClientOrphaned == Safety => []NoOrphan
<1>1. Inv => NoOrphan
  BY DEF Inv
<1> QED BY <1>1, InvCorrect, PTL

\* No c.stop is closed twice, which would be a panic under m.mu.
THEOREM StopClosedOnce == Safety => []NoDoubleClose
<1>1. Inv => NoDoubleClose
  BY DEF Inv, CloseInv, NoDoubleClose
<1> QED BY <1>1, InvCorrect, PTL

\* There is one cleanup goroutine at most: that of the cache in use.
THEOREM CleanerIsTheOneInUse == Safety => []OneCleaner
<1>1. Inv => OneCleaner
  BY DEF Inv
<1> QED BY <1>1, InvCorrect, PTL

\* Once Stop has returned nothing runs, whatever requests were waiting.
THEOREM StopIsFinal == Safety => []StoppedForGood
<1>1. ASSUME Inv, pc[Boot] = "over"
      PROVE  /\ ~running /\ bound = NoAddr /\ cleaners = {}
             /\ \A o \in Objects : ~Live(o)
  <2>1. ~running /\ Held = {} /\ bound = NoAddr /\ dedup = None
    BY <1>1 DEF Inv, RunInv, IdleInv
  <2>2. cleaners = {}
    BY <1>1, <2>1 DEF Inv, OneCleaner
  <2>3. \A o \in Objects : clients[o[1]] = None /\ o[2] # None
    BY <2>1, ManagerAssumption DEF Held, Objects
  <2>4. \A o \in Objects : ~Live(o)
    BY <1>1, <2>3 DEF Inv, NoOrphan
  <2> QED BY <2>1, <2>2, <2>4
<1>2. Inv => StoppedForGood
  BY <1>1 DEF StoppedForGood
<1> QED BY <1>2, InvCorrect, PTL

\* A client object as ClientLife sees it.
Life(o) == INSTANCE ClientLife
             WITH link <- IF link[o] = "none" THEN "idle" ELSE link[o],
                  quit <- Told(o), crashed <- FALSE

\* What the manager does to a client object is within ClientLife: it is made idle, is told
\* to quit once and for all, and is not made anew; the client's own steps are there by
\* definition.
LEMMA LifeStep ==
    ASSUME Inv, [Next]_vars, NEW o \in Objects
    PROVE  [Life(o)!LifeNext]_(Life(o)!lifeVars)
<1> USE DEF Life!LifeNext, Life!lifeVars, objVars
<1>t. /\ link \in [Objects -> {"none", "idle", "trying", "up", "ended"}]
      /\ ctxDone \in [Owners -> BOOLEAN]
      /\ FreshInv
      /\ o[1] \in Apps /\ o[2] \in Owners /\ o = <<o[1], o[2]>>
  BY DEF Inv, TypeOK, Objects
<1>1. ASSUME NEW q \in Objects, ClientTry(q) \/ ClientUp(q) \/ ClientDown(q) \/ ClientEnd(q)
      PROVE  [Life(o)!LifeNext]_(Life(o)!lifeVars)
  <2>1. UNCHANGED <<stopClosed, ctxDone>> /\ \E l : link' = [link EXCEPT ![q] = l]
    BY <1>1 DEF ClientTry, ClientUp, ClientDown, ClientEnd, Become
  <2>2. Told(o)' = Told(o)
    BY <2>1 DEF Told
  <2>3. CASE q # o
    BY <2>1, <2>2, <2>3, <1>t
  <2>4. CASE q = o
    <3>1. \/ link[o] = "idle" /\ ~Told(o) /\ link'[o] = "trying"
          \/ link[o] = "trying" /\ link'[o] = "up"
          \/ link[o] \in {"trying", "up"} /\ link'[o] = "idle"
          \/ link[o] = "idle" /\ Told(o) /\ link'[o] = "ended"
      BY <1>1, <2>4, <1>t DEF ClientTry, ClientUp, ClientDown, ClientEnd, Become
    <3> QED BY <3>1, <2>2 DEF Life!Try, Life!Settle, Life!Fall, Life!End
  <2> QED BY <2>3, <2>4
<1>2. ASSUME NEW p \in Owners, StartClients(p) PROVE [Life(o)!LifeNext]_(Life(o)!lifeVars)
  <2>1. Told(o)' = Told(o)
    BY <1>2 DEF StartClients, Told
  <2>2. link'[o] = link[o] \/ (link[o] = "none" /\ link'[o] = "idle")
    <3>1. o[2] = p => link[o] = "none"
      BY <1>2, <1>t, ManagerAssumption DEF StartClients, FreshInv, Unstarted
    <3>2. link'[o] = IF o[2] = p /\ seen[o[1]] \in Outward THEN "idle" ELSE link[o]
      BY <1>2 DEF StartClients
    <3> QED BY <3>1, <3>2
  <2> QED BY <2>1, <2>2
<1>3. ASSUME link' = link, Told(o) => Told(o)' PROVE [Life(o)!LifeNext]_(Life(o)!lifeVars)
  BY <1>3 DEF Life!Ask, Told
<1>4. \/ \E q \in Objects : ClientTry(q) \/ ClientUp(q) \/ ClientDown(q) \/ ClientEnd(q)
      \/ \E p \in Owners : StartClients(p)
      \/ link' = link /\ (Told(o) => Told(o)')
  <2>1. ASSUME NEW p \in Owners, StopOne(p) PROVE link' = link /\ (Told(o) => Told(o)')
    BY <2>1 DEF StopOne, Told
  <2>2. ASSUME UNCHANGED <<link, stopClosed>>,
               ctxDone' = ctxDone \/ \E p \in Owners : ctxDone' = [ctxDone EXCEPT ![p] = TRUE]
        PROVE  link' = link /\ (Told(o) => Told(o)')
    BY <2>2, <1>t DEF Told
  <2>3. \/ \E q \in Objects : ClientTry(q) \/ ClientUp(q) \/ ClientDown(q) \/ ClientEnd(q)
        \/ \E p \in Owners : StartClients(p) \/ StopOne(p)
        \/ /\ UNCHANGED <<link, stopClosed>>
           /\ ctxDone' = ctxDone \/ \E p \in Owners : ctxDone' = [ctxDone EXCEPT ![p] = TRUE]
    BY DEF Next, Acquire, Locked, StartDisabled, StartListen, StartFails, EditApp, EditGateway,
       Restart, DeleteTemplate, ReloadIgnored, ReloadFails, ReloadBegin, Reply, Disconnect,
       Stopped, AllStopped, ReadApps, ReadAppsFails, Signal, StopIgnored, StopBegin, Halt, vars,
       Owners
  <2> QED BY <2>1, <2>2, <2>3
<1> QED BY <1>1, <1>2, <1>3, <1>4

-----------------------------------------------------------------------------
(***************************************************************************)
(* The waiting under m.mu.  CallersReturn needs fairness; that whoever has *)
(* m.mu waits for nothing but what ClientLife brings about does not.       *)
(***************************************************************************)
\* How many of its own steps a client is away from its end once it has been told.
Distance(l) ==
    CASE l = "trying" -> 3
      [] l = "up"     -> 2
      [] l = "idle"   -> 1
      [] OTHER        -> 0

\* A client in the map has been started, and one that is waited for is told to stop.
WaitInv ==
    /\ \A a \in Held : link[<<a, clients[a]>>] # "none"
    /\ \A p \in Owners : pc[p] = "wait" => <<waiting, clients[waiting]>> \in stopClosed

\* Every step keeps it: StopOne tells the client it is about to wait for, and while it
\* waits no other caller touches the maps.
LEMMA WaitStep == Inv /\ WaitInv /\ [Next]_vars => WaitInv'
<1> SUFFICES ASSUME Inv, WaitInv, [Next]_vars PROVE WaitInv'
    OBVIOUS
<1> USE ManagerAssumption
    DEF Owners, Goto, storeVars, procVars, serverVars, mapVars, objVars, WaitInv, Held
<1>t. /\ pc \in [Owners -> {"new", "lock", "stop", "wait", "apps", "start", "serving",
                            "signal", "halt", "reply", "over", "failed"}]
      /\ clients \in [Apps -> Owners \cup {None}]
      /\ link \in [Objects -> {"none", "idle", "trying", "up", "ended"}]
      /\ seen \in [Apps -> Configs \cup {Off}]
      /\ HolderInv /\ StopInv
  BY DEF Inv, TypeOK
<1>1. CASE /\ UNCHANGED <<clients, link, waiting, stopClosed>>
           /\ \A p \in Owners : pc'[p] = "wait" => pc[p] = "wait"
  BY <1>1
<1>2. ASSUME NEW p \in Owners, StopOne(p) PROVE WaitInv'
  <2>1. PICK a \in left : waiting' = a /\ stopClosed' = stopClosed \cup {<<a, clients[a]>>}
    BY <1>2 DEF StopOne
  <2>2. UNCHANGED <<clients, link>>
    BY <1>2 DEF StopOne
  <2> QED BY <2>1, <2>2
<1>3. ASSUME NEW p \in Owners, Stopped(p) \/ AllStopped(p) PROVE WaitInv'
  <2>1. \A q \in Owners : pc'[q] # "wait"
    BY <1>3, <1>t DEF Stopped, AllStopped, HolderInv
  <2>2. link' = link /\ \A a \in Apps : clients'[a] \in {None, clients[a]}
    BY <1>3, <1>t DEF Stopped, AllStopped
  <2> QED BY <2>1, <2>2
<1>4. ASSUME NEW p \in Owners, StartClients(p) PROVE WaitInv'
  <2>1. \A q \in Owners : pc'[q] # "wait"
    BY <1>4, <1>t DEF StartClients, HolderInv
  <2>2. Held = {}
    BY <1>4, <1>t DEF StartClients, StopInv
  <2>3. ASSUME NEW a \in Apps, clients'[a] # None PROVE link'[<<a, clients'[a]>>] # "none"
    <3>1. clients'[a] = p /\ seen[a] \in Outward
      BY <1>4, <2>2, <2>3 DEF StartClients
    <3>2. <<a, p>> \in Objects /\ <<a, p>>[1] = a /\ <<a, p>>[2] = p
      BY DEF Objects
    <3>3. link'[<<a, p>>] = "idle"
      BY <1>4, <3>1, <3>2 DEF StartClients
    <3> QED BY <3>1, <3>3
  <2> QED BY <2>1, <2>3
<1>5. ASSUME NEW o \in Objects, ClientTry(o) \/ ClientUp(o) \/ ClientDown(o) \/ ClientEnd(o)
      PROVE  WaitInv'
  <2>1. /\ \E l \in {"idle", "trying", "up", "ended"} : link' = [link EXCEPT ![o] = l]
        /\ UNCHANGED <<pc, clients, waiting, stopClosed>>
    BY <1>5 DEF ClientTry, ClientUp, ClientDown, ClientEnd, Become
  <2>2. \A q \in Objects : link[q] # "none" => link'[q] # "none"
    BY <2>1, <1>t
  <2>3. \A a \in Held : <<a, clients[a]>> \in Objects
    BY <1>t DEF Objects
  <2> QED BY <2>1, <2>2, <2>3
<1>6. \/ /\ UNCHANGED <<clients, link, waiting, stopClosed>>
         /\ \A p \in Owners : pc'[p] = "wait" => pc[p] = "wait"
      \/ \E p \in Owners : StopOne(p) \/ Stopped(p) \/ AllStopped(p) \/ StartClients(p)
      \/ \E o \in Objects : ClientTry(o) \/ ClientUp(o) \/ ClientDown(o) \/ ClientEnd(o)
  <2>1. CASE \/ StartDisabled \/ StartListen \/ StartFails \/ Signal \/ StopIgnored
             \/ StopBegin \/ Halt \/ UNCHANGED vars
    BY <2>1, <1>t DEF StartDisabled, StartListen, StartFails, Signal, StopIgnored, StopBegin,
       Halt, vars
  <2>2. ASSUME NEW r \in Requests,
               \/ EditApp(r) \/ EditGateway(r) \/ Restart(r) \/ DeleteTemplate(r)
               \/ Acquire(r) \/ Reply(r) \/ Disconnect(r)
        PROVE  /\ UNCHANGED <<clients, link, waiting, stopClosed>>
               /\ \A p \in Owners : pc'[p] = "wait" => pc[p] = "wait"
    BY <2>2, <1>t DEF EditApp, EditGateway, Restart, DeleteTemplate, Acquire, ReloadIgnored,
       ReloadFails, ReloadBegin, Reply, Disconnect
  <2>3. ASSUME NEW q \in Owners, ReadApps(q) \/ ReadAppsFails(q)
        PROVE  /\ UNCHANGED <<clients, link, waiting, stopClosed>>
               /\ \A p \in Owners : pc'[p] = "wait" => pc[p] = "wait"
    BY <2>3, <1>t DEF ReadApps, ReadAppsFails
  <2> QED BY <2>1, <2>2, <2>3 DEF Next, Locked
<1> QED BY <1>1, <1>2, <1>3, <1>4, <1>5, <1>6

\* No caller waits for another, or for a client that it has not told to quit.
THEOREM WaitsAreAnswered == Safety => []WaitAnswered
<1>1. Init => WaitInv
  BY ManagerAssumption DEF Init, WaitInv, Held, Owners
<1>2. Inv /\ WaitInv => WaitAnswered
  <2> SUFFICES ASSUME Inv, WaitInv, NEW p \in Owners, pc[p] = "wait"
               PROVE  LET o == <<waiting, clients[waiting]>>
                      IN  mu = p /\ o \in Objects /\ Told(o) /\ link[o] # "none"
    BY DEF WaitAnswered
  <2>1. mu = p /\ waiting \in Held
    BY DEF Inv, HolderInv, StopInv
  <2>2. waiting \in Apps /\ clients[waiting] \in Owners
    BY <2>1 DEF Inv, TypeOK, Held
  <2> QED BY <2>1, <2>2 DEF WaitInv, Told, Objects
<1> QED BY <1>1, <1>2, InvCorrect, WaitStep, PTL DEF Safety

\* A client that has been told to quit stays told, and each of its steps brings it nearer
\* to its end, whatever its manager does meanwhile: of ClientLife nothing else is used.
THEOREM ToldClientsSettle ==
    Safety => [][\A o \in Objects : Told(o) /\ Live(o) =>
                    /\ Told(o)'
                    /\ \/ link'[o] = link[o]
                       \/ Distance(link'[o]) < Distance(link[o])]_vars
<1>1. ASSUME NEW o \in Objects, [Life(o)!LifeNext]_(Life(o)!lifeVars), Told(o), Live(o),
             link[o] \in {"none", "idle", "trying", "up", "ended"},
             link'[o] \in {"none", "idle", "trying", "up", "ended"}
      PROVE  /\ Told(o)'
             /\ \/ link'[o] = link[o]
                \/ Distance(link'[o]) < Distance(link[o])
  <2>1. /\ Told(o)'
        /\ \/ link'[o] = link[o]
           \/ link[o] = "trying" /\ link'[o] \in {"up", "idle", "none"}
           \/ link[o] = "up" /\ link'[o] \in {"idle", "none"}
           \/ link[o] = "idle" /\ link'[o] \in {"ended", "none"}
    BY <1>1 DEF Life!LifeNext, Life!lifeVars, Life!Ask, Life!Try, Life!Settle, Life!Fall,
       Life!End, Life!Crash, Live
  <2>2. /\ Distance("trying") = 3 /\ Distance("up") = 2 /\ Distance("idle") = 1
        /\ Distance("ended") = 0 /\ Distance("none") = 0
    BY DEF Distance
  <2> QED BY <2>1, <2>2
<1>2. ASSUME Inv, Inv', [Next]_vars, NEW o \in Objects, Told(o), Live(o)
      PROVE  /\ Told(o)'
             /\ \/ link'[o] = link[o]
                \/ Distance(link'[o]) < Distance(link[o])
  <2>1. [Life(o)!LifeNext]_(Life(o)!lifeVars)
    BY <1>2, LifeStep
  <2>2. /\ link[o] \in {"none", "idle", "trying", "up", "ended"}
        /\ link'[o] \in {"none", "idle", "trying", "up", "ended"}
    BY <1>2 DEF Inv, TypeOK
  <2> QED BY <1>1, <1>2, <2>1, <2>2
<1>3. Inv /\ Inv' /\ [Next]_vars
        => [\A o \in Objects : Told(o) /\ Live(o) =>
                /\ Told(o)'
                /\ \/ link'[o] = link[o]
                   \/ Distance(link'[o]) < Distance(link[o])]_vars
  BY <1>2
<1> QED BY <1>3, InvCorrect, PTL DEF Safety

\* A client has ended only if it was told to.
EndedInv == \A o \in Objects : link[o] = "ended" => Told(o)

\* Every step keeps it: a client that is told stays told.
LEMMA EndedStep == Inv /\ EndedInv /\ [Next]_vars => EndedInv'
<1> SUFFICES ASSUME Inv, EndedInv, [Next]_vars, NEW o \in Objects, link'[o] = "ended"
             PROVE  Told(o)'
    BY DEF EndedInv
<1>1. [Life(o)!LifeNext]_(Life(o)!lifeVars)
  BY LifeStep
<1>2. link[o] = "ended" => Told(o)
  BY DEF EndedInv
<1> QED
  BY <1>1, <1>2 DEF Life!LifeNext, Life!lifeVars, Life!Ask, Life!Try, Life!Settle, Life!Fall,
     Life!End, Life!Crash

\* However edits and reloads interleave, the manager holds in the end what the store says:
\* the settings, the filters, and client objects that nobody has stopped.
THEOREM StoreIsApplied == Safety => []InSync
<1>1. Init => WaitInv /\ EndedInv
  BY ManagerAssumption DEF Init, WaitInv, EndedInv, Held, Owners
<1>2. ASSUME Inv, WaitInv, EndedInv, Quiet, running, ~unapplied
      PROVE  /\ gateway = dbGw
             /\ filters = dbApps
             /\ \A a \in Apps : IF dbApps[a] \in Outward
                                 THEN clients[a] # None /\ Unstopped(<<a, clients[a]>>)
                                 ELSE clients[a] = None
  <2>1. /\ gateway = dbGw
        /\ filters = dbApps
        /\ \A a \in Apps : clients[a] # None <=> dbApps[a] \in Outward
    BY <1>2 DEF Inv, HeldInv
  <2>2. ASSUME NEW a \in Apps, clients[a] # None PROVE Unstopped(<<a, clients[a]>>)
    <3> DEFINE o == <<a, clients[a]>>
    <3>1. clients[a] \in Owners
      BY <1>2, <2>2 DEF Inv, TypeOK
    <3>2. o \in Objects /\ a \in Held
      BY <2>2, <3>1 DEF Objects, Held
    <3>3. \A p \in Owners : pc[p] \notin {"stop", "wait"}
      BY <1>2, ManagerAssumption DEF Inv, HolderInv, Quiet
    <3>4. o \notin stopClosed
      BY <1>2, <3>2, <3>3 DEF Inv, CloseInv
    <3>5. link[o] # "none"
      BY <1>2, <3>2 DEF WaitInv
    <3>6. link[o] = "ended" => ctxDone[o[2]]
      BY <1>2, <3>2, <3>4 DEF EndedInv, Told
    <3> QED BY <3>4, <3>5, <3>6 DEF Unstopped, Live
  <2> QED BY <2>1, <2>2
<1>3. Inv /\ WaitInv /\ EndedInv => InSync
  BY <1>2 DEF InSync
<1> QED BY <1>1, <1>3, InvCorrect, WaitStep, EndedStep, PTL DEF Safety
=============================================================================

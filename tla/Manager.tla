------------------------------ MODULE Manager ------------------------------
(***************************************************************************)
(* The Manager of internal/filter/manager.go with its callers: main, which *)
(* calls Start once and Stop on a signal, and the handlers of the console  *)
(* API, each of which edits the store and then calls Reload with the       *)
(* context of its own request.  Start, Stop and Reload run under m.mu.     *)
(*                                                                         *)
(* A client object is named <<app, owner>>: its app and the caller of      *)
(* startClientsLocked that created it, whose context it was given.  What   *)
(* it does on its own is what ClientLife says; DownstreamClient implements *)
(* that.  The effective configuration of an app (its URI, its rules or     *)
(* those of its template) is one value; Off stands for an app that is      *)
(* disabled or not in the store.                                           *)
(***************************************************************************)
EXTENDS Integers, FiniteSets

CONSTANTS
    Apps,       \* the names of the downstream apps
    Configs,    \* effective configurations of an enabled app
    Internal,   \* those of an app with Internal set: rules, but no client
    Off,        \* the app is disabled or absent
    Addrs,      \* addresses the gateway may be configured to listen on
    NoAddr,     \* the gateway is disabled; nothing is bound
    Boot,       \* main
    Requests,   \* the requests to the console API while we look
    None        \* nobody

Owners == {Boot} \cup Requests

ASSUME ManagerAssumption ==
    /\ Internal \subseteq Configs
    /\ Off \notin Configs
    /\ NoAddr \notin Addrs
    /\ Boot \notin Requests
    /\ None \notin Owners

VARIABLES
    dbApps,     \* the store: the configuration of each app
    dbGw,       \* the store: the gateway row
    pc,         \* where each owner is in its handler
    mu,         \* who holds m.mu
    left,       \* the clients the loop of stopClientsLocked has yet to visit
    waiting,    \* the app whose c.stopped that loop waits for
    seen,       \* the apps startClientsLocked has read, while it is in there
    running,    \* m.running
    gateway,    \* m.gateway
    bound,      \* the address of the listener of m.httpSrv
    dedup,      \* m.server.dedup: the owner that made it
    cleaners,   \* the dedup caches whose cleanup goroutine runs
    clients,    \* m.clients: the owner of the object in the map
    filters,    \* m.filters: the configuration compiled
    link,       \* each client object, as ClientLife sees it
    stopClosed, \* the objects whose c.stop is closed
    ctxDone,    \* the owners whose context is done
    unapplied,  \* history: the store was changed, or could not be read, without
                \* a later read by startClientsLocked
    doubleClose \* close(c.stop) was called on a closed channel: a panic

storeVars  == <<dbApps, dbGw>>
procVars   == <<pc, mu, left, waiting, seen>>
serverVars == <<running, gateway, bound, dedup, cleaners>>
mapVars    == <<clients, filters>>
objVars    == <<link, stopClosed>>
vars       == <<storeVars, procVars, serverVars, mapVars, objVars, ctxDone,
                unapplied, doubleClose>>

Objects == Apps \X Owners

\* Configurations that startClientsLocked gives a wsClient to.
Outward == Configs \ Internal

Gateways == [listen : Addrs \cup {NoAddr}, dedup : BOOLEAN]

Told(o) == o \in stopClosed \/ ctxDone[o[2]]

Live(o) == link[o] \notin {"none", "ended"}

TypeOK ==
    /\ dbApps \in [Apps -> Configs \cup {Off}]
    /\ dbGw \in Gateways
    /\ pc \in [Owners -> {"new", "lock", "stop", "wait", "apps", "start", "serving",
                          "signal", "halt", "reply", "over", "failed"}]
    /\ mu \in Owners \cup {None}
    /\ left \in SUBSET Apps
    /\ waiting \in Apps \cup {None}
    /\ seen \in [Apps -> Configs \cup {Off}]
    /\ running \in BOOLEAN
    /\ gateway \in Gateways
    /\ bound \in Addrs \cup {NoAddr}
    /\ dedup \in Owners \cup {None}
    /\ cleaners \in SUBSET Owners
    /\ clients \in [Apps -> Owners \cup {None}]
    /\ filters \in [Apps -> Configs \cup {Off}]
    /\ link \in [Objects -> {"none", "idle", "trying", "up", "ended"}]
    /\ stopClosed \in SUBSET Objects
    /\ ctxDone \in [Owners -> BOOLEAN]
    /\ unapplied \in BOOLEAN
    /\ doubleClose \in BOOLEAN

NoApps == [a \in Apps |-> Off]

\* The store is what an earlier run of the program left.
Init ==
    /\ dbApps \in [Apps -> Configs \cup {Off}]
    /\ dbGw \in Gateways
    /\ pc = [p \in Owners |-> "new"]
    /\ mu = None
    /\ left = {}
    /\ waiting = None
    /\ seen = NoApps
    /\ running = FALSE
    /\ gateway = [listen |-> NoAddr, dedup |-> FALSE]
    /\ bound = NoAddr
    /\ dedup = None
    /\ cleaners = {}
    /\ clients = [a \in Apps |-> None]
    /\ filters = NoApps
    /\ link = [o \in Objects |-> "none"]
    /\ stopClosed = {}
    /\ ctxDone = [p \in Owners |-> FALSE]
    /\ unapplied = FALSE
    /\ doubleClose = FALSE

Goto(p, where) == pc' = [pc EXCEPT ![p] = where]

-----------------------------------------------------------------------------
(* Start *)

\* A disabled gateway: Start returns without a server, and main goes on.
StartDisabled ==
    /\ pc[Boot] = "new" /\ mu = None
    /\ dbGw.listen = NoAddr
    /\ gateway' = dbGw
    /\ Goto(Boot, "serving")
    /\ UNCHANGED <<storeVars, mu, left, waiting, seen, running, bound, dedup, cleaners,
                   mapVars, objVars, ctxDone, unapplied, doubleClose>>

\* The address is bound before the clients are started.
StartListen ==
    /\ pc[Boot] = "new" /\ mu = None
    /\ dbGw.listen # NoAddr
    /\ mu' = Boot
    /\ gateway' = dbGw
    /\ dedup' = IF dbGw.dedup THEN Boot ELSE None
    /\ cleaners' = IF dbGw.dedup THEN {Boot} ELSE {}
    /\ bound' = dbGw.listen
    /\ Goto(Boot, "apps")
    /\ UNCHANGED <<storeVars, left, waiting, seen, running, mapVars, objVars, ctxDone,
                   unapplied, doubleClose>>

\* net.Listen fails: main gives up, and the process exits.
StartFails ==
    /\ pc[Boot] = "new" /\ mu = None
    /\ dbGw.listen # NoAddr
    /\ gateway' = dbGw
    /\ ctxDone' = [ctxDone EXCEPT ![Boot] = TRUE]
    /\ Goto(Boot, "failed")
    /\ UNCHANGED <<storeVars, mu, left, waiting, seen, running, bound, dedup, cleaners,
                   mapVars, objVars, unapplied, doubleClose>>

-----------------------------------------------------------------------------
(* The handlers of the console API, up to their call of Reload *)

\* The API is served once Start has returned, and still when Stop has: its server
\* is shut down after the manager.
Served == pc[Boot] \in {"serving", "signal", "stop", "wait", "halt", "over"}

Arrive(r) == pc[r] = "new" /\ Served

\* Create, update or delete an app, update a template: one row of the store.
EditApp(r) ==
    /\ Arrive(r)
    /\ \E a \in Apps, c \in Configs \cup {Off} :
         /\ c # dbApps[a]
         /\ dbApps' = [dbApps EXCEPT ![a] = c]
    /\ Goto(r, "lock")
    /\ UNCHANGED <<dbGw, mu, left, waiting, seen, serverVars, mapVars, objVars, ctxDone,
                   unapplied, doubleClose>>

EditGateway(r) ==
    /\ Arrive(r)
    /\ dbGw' \in Gateways \ {dbGw}
    /\ Goto(r, "lock")
    /\ UNCHANGED <<dbApps, mu, left, waiting, seen, serverVars, mapVars, objVars, ctxDone,
                   unapplied, doubleClose>>

\* /api/gateway/restart reloads and edits nothing.
Restart(r) ==
    /\ Arrive(r)
    /\ Goto(r, "lock")
    /\ UNCHANGED <<storeVars, mu, left, waiting, seen, serverVars, mapVars, objVars,
                   ctxDone, unapplied, doubleClose>>

\* Deleting a template changes the rules of the apps that refer to it, and the
\* handler does not reload.
DeleteTemplate(r) ==
    /\ Arrive(r)
    /\ \E a \in Apps, c \in Configs :
         /\ dbApps[a] \in Configs \ {c}
         /\ c \in Internal <=> dbApps[a] \in Internal
         /\ dbApps' = [dbApps EXCEPT ![a] = c]
    /\ unapplied' = TRUE
    /\ Goto(r, "reply")
    /\ UNCHANGED <<dbGw, mu, left, waiting, seen, serverVars, mapVars, objVars, ctxDone,
                   doubleClose>>

\* net/http cancels the context of a request when its handler has returned.
Reply(r) ==
    /\ pc[r] = "reply"
    /\ ctxDone' = [ctxDone EXCEPT ![r] = TRUE]
    /\ Goto(r, "over")
    /\ UNCHANGED <<storeVars, mu, left, waiting, seen, serverVars, mapVars, objVars,
                   unapplied, doubleClose>>

\* ... and when its caller goes away.
Disconnect(r) ==
    /\ pc[r] \notin {"new", "over"} /\ ~ctxDone[r]
    /\ ctxDone' = [ctxDone EXCEPT ![r] = TRUE]
    /\ UNCHANGED <<storeVars, procVars, serverVars, mapVars, objVars, unapplied,
                   doubleClose>>

-----------------------------------------------------------------------------
(* Reload *)

Held == {a \in Apps : clients[a] # None}

\* Mutant: gives up when m.mu is taken (TryLock).
ReloadIgnoredIfBusy(r) ==
    /\ pc[r] = "lock"
    /\ ~running \/ mu # None
    /\ Goto(r, "reply")
    /\ UNCHANGED <<storeVars, mu, left, waiting, seen, serverVars, mapVars, objVars,
                   ctxDone, unapplied, doubleClose>>

ReloadIgnored(r) ==
    /\ pc[r] = "lock" /\ mu = None
    /\ ~running
    /\ Goto(r, "reply")
    /\ UNCHANGED <<storeVars, mu, left, waiting, seen, serverVars, mapVars, objVars,
                   ctxDone, unapplied, doubleClose>>

\* The gateway row cannot be read: nothing is touched.
ReloadFails(r) ==
    /\ pc[r] = "lock" /\ mu = None
    /\ running
    /\ unapplied' = TRUE
    /\ Goto(r, "reply")
    /\ UNCHANGED <<storeVars, mu, left, waiting, seen, serverVars, mapVars, objVars,
                   ctxDone, doubleClose>>

\* Mutant: loops over the apps instead of the clients in the map.
ReloadBeginAllApps(r) ==
    /\ pc[r] = "lock" /\ mu = None
    /\ running
    /\ mu' = r
    /\ gateway' = dbGw
    /\ cleaners' = (cleaners \ {dedup}) \cup (IF dbGw.dedup THEN {r} ELSE {})
    /\ dedup' = IF dbGw.dedup THEN r ELSE None
    /\ left' = Apps
    /\ Goto(r, "stop")
    /\ UNCHANGED <<storeVars, waiting, seen, running, bound, mapVars, objVars, ctxDone,
                   unapplied, doubleClose>>

\* Mutant: the old dedup cache is replaced without being stopped.
ReloadBeginNoDedupStop(r) ==
    /\ pc[r] = "lock" /\ mu = None
    /\ running
    /\ mu' = r
    /\ gateway' = dbGw
    /\ cleaners' = cleaners \cup (IF dbGw.dedup THEN {r} ELSE {})
    /\ dedup' = IF dbGw.dedup THEN r ELSE None
    /\ left' = Held
    /\ Goto(r, "stop")
    /\ UNCHANGED <<storeVars, waiting, seen, running, bound, mapVars, objVars, ctxDone,
                   unapplied, doubleClose>>

\* Mutant: does not ask whether the manager runs.
ReloadBeginAnyway(r) ==
    /\ pc[r] = "lock" /\ mu = None
    /\ mu' = r
    /\ gateway' = dbGw
    /\ cleaners' = (cleaners \ {dedup}) \cup (IF dbGw.dedup THEN {r} ELSE {})
    /\ dedup' = IF dbGw.dedup THEN r ELSE None
    /\ left' = Held
    /\ Goto(r, "stop")
    /\ UNCHANGED <<storeVars, waiting, seen, running, bound, mapVars, objVars, ctxDone,
                   unapplied, doubleClose>>

\* The settings and the dedup cache are replaced; the listener stays.
ReloadBegin(r) ==
    /\ pc[r] = "lock" /\ mu = None
    /\ running
    /\ mu' = r
    /\ gateway' = dbGw
    /\ cleaners' = (cleaners \ {dedup}) \cup (IF dbGw.dedup THEN {r} ELSE {})
    /\ dedup' = IF dbGw.dedup THEN r ELSE None
    /\ left' = Held
    /\ Goto(r, "stop")
    /\ UNCHANGED <<storeVars, waiting, seen, running, bound, mapVars, objVars, ctxDone,
                   unapplied, doubleClose>>

-----------------------------------------------------------------------------
(* stopClientsLocked *)

StopOne(p) ==
    /\ pc[p] = "stop"
    /\ \E a \in left :
         /\ left' = left \ {a}
         /\ waiting' = a
         /\ doubleClose' = (doubleClose \/ <<a, clients[a]>> \in stopClosed)
         /\ stopClosed' = stopClosed \cup {<<a, clients[a]>>}
    /\ Goto(p, "wait")
    /\ UNCHANGED <<storeVars, mu, seen, serverVars, mapVars, link, ctxDone, unapplied>>

\* Mutant: does not wait for c.stopped.
StoppedNoWait(p) ==
    /\ pc[p] = "wait"
    /\ waiting' = None
    /\ Goto(p, "stop")
    /\ UNCHANGED <<storeVars, mu, left, seen, serverVars, mapVars, objVars, ctxDone,
                   unapplied, doubleClose>>

Stopped(p) ==
    /\ pc[p] = "wait"
    /\ link[<<waiting, clients[waiting]>>] = "ended"
    /\ waiting' = None
    /\ Goto(p, "stop")
    /\ UNCHANGED <<storeVars, mu, left, seen, serverVars, mapVars, objVars, ctxDone,
                   unapplied, doubleClose>>

\* Mutant: the maps are not emptied.
AllStoppedKeepsMaps(p) ==
    /\ pc[p] = "stop" /\ left = {}
    /\ Goto(p, IF p = Boot THEN "halt" ELSE "apps")
    /\ UNCHANGED <<storeVars, mu, left, waiting, seen, serverVars, mapVars, objVars,
                   ctxDone, unapplied, doubleClose>>

AllStopped(p) ==
    /\ pc[p] = "stop" /\ left = {}
    /\ clients' = [a \in Apps |-> None]
    /\ filters' = NoApps
    /\ Goto(p, IF p = Boot THEN "halt" ELSE "apps")
    /\ UNCHANGED <<storeVars, mu, left, waiting, seen, serverVars, objVars, ctxDone,
                   unapplied, doubleClose>>

-----------------------------------------------------------------------------
(* startClientsLocked *)

ReadApps(p) ==
    /\ pc[p] = "apps"
    /\ seen' = dbApps
    /\ unapplied' = FALSE
    /\ Goto(p, "start")
    /\ UNCHANGED <<storeVars, mu, left, waiting, serverVars, mapVars, objVars, ctxDone,
                   doubleClose>>

\* Mutant: an error path that keeps m.mu.
ReadAppsFailsLocked(p) ==
    /\ pc[p] = "apps"
    /\ unapplied' = TRUE
    /\ running' = (running \/ p = Boot)
    /\ Goto(p, IF p = Boot THEN "serving" ELSE "reply")
    /\ UNCHANGED <<storeVars, mu, left, waiting, seen, gateway, bound, dedup, cleaners,
                   mapVars, objVars, ctxDone, doubleClose>>

\* One of the three reads fails.  The maps stay empty; Start goes on without
\* clients, Reload returns the error.
ReadAppsFails(p) ==
    /\ pc[p] = "apps"
    /\ unapplied' = TRUE
    /\ running' = (running \/ p = Boot)
    /\ mu' = None
    /\ Goto(p, IF p = Boot THEN "serving" ELSE "reply")
    /\ UNCHANGED <<storeVars, left, waiting, seen, gateway, bound, dedup, cleaners, mapVars,
                   objVars, ctxDone, doubleClose>>

\* Mutant: an app with Internal set gets a client object too, without its goroutine.
StartClientsInternal(p) ==
    /\ pc[p] = "start"
    /\ filters' = [a \in Apps |-> IF seen[a] # Off THEN seen[a] ELSE filters[a]]
    /\ clients' = [a \in Apps |-> IF seen[a] # Off THEN p ELSE clients[a]]
    /\ link' = [o \in Objects |->
                  IF o[2] = p /\ seen[o[1]] \in Outward THEN "idle" ELSE link[o]]
    /\ seen' = NoApps
    /\ running' = (running \/ p = Boot)
    /\ mu' = None
    /\ Goto(p, IF p = Boot THEN "serving" ELSE "reply")
    /\ UNCHANGED <<storeVars, left, waiting, gateway, bound, dedup, cleaners,
                   stopClosed, ctxDone, unapplied, doubleClose>>

StartClients(p) ==
    /\ pc[p] = "start"
    /\ filters' = [a \in Apps |-> IF seen[a] # Off THEN seen[a] ELSE filters[a]]
    /\ clients' = [a \in Apps |-> IF seen[a] \in Outward THEN p ELSE clients[a]]
    /\ link' = [o \in Objects |->
                  IF o[2] = p /\ seen[o[1]] \in Outward THEN "idle" ELSE link[o]]
    /\ seen' = NoApps
    /\ running' = (running \/ p = Boot)
    /\ mu' = None
    /\ Goto(p, IF p = Boot THEN "serving" ELSE "reply")
    /\ UNCHANGED <<storeVars, left, waiting, gateway, bound, dedup, cleaners,
                   stopClosed, ctxDone, unapplied, doubleClose>>

-----------------------------------------------------------------------------
(* Stop *)

Signal ==
    /\ pc[Boot] = "serving"
    /\ Goto(Boot, "signal")
    /\ UNCHANGED <<storeVars, mu, left, waiting, seen, serverVars, mapVars, objVars,
                   ctxDone, unapplied, doubleClose>>

StopIgnored ==
    /\ pc[Boot] = "signal" /\ mu = None
    /\ ~running
    /\ Goto(Boot, "over")
    /\ UNCHANGED <<storeVars, mu, left, waiting, seen, serverVars, mapVars, objVars,
                   ctxDone, unapplied, doubleClose>>

StopBegin ==
    /\ pc[Boot] = "signal" /\ mu = None
    /\ running
    /\ mu' = Boot
    /\ running' = FALSE
    /\ left' = Held
    /\ Goto(Boot, "stop")
    /\ UNCHANGED <<storeVars, waiting, seen, gateway, bound, dedup, cleaners, mapVars,
                   objVars, ctxDone, unapplied, doubleClose>>

Halt ==
    /\ pc[Boot] = "halt"
    /\ ctxDone' = [ctxDone EXCEPT ![Boot] = TRUE]
    /\ bound' = NoAddr
    /\ cleaners' = cleaners \ {dedup}
    /\ dedup' = None
    /\ mu' = None
    /\ Goto(Boot, "over")
    /\ UNCHANGED <<storeVars, left, waiting, seen, running, gateway, mapVars, objVars,
                   unapplied, doubleClose>>

-----------------------------------------------------------------------------
(* The client objects: the steps of ClientLife, and no assumption beyond them *)

Become(o, l) ==
    /\ link' = [link EXCEPT ![o] = l]
    /\ UNCHANGED <<storeVars, procVars, serverVars, mapVars, stopClosed, ctxDone,
                   unapplied, doubleClose>>

ClientTry(o) == link[o] = "idle" /\ ~Told(o) /\ Become(o, "trying")

\* addClient refuses a second client of a name.
ClientUp(o) ==
    /\ link[o] = "trying"
    /\ \A p \in Owners \ {o[2]} : link[<<o[1], p>>] # "up"
    /\ Become(o, "up")

ClientDown(o) == link[o] \in {"trying", "up"} /\ Become(o, "idle")

ClientEnd(o) == link[o] = "idle" /\ Told(o) /\ Become(o, "ended")

-----------------------------------------------------------------------------

Acquire(r) == ReloadIgnored(r) \/ ReloadFails(r) \/ ReloadBegin(r)

Locked(p) ==
    StopOne(p) \/ Stopped(p) \/ AllStopped(p) \/ ReadApps(p) \/ ReadAppsFails(p)
    \/ StartClients(p)

Next ==
    \/ StartDisabled \/ StartListen \/ StartFails
    \/ \E r \in Requests :
         \/ EditApp(r) \/ EditGateway(r) \/ Restart(r) \/ DeleteTemplate(r)
         \/ Acquire(r) \/ Reply(r) \/ Disconnect(r)
    \/ \E p \in Owners : Locked(p)
    \/ Signal \/ StopIgnored \/ StopBegin \/ Halt
    \/ \E o \in Objects : ClientTry(o) \/ ClientUp(o) \/ ClientDown(o) \/ ClientEnd(o)

Safety == Init /\ [][Next]_vars

\* m.mu is handed on fairly; whoever has it is scheduled; a client told to quit
\* ends (ClientLife).
Fairness ==
    /\ WF_vars(StartDisabled \/ StartListen \/ StartFails)
    /\ \A r \in Requests : SF_vars(Acquire(r)) /\ WF_vars(Reply(r))
    /\ \A p \in Owners : WF_vars(Locked(p))
    /\ SF_vars(StopIgnored \/ StopBegin) /\ WF_vars(Halt)
    /\ \A o \in Objects : WF_vars(Told(o) /\ (ClientUp(o) \/ ClientDown(o) \/ ClientEnd(o)))

Spec == Safety /\ Fairness

-----------------------------------------------------------------------------
(* Properties *)

\* A client object that has not ended is the one in m.clients under its name: no
\* reload leaves one behind that nobody can stop, and no app has two, so that
\* addClient never refuses and removeClient, which goes by name, never removes
\* the entry of another object.
NoOrphan == \A o \in Objects : Live(o) => clients[o[1]] = o[2]

\* No c.stop is closed twice.
NoDoubleClose == ~doubleClose

\* A cleanup goroutine runs for the dedup cache in use and for no other, and
\* none of them was made for settings that switch dedup off.
OneCleaner ==
    /\ cleaners = IF dedup = None THEN {} ELSE {dedup}
    /\ dedup # None => gateway.dedup

\* Once no request is between its edit and its reload, and the last reload could
\* read the store, the manager holds what the store says, however the edits and the
\* reloads of several requests interleaved: the settings, the compiled filter of each
\* enabled app, and for each that is not internal a client object that nobody has
\* stopped and that has not ended, except through the context of the request that
\* started it (ReloadedClientsStay).  Where the gateway listens is another question
\* (ListensAsConfigured).
Quiet == mu = None /\ \A r \in Requests : pc[r] # "lock"

Unstopped(o) == o \notin stopClosed /\ (Live(o) \/ ctxDone[o[2]])

InSync ==
    Quiet /\ running /\ ~unapplied =>
        /\ gateway = dbGw
        /\ filters = dbApps
        /\ \A a \in Apps : IF dbApps[a] \in Outward
                            THEN clients[a] # None /\ Unstopped(<<a, clients[a]>>)
                            ELSE clients[a] = None

\* After Stop nothing is left running, and no request starts anything again.
StoppedForGood ==
    pc[Boot] = "over" =>
        /\ ~running /\ bound = NoAddr /\ cleaners = {}
        /\ \A o \in Objects : ~Live(o)

\* Who waits for c.stopped has m.mu, so that no two callers wait for each other, and
\* waits for a client whose goroutine was started and has been told to quit: with
\* ClientLife, which DownstreamClient implements, the answer comes.
WaitAnswered ==
    \A p \in Owners : pc[p] = "wait" =>
        LET o == <<waiting, clients[waiting]>>
        IN  mu = p /\ o \in Objects /\ Told(o) /\ link[o] # "none"

\* A request that has edited the store is answered, and Stop returns, though
\* each of them waits under m.mu for every client to end.
CallersReturn ==
    /\ \A r \in Requests : pc[r] = "lock" ~> pc[r] = "over"
    /\ pc[Boot] = "signal" ~> pc[Boot] = "over"

\* After a reload the clients in m.clients go on working: none of them has been
\* told to quit.
ReloadedClientsStay ==
    Quiet /\ running => \A a \in Apps : clients[a] # None => ~Told(<<a, clients[a]>>)

\* The gateway listens where the settings say.
ListensAsConfigured == Quiet /\ pc[Boot] = "serving" => bound = dbGw.listen
=============================================================================

----------------------------- MODULE ClientLife -----------------------------
(***************************************************************************)
(* What a downstream client promises the manager that owns it: it moves    *)
(* between having a connection and having none on its own, it begins no    *)
(* new attempt once it has been told to quit, and a client told to quit    *)
(* ends.  DownstreamClient implements this specification; Manager relies   *)
(* on it when it waits for c.stopped under its mutex.                      *)
(***************************************************************************)

VARIABLES
    link,     \* what the client has: nothing, an attempt, a session; or it ended
    quit,     \* close(c.stop), or the parent context is done
    crashed   \* the process has died of a panic

lifeVars == <<link, quit, crashed>>

LifeTypeOK ==
    /\ link \in {"idle", "trying", "up", "ended"}
    /\ quit \in BOOLEAN
    /\ crashed \in BOOLEAN

LifeInit ==
    /\ link = "idle"
    /\ quit = FALSE
    /\ crashed = FALSE

Ask ==
    /\ quit' = TRUE
    /\ UNCHANGED <<link, crashed>>

Try ==
    /\ link = "idle" /\ ~quit
    /\ link' = "trying"
    /\ UNCHANGED <<quit, crashed>>

Settle ==
    /\ link = "trying"
    /\ link' \in {"up", "idle"}
    /\ UNCHANGED <<quit, crashed>>

Fall ==
    /\ link = "up"
    /\ link' = "idle"
    /\ UNCHANGED <<quit, crashed>>

End ==
    /\ link = "idle" /\ quit
    /\ link' = "ended"
    /\ UNCHANGED <<quit, crashed>>

Crash ==
    /\ crashed' = TRUE
    /\ UNCHANGED <<link, quit>>

LifeNext == ~crashed /\ (Ask \/ Try \/ Settle \/ Fall \/ End \/ Crash)

LifeSafety == LifeInit /\ [][LifeNext]_lifeVars

\* After quit no Try is possible, so each client settles, falls and ends once.
LifeFairness == WF_lifeVars(quit /\ ~crashed /\ (Settle \/ Fall \/ End))

LifeSpec == LifeSafety /\ LifeFairness
=============================================================================

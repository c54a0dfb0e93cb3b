----------------------------- MODULE CronService -----------------------------
(***************************************************************************)
(* What a client of the daemon's scheduler is promised                     *)
(* (internal/daemon/scheduler/scheduler.go), without its maps, the cron    *)
(* library, its locks and its goroutines: there is a table with one        *)
(* version of each assignment, an assignment is replaced only by a later   *)
(* generation of it, and a run is of a version that is in the table at     *)
(* the moment it starts, and is enabled.                                   *)
(***************************************************************************)
EXTENDS Naturals

CONSTANTS
    Ids,       \* assignment identifiers
    Versions,  \* the assignments that may be put into the table
    Execs,     \* what identifies a run
    None       \* no assignment

VARIABLES
    table,     \* the version in the table of each id, or None
    live,      \* the runs in progress, with their versions
    started    \* the runs that have been started

vars == <<table, live, started>>

Init ==
    /\ table = [id \in Ids |-> None]
    /\ live = {}
    /\ started = {}

\* A version goes into the table if its id is new or its generation is.
Put(a) ==
    /\ table[a.id] # None => table[a.id].generation < a.generation
    /\ table' = [table EXCEPT ![a.id] = a]
    /\ UNCHANGED <<live, started>>

Drop(id) ==
    /\ table' = [table EXCEPT ![id] = None]
    /\ UNCHANGED <<live, started>>

Start(e, id) ==
    /\ e \notin started
    /\ table[id] # None
    /\ table[id].enabled
    /\ live' = live \cup {[exec |-> e, version |-> table[id]]}
    /\ started' = started \cup {e}
    /\ UNCHANGED table

Finish(run) ==
    /\ live' = live \ {run}
    /\ UNCHANGED <<table, started>>

Next ==
    \/ \E a \in Versions : Put(a)
    \/ \E id \in Ids : Drop(id)
    \/ \E e \in Execs, id \in Ids : Start(e, id)
    \/ \E run \in live : Finish(run)

Spec == Init /\ [][Next]_vars

=============================================================================

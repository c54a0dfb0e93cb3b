------------------------------ MODULE Reconcile ------------------------------
(***************************************************************************)
(* From desired state to running schedules: the controller of module       *)
(* Controller, the poll loop of each monocron-runner                       *)
(* (internal/runner/reconcile), and the daemon on the runner's host.       *)
(*                                                                         *)
(* The loop is one goroutine per runner and makes one call at a time, so   *)
(* each call is an action; users, placements and other runners act between *)
(* any two calls.  A call may fail: it never arrives, or its answer is     *)
(* lost.  Of the daemon only its answer to a PUT or DELETE matters here,   *)
(* what it runs and what it has stored; module Daemon has the rest.        *)
(***************************************************************************)
EXTENDS Controller

CONSTANTS
    BadSpecs,           \* the specs whose cron expression the daemon refuses
    MaxRunnerRestarts,  \* bound: how often a runner restarts
    MaxDaemonRestarts   \* bound: how often a daemon restarts

ASSUME ReconcileAssumption ==
    /\ BadSpecs \subseteq Specs
    /\ MaxRunnerRestarts \in Nat
    /\ MaxDaemonRestarts \in Nat
    /\ Null \notin Row \cup [generation: Nat, spec: Specs]

VARIABLES
    step,       \* what the poll loop of each runner does next
    cursor,     \* its local variable generation
    batch,      \* the assignments of resp.Assignments it has yet to finish
    installed,  \* what each daemon runs: a version of each assignment, or Null
    stored,     \* the version each daemon would load after a restart
    runnerRestarts, daemonRestarts

loopVars == <<step, cursor, batch>>
daemonVars == <<installed, stored>>
restartVars == <<runnerRestarts, daemonRestarts>>
reconcileVars == <<controllerVars, loopVars, daemonVars, restartVars>>

Version == [generation: Nat, spec: Specs]
Polled == [schedule: Schedules, generation: Nat]

Polling == [at |-> "poll"]
Fetching == [at |-> "fetch"]
Applying(spec) == [at |-> "apply", spec |-> spec]
Removing == [at |-> "delete"]
Reporting(state) == [at |-> "report", state |-> state]

Nothing == [s \in Schedules |-> [r \in Runners |-> Null]]

ReconcileInit ==
    /\ ControllerInit
    /\ step = [r \in Runners |-> Polling]
    /\ cursor = [r \in Runners |-> 0]
    /\ batch = [r \in Runners |-> {}]
    /\ installed = Nothing
    /\ stored = Nothing
    /\ runnerRestarts = 0
    /\ daemonRestarts = 0

Fault == faults < MaxFaults /\ faults' = faults + 1

\* What Observe leaves alone of the controller, faults aside.
ControllerKept == UNCHANGED <<schedules, runnerLabels, clock, placer, edits>>

-----------------------------------------------------------------------------
(* The poll loop.                                                          *)

\* Mutant of Later: only the rows that are pending.
LaterPending(r) ==
    {[schedule |-> s, generation |-> rows[s][r].generation] :
        s \in {t \in Schedules : /\ rows[t][r] # Null
                                 /\ rows[t][r].state = "pending"
                                 /\ rows[t][r].generation > cursor[r]}}

\* The rows of the runner after its cursor, of any state.
Later(r) ==
    {[schedule |-> s, generation |-> rows[s][r].generation] :
        s \in {t \in Schedules : /\ rows[t][r] # Null
                                 /\ rows[t][r].generation > cursor[r]}}

\* PollAssignments; a poll that fails or finds nothing changes nothing.
Poll(r) ==
    /\ step[r] = Polling
    /\ Later(r) # {}
    /\ batch' = [batch EXCEPT ![r] = Later(r)]
    /\ step' = [step EXCEPT ![r] = Fetching]
    /\ UNCHANGED <<controllerVars, cursor, daemonVars, restartVars>>

\* The answer is in the order of generations.
First(r) == CHOOSE a \in batch[r] :
                \A b \in batch[r] : a.generation <= b.generation

Goto(r, next) == step' = [step EXCEPT ![r] = next]

\* GetSchedule, which knows no deleted schedule.
Fetch(r) ==
    /\ step[r] = Fetching
    /\ LET s == First(r).schedule IN
          \/ /\ Exists(s)
             /\ schedules[s].enabled
             /\ Goto(r, Applying(schedules[s].spec))
          \/ Exists(s) /\ ~schedules[s].enabled /\ Goto(r, Removing)
          \/ ~Exists(s) /\ Goto(r, Reporting("rejected"))
    /\ UNCHANGED <<controllerVars, cursor, batch, daemonVars, restartVars>>

FetchFails(r) ==
    /\ step[r] = Fetching
    /\ Fault
    /\ Goto(r, Reporting("rejected"))
    /\ ControllerKept
    /\ UNCHANGED <<rows, cursor, batch, daemonVars, restartVars>>

\* Mutant of Known: the identifier alone decides.
KnownById(s, r, v) == installed[s][r] # Null

\* The daemon's PUT of version v: a version it knows already is not installed
\* but is stored and answered "applied" all the same.
Known(s, r, v) ==
    installed[s][r] # Null /\ installed[s][r].generation >= v.generation

Rejects(s, r, v) == ~Known(s, r, v) /\ v.spec \in BadSpecs

Put(s, r, v) ==
    \/ Rejects(s, r, v) /\ UNCHANGED daemonVars
    \/ /\ ~Rejects(s, r, v)
       /\ stored' = [stored EXCEPT ![s][r] = v]
       /\ installed' = [installed EXCEPT ![s][r] =
                            IF Known(s, r, v) THEN @ ELSE v]

\* Mutant of Offered: the generation is the time of the call.
OfferedNow(r) == [generation |-> clock + 1, spec |-> step[r].spec]

\* The version that the loop is about to PUT.
Offered(r) == [generation |-> First(r).generation, spec |-> step[r].spec]

\* ApplyAssignment.
Apply(r) ==
    /\ step[r].at = "apply"
    /\ LET s == First(r).schedule IN
          /\ Put(s, r, Offered(r))
          /\ Goto(r, Reporting(IF Rejects(s, r, Offered(r))
                                 THEN "rejected" ELSE "applied"))
    /\ UNCHANGED <<controllerVars, cursor, batch, restartVars>>

ApplyFails(r) ==
    /\ step[r].at = "apply"
    /\ Fault
    /\ UNCHANGED daemonVars \/ Put(First(r).schedule, r, Offered(r))
    /\ Goto(r, Reporting("rejected"))
    /\ ControllerKept
    /\ UNCHANGED <<rows, cursor, batch, restartVars>>

Forget(s, r) ==
    /\ installed' = [installed EXCEPT ![s][r] = Null]
    /\ stored' = [stored EXCEPT ![s][r] = Null]

\* DeleteAssignment.
Delete(r) ==
    /\ step[r] = Removing
    /\ Forget(First(r).schedule, r)
    /\ Goto(r, Reporting("removed"))
    /\ UNCHANGED <<controllerVars, cursor, batch, restartVars>>

\* Its error is logged, and the report is the same.
DeleteFails(r) ==
    /\ step[r] = Removing
    /\ Fault
    /\ UNCHANGED daemonVars \/ Forget(First(r).schedule, r)
    /\ Goto(r, Reporting("removed"))
    /\ ControllerKept
    /\ UNCHANGED <<rows, cursor, batch, restartVars>>

\* Mutant of TurnToNext: the cursor moves to the present time.
TurnToNow(r) ==
    LET rest == batch[r] \ {First(r)} IN
    /\ batch' = [batch EXCEPT ![r] = rest]
    /\ \/ rest # {} /\ Goto(r, Fetching) /\ UNCHANGED cursor
       \/ /\ rest = {}
          /\ Goto(r, Polling)
          /\ cursor' = [cursor EXCEPT ![r] = clock]

\* Mutant of TurnToNext: the loop goes on after the last assignment.
TurnPastEnd(r) ==
    /\ batch' = [batch EXCEPT ![r] = batch[r] \ {First(r)}]
    /\ Goto(r, Fetching)
    /\ UNCHANGED cursor

\* The loop turns to the next assignment; after the last one, which has the
\* latest generation of all, the cursor moves to it.
TurnToNext(r) ==
    LET rest == batch[r] \ {First(r)} IN
    /\ batch' = [batch EXCEPT ![r] = rest]
    /\ \/ rest # {} /\ Goto(r, Fetching) /\ UNCHANGED cursor
       \/ /\ rest = {}
          /\ Goto(r, Polling)
          /\ cursor' = [cursor EXCEPT ![r] = First(r).generation]

\* reportObservation.
Report(r) ==
    /\ step[r].at = "report"
    /\ Observe(First(r).schedule, r, step[r].state)
    /\ TurnToNext(r)
    /\ ControllerKept
    /\ UNCHANGED <<faults, daemonVars, restartVars>>

\* Its error is logged, and the loop goes on.
ReportFails(r) ==
    /\ step[r].at = "report"
    /\ Fault
    /\ TurnToNext(r)
    /\ ControllerKept
    /\ UNCHANGED <<rows, daemonVars, restartVars>>

-----------------------------------------------------------------------------
(* Restarts.                                                               *)

\* The cursor is a local variable: it starts from 0 again.
RestartRunner(r) ==
    /\ runnerRestarts < MaxRunnerRestarts
    /\ runnerRestarts' = runnerRestarts + 1
    /\ step' = [step EXCEPT ![r] = Polling]
    /\ cursor' = [cursor EXCEPT ![r] = 0]
    /\ batch' = [batch EXCEPT ![r] = {}]
    /\ UNCHANGED <<controllerVars, daemonVars, daemonRestarts>>

\* The daemon adds what it finds in its store, but for what Add refuses.
RestartDaemon(r) ==
    /\ daemonRestarts < MaxDaemonRestarts
    /\ daemonRestarts' = daemonRestarts + 1
    /\ installed' = [s \in Schedules |-> [installed[s] EXCEPT ![r] =
           IF stored[s][r] # Null /\ stored[s][r].spec \notin BadSpecs
             THEN stored[s][r] ELSE Null]]
    /\ UNCHANGED <<controllerVars, loopVars, stored, runnerRestarts>>

-----------------------------------------------------------------------------
RunnerStep(r) ==
    \/ Poll(r)
    \/ Fetch(r) \/ FetchFails(r)
    \/ Apply(r) \/ ApplyFails(r)
    \/ Delete(r) \/ DeleteFails(r)
    \/ Report(r) \/ ReportFails(r)

ReconcileNext ==
    \/ ControllerStep /\ UNCHANGED <<loopVars, daemonVars, restartVars>>
    \/ \E r \in Runners : RunnerStep(r) \/ RestartRunner(r) \/ RestartDaemon(r)

ReconcileSpec == ReconcileInit /\ [][ReconcileNext]_reconcileVars

\* A wall clock that is not set back between two placements and tells them
\* apart.  The code takes it for granted: a generation is meant to be
\* "monotonically increasing" (api.go:319).
ReadingsIncrease ==
    \A p \in Placers :
        placer[p].op = "select" /\ placer'[p].op = "upsert" => clock' > clock

SteadyReconcileSpec ==
    ReconcileInit /\ [][ReconcileNext /\ ReadingsIncrease]_reconcileVars

\* A request that is placing a schedule comes to its end, and the ticker makes
\* the poll loop go on for ever.  Users, restarts and failures owe nothing.
ReconcileFairness ==
    /\ \A p \in Placers : WF_reconcileVars(PlacerStep(p)
                             /\ UNCHANGED <<loopVars, daemonVars, restartVars>>)
    /\ \A r \in Runners : WF_reconcileVars(RunnerStep(r))

FairReconcileSpec == SteadyReconcileSpec /\ ReconcileFairness

\* Users who name the labels in every update, so that it is placed again, and
\* who remove nothing; and placements that do not fail, which nobody repeats.
EditsArePlaced ==
    /\ schedules' # schedules => placer' # placer
    /\ faults' # faults => placer' = placer

PlacedReconcileSpec ==
    /\ ReconcileInit
    /\ [][ReconcileNext /\ ReadingsIncrease /\ EditsArePlaced]_reconcileVars
    /\ ReconcileFairness

-----------------------------------------------------------------------------
(* Properties.                                                             *)

LoopState ==
    {Polling, Fetching, Removing} \cup [at: {"apply"}, spec: Specs]
        \cup [at: {"report"}, state: AssignmentStates \ {"pending"}]

\* Every variable has its type, and the loop has assignments to work on
\* exactly when it is not polling.
ReconcileTypeOK ==
    /\ ControllerTypeOK
    /\ step \in [Runners -> LoopState]
    /\ cursor \in [Runners -> Nat]
    /\ batch \in [Runners -> SUBSET Polled]
    /\ \A r \in Runners : batch[r] = {} <=> step[r] = Polling
    /\ installed \in [Schedules -> [Runners -> Version \cup {Null}]]
    /\ stored \in [Schedules -> [Runners -> Version \cup {Null}]]
    /\ runnerRestarts \in 0 .. MaxRunnerRestarts
    /\ daemonRestarts \in 0 .. MaxDaemonRestarts

\* The runner has seen the present generation of its row for s.
CaughtUp(s, r) == rows[s][r] # Null /\ rows[s][r].generation <= cursor[r]

\* No placement is skipped: once the cursor has passed a row, the row has been
\* handled, unless the report got lost (reconcile.go:111-116).
NoneSkipped ==
    faults = 0 => \A s \in Schedules, r \in Runners :
                      CaughtUp(s, r) => rows[s][r].state # "pending"

\* A daemon never runs a later generation of an assignment than its row has,
\* nor one without a row, whatever is lost or restarted.
DaemonNeverAhead ==
    \A s \in Schedules, r \in Runners :
        installed[s][r] # Null =>
            /\ rows[s][r] # Null
            /\ installed[s][r].generation <= rows[s][r].generation

\* With no call lost, what a row says once its runner has caught up is what
\* the daemon does: "applied" of the very generation it has stored and runs,
\* and "removed" only of an assignment it does not run.  The one exception is a
\* version that Add would refuse: an update without labels may bring it under a
\* generation that Add knows, so that it is stored (api.go:146-150 of the
\* daemon), and the daemon drops it when it restarts.  Reports carry no
\* generation the controller looks at, so one about an earlier generation must
\* be made good before the cursor passes the row.
SettledRowsAgree ==
    faults = 0 => \A s \in Schedules, r \in Runners :
        CaughtUp(s, r) /\ (\A a \in batch[r] : a.schedule # s) =>
            /\ rows[s][r].state = "applied" =>
                  /\ stored[s][r] # Null
                  /\ stored[s][r].generation = rows[s][r].generation
                  /\ IF installed[s][r] = Null
                       THEN stored[s][r].spec \in BadSpecs
                       ELSE installed[s][r].generation = rows[s][r].generation
            /\ rows[s][r].state = "removed" => installed[s][r] = Null

\* The runner starts, for the first time or again, after the last call that
\* fails: nothing repeats a call before that.
StartsAfterFaults(r) ==
    \E n \in 0 .. MaxFaults :
        <>(cursor[r] = 0 /\ batch[r] = {} /\ [](faults = n))

\* Every placement is handled: no row stays pending, unless a call failed and
\* the runner has not started again since.
IsPending(s, r) == rows[s][r] # Null /\ rows[s][r].state = "pending"

PendingIsHandled ==
    \A s \in Schedules, r \in Runners :
        StartsAfterFaults(r) => (IsPending(s, r) ~> ~IsPending(s, r))

Wanted(s, r) ==
    /\ Exists(s)
    /\ schedules[s].enabled
    /\ schedules[s].spec \notin BadSpecs
    /\ rows[s][r] # Null

\* A schedule that goes on being wanted on a runner comes to run there, as the
\* controller has it (README.md:8: the runner "reconciles assignments"), and
\* calls that failed are made good by a restart of the runner.
DesiredIsInstalled ==
    \A s \in Schedules, r \in Runners :
        StartsAfterFaults(r) /\ <>[]Wanted(s, r) =>
            <>[](/\ installed[s][r] # Null
                 /\ installed[s][r].spec = schedules[s].spec)
=============================================================================

----------------------------- MODULE Controller -----------------------------
(***************************************************************************)
(* The controller's desired state (internal/controller/api, store and      *)
(* placement): schedules, the labels of runners, and the assignments table *)
(* that places schedules on runners.                                       *)
(*                                                                         *)
(* Each statement on the database is atomic.  A request that places a      *)
(* schedule is a handler that selects runners, reads the clock for a       *)
(* generation and then upserts one row per runner, while other requests,   *)
(* heartbeats and polls go on.                                             *)
(***************************************************************************)
EXTENDS Naturals, FiniteSets

CONSTANTS
    Schedules,     \* schedule identifiers
    Runners,       \* runner identifiers
    Specs,         \* the part of a schedule the daemon runs: cron and command
    Labels,        \* key=value pairs
    TokenLabels,   \* the labels of the enrollment token each runner uses
    ConfigLabels,  \* the labels in each runner's own configuration
    Placers,       \* the requests that may place schedules at once
    MaxEdits,      \* bound: how many requests change a schedule
    MaxFaults,     \* bound: how many calls between the parts fail
    Times,         \* the readings that the wall clock may give
    Null           \* nothing there

ASSUME ControllerAssumption ==
    /\ TokenLabels \in [Runners -> SUBSET Labels]
    /\ ConfigLabels \in [Runners -> SUBSET Labels]
    /\ MaxEdits \in Nat
    /\ MaxFaults \in Nat
    /\ Times \subseteq Nat \ {0}

VARIABLES
    schedules,     \* the schedules table
    runnerLabels,  \* the labels column of the runners table
    rows,          \* the assignments table: one row per schedule and runner
    clock,         \* the last reading of time.Now().UnixNano()
    placer,        \* what each request still has to do to place a schedule
    edits, faults

controllerVars ==
    <<schedules, runnerLabels, rows, clock, placer, edits, faults>>

Idle == [op |-> "idle"]

ScheduleRow == [spec: Specs, enabled: BOOLEAN, labels: SUBSET Labels,
                deleted: BOOLEAN]
AssignmentStates == {"pending", "applied", "rejected", "removed"}
Row == [generation: Nat, state: AssignmentStates]

ControllerInit ==
    /\ schedules = [s \in Schedules |-> Null]
    /\ runnerLabels = [r \in Runners |-> Null]
    /\ rows = [s \in Schedules |-> [r \in Runners |-> Null]]
    /\ clock = 0
    /\ placer = [p \in Placers |-> Idle]
    /\ edits = 0
    /\ faults = 0

-----------------------------------------------------------------------------
(* Runners.                                                                *)

\* handleEnroll: the runner gets the labels of its token.
Enroll(r) ==
    /\ runnerLabels[r] = Null
    /\ runnerLabels' = [runnerLabels EXCEPT ![r] = TokenLabels[r]]
    /\ UNCHANGED <<schedules, rows, clock, placer, edits, faults>>

\* handleHeartbeat: the labels become those the runner is configured with.
Heartbeat(r) ==
    /\ runnerLabels[r] # Null
    /\ runnerLabels' = [runnerLabels EXCEPT ![r] = ConfigLabels[r]]
    /\ UNCHANGED <<schedules, rows, clock, placer, edits, faults>>

-----------------------------------------------------------------------------
(* Schedules.                                                              *)

Edit == edits < MaxEdits /\ edits' = edits + 1

Exists(s) == schedules[s] # Null /\ ~schedules[s].deleted

\* A request that has written s and will read it back to place it, and one
\* that has read it.
Written(s) == [op |-> "read", schedule |-> s]
Placing(s, labels) == [op |-> "select", schedule |-> s, labels |-> labels]

\* The row of a schedule that is not deleted.
Live(spec, enabled, labels) ==
    [spec |-> spec, enabled |-> enabled, labels |-> labels, deleted |-> FALSE]

\* handleCreateSchedule: the INSERT.
CreateSchedule(p, s, spec, labels) ==
    /\ placer[p] = Idle
    /\ schedules[s] = Null
    /\ Edit
    /\ schedules' = [schedules EXCEPT ![s] = Live(spec, TRUE, labels)]
    /\ placer' = [placer EXCEPT ![p] = Written(s)]
    /\ UNCHANGED <<runnerLabels, rows, clock, faults>>

\* handleUpdateSchedule of a request without labels: nothing is placed.
UpdateSpec(s, spec, enabled) ==
    /\ Exists(s)
    /\ Edit
    /\ schedules' = [schedules EXCEPT ![s] = Live(spec, enabled, @.labels)]
    /\ UNCHANGED <<runnerLabels, rows, clock, placer, faults>>

\* handleUpdateSchedule of a request with labels: the UPDATE.
UpdateLabels(p, s, spec, enabled, labels) ==
    /\ placer[p] = Idle
    /\ Exists(s)
    /\ Edit
    /\ schedules' = [schedules EXCEPT ![s] = Live(spec, enabled, labels)]
    /\ placer' = [placer EXCEPT ![p] = Written(s)]
    /\ UNCHANGED <<runnerLabels, rows, clock, faults>>

\* The GetSchedule that ends CreateSchedule and UpdateSchedule; a schedule
\* deleted meanwhile is an error, and the request ends there.
ReadBack(p) ==
    /\ placer[p].op = "read"
    /\ LET s == placer[p].schedule IN
          placer' = [placer EXCEPT ![p] =
              IF Exists(s) THEN Placing(s, schedules[s].labels) ELSE Idle]
    /\ UNCHANGED <<schedules, runnerLabels, rows, clock, edits, faults>>

\* handleDeleteSchedule marks the row; the assignments stay as they are.
DeleteSchedule(s) ==
    /\ Exists(s)
    /\ Edit
    /\ schedules' = [schedules EXCEPT ![s].deleted = TRUE]
    /\ UNCHANGED <<runnerLabels, rows, clock, placer, faults>>

-----------------------------------------------------------------------------
(* placeSchedule.                                                          *)

\* ListRunners: every runner that has enrolled, whatever its state.
Enrolled == {r \in Runners : runnerLabels[r] # Null}

\* SelectRunners: those that have all the labels.
Matching(labels) == {r \in Enrolled : labels \subseteq runnerLabels[r]}

\* A request that has yet to upsert the rows of some runners.
Upserting(s, generation, todo) ==
    [op |-> "upsert", schedule |-> s, generation |-> generation, todo |-> todo]

\* ListRunners, SelectRunners and the reading of the clock.  It is the wall
\* clock, which may give a reading twice or go back.
Select(p) ==
    /\ placer[p].op = "select"
    /\ LET matched == Matching(placer[p].labels) IN
          \/ /\ matched = {}
             /\ placer' = [placer EXCEPT ![p] = Idle]
             /\ UNCHANGED clock
          \/ /\ matched # {}
             /\ clock' \in Times
             /\ placer' = [placer EXCEPT ![p] =
                    Upserting(@.schedule, clock', matched)]
    /\ UNCHANGED <<schedules, runnerLabels, rows, edits, faults>>

\* GetSchedule or ListRunners fails: nothing is placed.
ReadFails(p) ==
    /\ placer[p].op \in {"read", "select"}
    /\ faults < MaxFaults
    /\ faults' = faults + 1
    /\ placer' = [placer EXCEPT ![p] = Idle]
    /\ UNCHANGED <<schedules, runnerLabels, rows, clock, edits>>

\* The loop goes on to the next runner, or the request is done.
PlacerAfter(p, r) ==
    placer' = [placer EXCEPT ![p] =
                   IF @.todo = {r} THEN Idle
                   ELSE Upserting(@.schedule, @.generation, @.todo \ {r})]

\* CreateAssignment: a new row, or a new generation for the row there is.
Upsert(p, r) ==
    /\ placer[p].op = "upsert"
    /\ r \in placer[p].todo
    /\ rows' = [rows EXCEPT ![placer[p].schedule][r] =
                    [generation |-> placer[p].generation, state |-> "pending"]]
    /\ PlacerAfter(p, r)
    /\ UNCHANGED <<schedules, runnerLabels, clock, edits, faults>>

\* CreateAssignment fails; the error is logged.
UpsertFails(p, r) ==
    /\ placer[p].op = "upsert"
    /\ r \in placer[p].todo
    /\ faults < MaxFaults
    /\ faults' = faults + 1
    /\ PlacerAfter(p, r)
    /\ UNCHANGED <<schedules, runnerLabels, rows, clock, edits>>

\* handleSubmitObservations: the state of the row, whatever generation the
\* observation was made of.
Observe(s, r, state) ==
    rows' = [rows EXCEPT ![s][r] = [generation |-> @.generation,
                                    state |-> state]]

-----------------------------------------------------------------------------
PlacerStep(p) ==
    \/ ReadBack(p)
    \/ Select(p)
    \/ ReadFails(p)
    \/ \E r \in Runners : Upsert(p, r) \/ UpsertFails(p, r)

RunnerRequest == \E r \in Runners : Enroll(r) \/ Heartbeat(r)

UserRequest ==
    \E s \in Schedules :
        \/ \E p \in Placers, spec \in Specs, labels \in SUBSET Labels :
              \/ CreateSchedule(p, s, spec, labels)
              \/ \E enabled \in BOOLEAN :
                    UpdateLabels(p, s, spec, enabled, labels)
        \/ \E spec \in Specs, enabled \in BOOLEAN :
              UpdateSpec(s, spec, enabled)
        \/ DeleteSchedule(s)

ControllerStep ==
    RunnerRequest \/ UserRequest \/ \E p \in Placers : PlacerStep(p)

-----------------------------------------------------------------------------
(* Properties.                                                             *)

PlacerState ==
    {Idle} \cup [op: {"read"}, schedule: Schedules]
           \cup [op: {"select"}, schedule: Schedules, labels: SUBSET Labels]
           \cup [op: {"upsert"}, schedule: Schedules, generation: Nat,
                 todo: SUBSET Runners]

\* Every variable has its type; a placement only waits on runners it selected.
ControllerTypeOK ==
    /\ schedules \in [Schedules -> ScheduleRow \cup {Null}]
    /\ runnerLabels \in [Runners -> (SUBSET Labels) \cup {Null}]
    /\ rows \in [Schedules -> [Runners -> Row \cup {Null}]]
    /\ clock \in Nat
    /\ placer \in [Placers -> PlacerState]
    /\ edits \in 0 .. MaxEdits
    /\ faults \in 0 .. MaxFaults
=============================================================================

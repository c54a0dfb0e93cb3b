# Monocron verification

TLA+ specifications of monocron, a cron that is distributed over hosts: a
controller that owns the schedules, a runner agent on every host that polls for
assignments, a daemon that runs commands by the clock, and a command line tool.
The specifications are read off the Go sources; paths below are relative to
`src/`, and PROJECT.json gives for each definition the lines that it models.

1. [The system](#the-system)
2. [Modules](#modules)
3. [Runs](#runs)
4. [Fairness](#fairness)
5. [What the code does not keep](#what-the-code-does-not-keep)
6. [Proofs](#proofs)
7. [Not modelled](#not-modelled)
8. [Plan](#plan)

## The system

| Component | Source | State | Operations |
|---|---|---|---|
| scheduler of the daemon | `internal/daemon/scheduler/scheduler.go` | maps `assignments`, `entries`, `history` under the mutex `s.mu`; the entry table of robfig/cron | `Add`, `Remove`, `execute` (one goroutine for each run) |
| executor | `internal/daemon/executor/executor.go` | a process group, two `BoundedWriter`s | `Run`, `Write`, `killProcessTree` |
| API, store and process of the daemon | `internal/daemon/api`, `internal/daemon/store`, `cmd/monocrond` | SQLite tables `assignments`, `executions`, `log_chunks` | PUT and DELETE of an assignment, `POST /v1/shutdown`, restore, signal, stop |
| controller: schedules and placement | `internal/controller/api`, `.../store`, `.../placement` | PostgreSQL tables `schedules`, `runners`, `assignments` | create, update and delete a schedule, `placeSchedule`, poll, observations |
| controller: runners | the same | `enrollment_tokens`, `runners` | create a token, enroll, heartbeat, drain, delete (revoke) |
| controller: executions, logs | the same | `executions`, `log_chunks` | events, chunks, cancel |
| runner agent | `internal/runner/reconcile`, `cmd/monocron-runner` | the cursor `generation`, local to `pollLoop`; the state file | poll, apply, delete, report; heartbeat |
| files of a host | `internal/cli`, `internal/runner/config` | the installed binaries with their `.new` and `.bak`, the configuration files with their `.tmp` | `update`, login, logout, `EnsureConfig` |

How they interact.  A user creates a schedule; the controller inserts it, reads
it back, selects the runners whose labels match, takes the time as a
*generation* and upserts a row of `assignments` for each of them.  Each runner
polls for rows beyond the generation it has seen, gets the schedule of each,
and PUTs it to the daemon or DELETEs it (HTTP over a Unix socket), and reports.
The daemon changes its scheduler, then its store.  The cron library starts a
goroutine when an entry is due; the goroutine appends to the history, writes a
row, runs the command, updates the history, and writes the row and the output
again.  After a restart the daemon adds what it finds in its store.

What is hard, and what each part must keep:

* *Scheduler.* Add and Remove change two maps and the library's table; runs of
  an entry that is gone go on; the mutex is released while a command runs, and
  the record is looked up again afterwards.  No entry may leak, runs of one
  entry may not overlap, an id may not fall back to an older generation, and
  the history must say how far a run has come.
* *Executor.* Run, `cmd.Wait`, the context watcher of `os/exec` and the
  processes race at the deadline.  Output must be whole, the outcome true, and
  Run must return.
* *Daemon.* The scheduler is changed before the store with no lock around the
  two; any store call may fail, and its error is only logged; the process may
  die anywhere.  What was answered must survive, and the tables may not claim
  more than happened.
* *Controller.* Placements run side by side, and each takes its generation long
  before it writes its rows; reports do not say which generation they are about.
* *Runner agent.* The cursor moves past rows whose calls failed and is lost with
  the process; the schedule is fetched after the row was polled.
* *Enrollment.* Hosts race for one token; an answer may be lost after the
  commit; heartbeats race with drains and deletions.  A token may make one
  runner only, no two hosts may share credentials, and no heartbeat may undo a
  decision of a user.
* *Executions.* A request is many statements without a transaction: requests
  interleave between them, each may fail, and a batch may be sent again.
  Output that was acknowledged must stay, and a client that pages through a
  list while it grows must miss and repeat nothing.
* *Host files.* A process may fail or be killed between any two renames.  No
  binary may be lost, a mixed installation may not be called a success, no
  configuration file may be half-written, and what an update left behind may
  not keep a later one from succeeding.

## Modules

    CronService <~~ Scheduler <-- Daemon     SchedulerProofs, DaemonProofs
    Controller <-- Reconcile                 ReconcileProofs
    Enrollment                               EnrollmentProofs
    HostFiles                                HostFilesProofs
    Executor                                 ExecutorProofs
    Executions                               ExecutionsProofs

(`A <-- B`: B extends A and composes it with more actors; `A <~~ B`: B
implements A.)  `MC<module>` has the small instances; the `.cfg` files name the
instance and what it checks.  A definition marked "Mutant of X" is a wrong
version of X: replacing X by it makes a stated property fail, which shows that
the property depends on X.  Nothing else uses it.

**CronService** is what a client of the scheduler is promised, without maps,
locks, library and goroutines: a `table` with one version of each assignment,
replaced only by a later generation (`Put`) or dropped (`Drop`), and runs that
start with a version that is in the table, and enabled, at that very moment
(`Start`), and end (`Finish`).  Scheduler implements it with `assignments` for
the table, and for the runs those of its executions that the cron has started
and that have not come to an end (`LiveRuns`, `StartedRuns`, `Service`,
`ImplementsService`).

**Scheduler.**  `assignments`, `entries` and `history` are the maps;
`cronTable` holds the entries of the library with the closure (`run`) each was
given; `busy` the SkipIfStillRunning tokens that are out; `phase`, `job` and
`result` are the goroutines.  `Add` and `Remove` are one action each because
they hold the mutex throughout.  `execute` is a chain: `Begin` (token, append,
trim), `PersistStart`, `Exit` (Run returns one of `Results`), `RecordResult`,
`PersistEnd`, `AppendStdout`, `AppendStderr` (which gives the token back).
Time is left out: an entry may be due whenever it is in the table.

**Daemon** extends it with handlers (`PutAssignment` and `RemoveAssignment` are
the first half of a request, up to the call of the store; `SaveAssignment` and
`DeleteAssignment` the second half with the answer), the three tables, and the
process: `Start` (start the cron, load the table), `Restore` (add one row of
it), `Serve`, then `Signal` or `ServeFails`, `Stop`, and `Crash`.  Until main
has asked for signals, just before `Serve`, a signal ends the process at once,
as a failing `Listen` does (`EndEarly`).  `StoreCall` makes each call of the
store succeed or fail.  `promised` is a history variable, the last answer about
an id.

**Executor** is one call of Run.  `main` is Run's goroutine and after it
`evaluateState`; `waiter` the one in `cmd.Wait`, in the steps it has inside
`os/exec` (reap the leader, stop the watcher, wait for the copying); `watcher`
the goroutine of `exec.CommandContext` that kills the leader at the deadline.
Processes fork, print, leave the group, hold the output and exit as they like.
Bytes are numbered, so that the writer's buffer shows which bytes it kept.
Stdout and stderr are one pipe, because they are treated alike.

**Controller** has the tables `schedules`, `runners` (labels only) and
`assignments` (`rows`), and for each request that places a schedule a `placer`:
`CreateSchedule` or `UpdateLabels`, `ReadBack`, `Select`, and one `Upsert` for
each runner.  A label is a member of a set.  A generation is a reading of the
wall clock (`time.Now().UnixNano()`), any of the constant `Times`: a reading may
repeat or precede an earlier one.  That a later placement reads a later time is
a hypothesis (`ReadingsIncrease` of Reconcile), stated where it is needed.

**Reconcile** extends it with the loop of each runner (`step`, `cursor`,
`batch`), one action for each call it makes and one for each call that fails
(`...Fails`: the call never arrived, or its answer was lost), with restarts of
the runner and the daemon, and with a daemon reduced to what its answers depend
on: the version it runs and the one it has stored.  Its PUT follows
`scheduler.Add` and `handlePutAssignment`, store write included.

**Enrollment** has the tokens, the state of each runner, and on each host the
join, the state file and the process.  The transaction of `EnrollRunner` is
`Select` (the row lock is held from there) and `Commit`, or `EnrollFails`.  A
heartbeat is `Authorize`, `UpdateRunnerHeartbeat`, `ActivateRunner`.

**Executions** has the rows of `executions`, `log_chunks` and `audit_events`,
and what each request is about to do (`request`), one action for each
statement: `GetExecution`, `CreateExecution`, `ReadBack`, `UpdateEvent` for each
event of a batch; `SaveLogChunk` for each chunk; `Cancel` and `Audit`.  Every
statement may fail.  A row keeps which of its columns are set, because that
decides whether it can be read (`Readable`: a NULL `error_message` cannot be
scanned into a string).  `walk` is a client that reads the audit trail by
`StartWalk` and `ReadPage`; the lists of schedules, runners and executions are
written alike.  `answered`, `acked` and `submitted` are history variables.
Empty batches, which change nothing, are not sent (`ExecutionsAssumption`).

**HostFiles** has the files that are replaced on a host.  `target`, `staged`
and `backup` are each binary under its own name, with `.new` and with `.bak`;
`update` is the loop of `monocronctl update` with the steps of `install`
(`WriteNew`, `BackUp`, `RenameNew`, `RemoveBackup`), each of which may fail
(`...Fails`).  `settings` and `draft` are each configuration file and its
`.tmp`, `writer` the command that writes it.  `KillUpdate` and `WriterEnds` end
a process between any two calls or inside the one that writes.

## Runs

| Run | Instance | Shows |
|---|---|---|
| `MCScheduler` | 2 ids, 5 requests (disabled, refused, two versions of a generation), 2 executions, 3 entries, history of 1 | `TableMatchesAssignments`, `OneRunPerEntry`, `HistoryTracksRuns`; the scheduler implements CronService (`ImplementsService`); every run ends unless its command never returns (`RunsEnd`) |
| `MCDaemon` | 1 handler that never repeats a generation, 4 versions of an id, 1 execution, 2 entries, 2 crashes, 2 failing store calls | `RowsFollowExecutions`, `FinishedIsComplete`, `StoreAgreesWhenQuiet`, `AnswersSurvive`, `FinalRowsAreFinal`, `StartsAreAnswered`; `StopEnds`, `RunningRowsEnd` |
| `MCExecutor` | 2 children, limit 2, 4 bytes | `CapturesTail`, `ReturnsWhole`, `KilledIsTimedOut`; `TimeoutEndsLeader` |
| `MCReconcile` | 2 schedules, 1 runner whose heartbeat drops the one label its token has, 2 versions, one of them refused, 1 placement at a time, 3 requests, 3 times, 1 lost call, a restart of each process | `NoneSkipped`, `DaemonNeverAhead`, `SettledRowsAgree` |
| `MCReconcilePlaced` | 2 schedules in 3 versions, one of them refused, 1 runner, 2 requests that all place, one placement at a time, 2 times, 1 lost call, a restart of each process | `DesiredIsInstalled`, `PendingIsHandled` |
| `MCEnrollment` | 2 tokens, 2 hosts, 2 runners, 1 failure, 1 drain or deletion | `OneRunnerPerToken`, `CredentialsAreUnshared`, `NoRevival`; `RunnersComeAlive` |
| `MCExecutions` | 2 requests at once of 3, 2 rows, 1 identifier of a daemon, 1 failing statement, pages of 1, 2 times | `AckedChunksStay`, `WalkComplete` |
| `MCHostFiles` | 2 binaries, 2 releases, 1 configuration file, 1 key, 2 failing steps, 1 kill | `SuccessMeansAll`, `NothingLost`, `ConfigIsWhole`; `UpdateCompletes` |
| `MCDaemonStale`, `MCReconcileRace`, `MCReconcileUpdate`, `MCExecutionsPlaceholder` | as small as the disagreement allows | a violation each, see below |

Every passing run also checks the type invariant of its module, except
`MCReconcilePlaced`, whose module has it in `MCReconcile`.

*Why the bounds are enough.*  The hazards are about pairs: an old and a new
generation of an id, two runs of an entry, a request and another or a crash,
two schedules and one cursor, two hosts and a token, two binaries of one
update.  Each instance has both, and one crash, one failure or one restart to
come between any two steps.  `MCDaemon` has two crashes and two failures
because a failure of the first life of the process shows in the second, and
its requests may fail again there; one handler is enough, since two at once
have the known disagreement below, and the proofs cover any number.
`MCHostFiles` has two failures and a kill because the first leaves `.new` and
`.bak` files behind that the next update finds.  `MCExecutions` needs three
requests: a batch, the batch again, and one more whose event the client pages
past; with pages of one every page is exactly full, which is the edge of the
cursor.  A history of one record is trimmed at every append, which is the worst
case.  A buffer of two bytes has writes shorter than it, as long and longer,
and a buffer that is empty, partly and wholly full.  `MaxEntries`, `MaxEdits`,
`MaxFaults`, `MaxFailures`, `MaxStoreFailures`, `MaxCrashes`,
`MaxRunnerRestarts`, `MaxDaemonRestarts`, `MaxRequests`, `MaxTime`, `MaxOutput`
and the number of executions only keep the state space finite.  The symmetry
sets permute values that no definition tells apart, and are used in runs
without liveness only.

`CHECK_DEADLOCK FALSE` stands where the system may stop: one call of Run ends;
enrolled hosts whose users and failures are used up may have nothing to do; nor
has a controller that has had `MaxRequests` requests.

`Times` bounds the readings of the clock.  `ReadingsIncrease` then leaves no
reading for a placement after the last, so each instance has as many times as
requests that place (`MaxEdits`): no placement runs out of them.  The instances
of Reconcile have one runner, because a step of one runner or of its daemon
touches nothing of another's; runners meet only in the list that a placement
walks through, and the theorems hold for any number of them.

A lost call is repeated by nothing but a restart of the runner, so
`DesiredIsInstalled` and `PendingIsHandled` are about a runner that starts, for
the first time or again, after the last call that fails (`StartsAfterFaults`).
The instance has one such call, before or after the restart, so both cases
occur.

`SettledRowsAgree` holds with refused expressions too, which the controller
accepts, in the form that the code keeps: an update without labels to a bad
expression reaches the daemon after a restart of the runner, under a generation
the daemon knows, so it is ignored, stored and answered "applied", and the next
restart of the daemon drops it.  Then nothing runs, and what is stored is a
refused version of the row's generation.

## Fairness

* A goroutine that can go on does: Go's scheduler is fair to runnable
  goroutines, so each handler, execution, placement and step of Run has weak
  fairness, each on its own.
* A daemon that is down starts again: `Restart=always` in
  `deploy/systemd/monocrond.service`.
* The tickers of `pollLoop` and `heartbeatLoop` fire for ever, so each poll loop
  and each heartbeat has weak fairness; so has the timer of a deadline.
* That `executor.Run` returns is not assumed: in `Scheduler` and `Daemon` every
  step of an execution has weak fairness but the one in which Run returns
  (`phase[e] # "running" /\ ...`).  `RunsEnd`, `StopEnds` and `RunningRowsEnd`
  therefore say that an execution, a stop or a row waits for ever only if an
  execution is `running` for ever.  `Executor` says when Run returns: once no
  child of the command holds its output any more (`TimeoutEndsLeader`), and not
  before.
* An update of the CLI goes on until it ends (`UpdateStep` of HostFiles):
  `UpdateCompletes` asks of users that they go on trying one release, and of
  failures that they end, which the bound of the instance says.
* Nothing is assumed of users, of signals, crashes, failures and restarts, or of
  the processes of a command, which may run for ever.

`PlacedReconcileSpec` and `FreshDaemonSpec` restrict the *inputs*, not the code:
users who name the labels in every update and delete nothing, and a client that
never sends an outdated generation.  `SteadyReconcileSpec`, and with it
`PlacedReconcileSpec`, restricts the clock (`ReadingsIncrease`).  Two hypotheses
of theorems restrict inputs too: `PlacementsTakeTurns` of ReconcileProofs, that
no schedule is placed while another placement is under way, and
`RequestsTakeTurns` of DaemonProofs, that clients wait for the answer about an
id before they send another request about it, as a runner does.  With one
placement at a time and with one handler they hold of themselves, so the runs
`MCReconcile` and `MCDaemon` are instances. They are the ways of use under which
the system keeps its promises; the violations show what happens outside them.

## What the code does not keep

Shown by runs, and listed in PROJECT.json:

* `MCDaemonStale`: a PUT of an outdated generation is ignored by `Add`, which
  returns nil, and `handlePutAssignment` saves it over the current version
  (`internal/daemon/api/api.go:150`).  After the next restart the daemon runs
  the older one.
* `MCReconcileRace`: of two placements at once the one that read its clock
  first may write its row last, below the cursor of a runner that has seen the
  other.  Its row stays pending until the runner restarts.
* `MCReconcileUpdate`: an update that names no labels changes the schedule and
  places nothing (`internal/controller/api/api.go:370`); the runners never
  learn of it, not even that a schedule was disabled.
* `MCExecutionsPlaceholder`: the placeholder that an event of an unknown
  execution makes gets an identifier of its own
  (`internal/controller/store/store.go:537`), and cannot be read back, because
  its `error_message` is NULL and is scanned into a string.  The event is
  dropped, the request is answered with ok, and each further event makes
  another queued row, on which a list of executions then fails.

Met while modelling, and visible in the models without a run of their own:

* A heartbeat overwrites the labels of a runner with those of its configuration
  (`internal/controller/store/store.go:443`), so the labels of the token, which
  README.md:177 says decide, stop counting; `Heartbeat` of Controller.
* A schedule that is deleted goes on running: nothing tells the runners, and one
  that asks again gets an error and reports "rejected" without a DELETE.
* A call of the runner that fails is not repeated before the runner restarts.
* A store call that fails in a PUT or DELETE is logged, and answered "applied"
  or "removed" all the same; `AnswersSurvive` and `StartsAreAnswered` say
  nothing of an id whose last request the store failed.
* A generation is meant to be the "current max generation + 1" (the comment at
  `internal/controller/api/api.go:319`) and is the time.  A clock that is set
  back, or gives a reading twice, makes a generation at or below cursors that
  have passed it, with the effect of `MCReconcileRace` and a single placement.
* The cron starts before the daemon asks for signals (`cmd/monocrond/main.go:44`
  and `:66`): a SIGTERM in between, or a failing `Listen`, ends the process
  without waiting for the jobs that have started (`EndEarly`).
* A command whose Run never returns (below) keeps a daemon from stopping, since
  `main.go:83` waits without a limit, and leaves its row "running".
* A runner that was drained stays so: no request takes that back.
* Two requests about one id at once may reach the scheduler in one order and
  the store in the other; the store and the scheduler then disagree.
* A run that the process dies in leaves its row "running" for good, and so may
  a failing store; `RunningRowsEnd` says that nothing else does but a Run that
  never returns.
* `POST /v1/shutdown`, documented as "Shutdown and Prune Crons"
  (docs/monocron-daemon.md), closes the server; neither the cron nor the
  process stops.
* A goroutine that the cron has started just before `Remove` runs the removed
  assignment once more; `ImplementsService` is about the start.
* Of two placements of one schedule at once the older one may write a row last.
  The row goes back to the earlier generation and the daemon is ahead of it, so
  `DaemonNeverAhead` is about placements that take turns.
* A placement that fails on one runner goes on with the next and is never tried
  again (`internal/controller/api/api.go:322`); `placeSchedule` looks at the
  first 1000 runners only.
* `killProcessTree` asks for the group of a leader that `cmd.Wait` may have
  reaped (`internal/daemon/executor/executor.go:159`): it ended by itself and
  left a child behind, or `os/exec` killed it at the deadline.  Then nothing is
  killed, and Run waits at `executor.go:99` for the child to close the output,
  however long that takes, while the cron skips the entry.
* A command that fails by itself just before its deadline may be recorded as
  timed out, because `evaluateState` reads the context after Run has returned.
* A single write of exactly `limit` bytes marks output as truncated that is not.
* Draining a runner that was deleted makes it "draining" again; `NoRevival`
  speaks of heartbeats and allows users that.
* A join whose answer is lost, or whose state file cannot be written, has used
  up its token; the runner it made stays pending.

* No answer tells the identifier of an execution's row, and no runner in the
  repository submits events or output, although README.md:346 shows it.  The
  exit code of an execution is never recorded.
* An event that arrives late overwrites a final state, a cancellation included,
  and clears the time at which the execution finished.
* The cancellation of an execution that does not exist is answered "canceled"
  and audited.  That the audit trail could not be written is not looked at.
* The CLI reads the first page of a list and follows no cursor.
* Two updates at once share the `.new` and `.bak` files, and a binary may be
  lost between them; two writers of a configuration file share its `.tmp`.
  HostFiles has one of each at a time, which nothing in the code enforces.
* A dry run prints "All binaries updated." too, and a binary beyond 100 MiB
  is cut without a word when it is taken out of its archive, which is after the
  comparison of checksums.
* `splitCommandAndLabels` (`internal/cli/schedule.go:163`) returns an empty
  command when no argument has a "=".

## Proofs

Each theorem is about every value of the constants: any number of ids, requests,
executions, handlers, runners, tokens, hosts, binaries, files, chunks, pages,
placements at once, failures, crashes and restarts, and any size of the output
buffer.  The only assumptions on constants are the named ones of the modules
(`SchedulerAssumption`, `DaemonAssumption`, ...), which TLC evaluates in the
runs.  Hypotheses on how the system is used are part of a theorem's statement:
`RequestsTakeTurns` and `FreshDaemonSpec`, `PlacementsTakeTurns` and
`SteadyReconcileSpec`. Every invariant and every action property of the passing
runs has a theorem.

| Module | Theorem | Says |
|---|---|---|
| SchedulerProofs | `TypeCorrect` | the type invariant |
| | `TableCorrect` | `Spec => []TableMatchesAssignments` |
| | `OneRunPerEntryHolds` | `Spec => []OneRunPerEntry` |
| | `HistoryTracksRunsHolds` | `Spec => []HistoryTracksRuns` |
| | `ServiceImplemented` | `Spec => ImplementsService`: the scheduler implements CronService |
| DaemonProofs | `DaemonTypeCorrect` | the type invariant |
| | `SchedulerInvHolds` | the invariants of the scheduler hold inside the daemon, crashes included |
| | `RestartingServiceImplemented` | the daemon implements CronService with restarts, each of which empties the table and cuts the runs short |
| | `RowsFollowExecutionsHolds`, `FinishedIsCompleteHolds` | the tables tell no more than happened, and with a store that never fails a finished run has left its state and all its output |
| | `FinalRowsAreFinalHolds` | `[][...]`: a final row stays, and output is never removed |
| | `StoreAgreesWhenQuietHolds`, `AnswersSurviveHolds` | `FreshDaemonSpec /\ []RequestsTakeTurns => [](...)`: store and scheduler agree between requests, and answers survive crashes |
| | `StartsAreAnsweredHolds` | under the same hypotheses: what starts is what was last answered about its id |
| ExecutorProofs | `TypeCorrect` | the type invariant |
| | `CapturesTailHolds`, `ReturnsWholeHolds` | the buffer holds the end of what was copied, and when Run returns that is the end of all that was printed |
| | `KilledIsTimedOutHolds` | a command that its deadline killed is recorded as timed out |
| ReconcileProofs | `TypeCorrect` | the type invariant |
| | `DaemonNeverAheadHolds`, `NoneSkippedHolds` | `SteadyReconcileSpec /\ []PlacementsTakeTurns => [](...)` |
| | `SettledRowsAgreeHolds` | the same: a row that is done with says what the daemon has stored and runs |
| EnrollmentProofs | `TypeCorrect`, `OneRunnerPerTokenHolds`, `CredentialsAreUnsharedHolds` | the three invariants of the run |
| | `LiveHasBeatenHolds` | a runner is live only after a heartbeat of it was recorded |
| | `NoRevivalHolds` | `[][...]`: no heartbeat undoes a drain or a revocation |
| ExecutionsProofs | `TypeCorrect` | the type invariant |
| | `AckedChunksStayHolds` | output that was acknowledged stays, with any interleaving of requests and failing statements |
| | `WalkCompleteHolds` | a walk over the pages misses nothing and repeats nothing, while requests go on |
| HostFilesProofs | `TypeCorrect`, `SuccessMeansAllHolds` | the two invariants of the run |
| | `NothingLostHolds`, `ConfigIsWholeHolds` | the two action properties |

*Scheduler.*  `TypeOK` is inductive because it ties `job` and `result` to the
phase.  `TableMatchesAssignments` is inductive given it, because it says that
entry numbers are distinct and never above `lastEntry`: a new entry then
collides with none, and taking the entries of a number out of the table takes
out exactly one.  `OneRunPerEntry` counts tokens on both sides (every active
run has one, every token has one active run), so that `Begin`, which needs a
free token, cannot make a second run.  `HistoryTracksRuns` needs the lemma that
`Trim` returns a suffix, so that trimming keeps records distinct and true, and
that an execution that begins has no record yet, which is part of `TracksRun`.
The refinement has one step for each action: Add is a `Put` or a stutter,
Remove a `Drop`, the firing of an entry a `Start` (by `TableMatchesAssignments`
a job in the table is the version in `assignments`), the end of a run a
`Finish`, and the rest stutters.

*Daemon.*  `DaemonStepIsSchedulerStep` shows that a step of it is a step of the
scheduler, leaves the scheduler alone, or is the death of the process;
`DieClears` shows that the latter empties every map and loses every active run,
so the inductive steps of the scheduler carry over, and so does the refinement
of CronService, step by step, with the death of the process as the one step
more (`ServiceRestarts`, `DieIsRestart`).  `RowsInv` adds to
`RowsFollowExecutions` that chunk numbers start at 1 with stdout first
(`ChunksAreNumbered`), which makes distinct numbers inductive.
`StoreAgreesWhenQuiet` and `AnswersSurvive` are about moments between requests
and say nothing of a daemon that is down or starting; `DurableInv` covers those.
A request between its two halves will write what the scheduler has
(`FlightsAreCurrent`, for which requests about one id must take turns and no
generation be outdated); what was promised is in the store, and while the
daemon is up in the scheduler too (`PromisesAreKept`); and a row that is loaded
at the start is one that `Add` takes, and either still to be added or added
(`StoredCanBeAdded`, `RestoringAddsRows`), so that at the end of the restore
memory is the table again.  `StartsAreAnswered` follows from it for each step
in which the cron fires (`OnlyFireSpawns`): what the cron has is in the
scheduler's map, and what is in the map while nothing is under way about the id
is what was promised, during the restore too.

*Executor.*  That Run returns whole output is a chain over three goroutines
(`WaitComesFirst`): Run returns only after Wait, and Wait only after every
holder of the pipe is gone and everything printed is copied.  `KilledIsTimedOut`
needs that nobody kills before the deadline, and that what was killed has not
been taken for a success meanwhile (`KillsAreLate`).  `CapturesTail` is
inductive by the lemma on the writer, `WriteKeepsTail`: a write shorter than the
buffer, as long, and longer each leave the last bytes of buffer and write
together, and bytes are dropped only with the mark that says so.

*Reconcile.*  The type invariant needs that a runner that is handling a batch
has one (`BatchHasRows`), and that a nonempty set of generations has a least
one, from the library's theorem on well-founded orders.  Every step is first
reduced to its effect (`ControllerEffect`, `LoopEffect`, `StepEffect`), so that
the invariants are about a few kinds of change and not about each action.
`TurnsInv` is the argument of the poll loop: while the clock is steady and
placements take turns, generations are written in the order they are taken
(`OrderInv`), what the daemon runs and stores is not beyond the row
(`DaemonNeverAhead`, `StoredNeverAhead`), and a row that is pending is ahead of
the cursor or in the batch (`PendingIsAhead`, `NoneSkipped`).  `SettledInv` is
about the window in which a row and a daemon disagree: while no call has failed,
a row is in the batch (`AtHand`), or beyond the cursor and the batch
(`IsLater`), or says truly what the daemon has stored and runs, or has dropped
as refused (`Truly`); and what the loop is about to report is true of the
generation it works on.  If the row has a later generation by then, the report
may be wrong of it, but the loop has still to come to that row.

*Enrollment.*  The invariant adds to the type and the two properties that a
join about to commit has found its token free and is the only one that has
(`LockedIsFree`), that only runners that exist are held or beat (`HeldExists`),
and that a heartbeat that is about to activate a runner was recorded
(`ActivatedHasBeaten`).

*Executions.*  The types need that a batch in progress is not empty, and that
the audit trail is finite so that a page of it has a last event.  For
`AckedChunksStay`, a request keeps what it has saved so far (`SavedSoFar`), and
every stored payload was submitted for its place (`LogsWereSubmitted`): the
upsert may replace a payload by a later one, and never empties a place.
Pages go from the newest event to the oldest, and `WalkInv` says what lies on
this side of the cursor: of the events that were there at the start, and share
their time with no other, those not older than the cursor have been read, and
nothing older has.

*HostFiles.*  What is about to be renamed has been written to its end, which is
part of `TypeOK`; so no binary and no backup is ever `Partial`.  `UpdateInv`
adds that the binaries before the current one already have the release, and that
nothing is said while an update is under way, which makes `SuccessMeansAll`
inductive.

*Only model-checked:* all liveness (`RunsEnd`, `StopEnds`, `RunningRowsEnd`,
`TimeoutEndsLeader`, `DesiredIsInstalled`, `PendingIsHandled`,
`RunnersComeAlive`, `UpdateCompletes`): it rests on weak fairness, hence on
ENABLED, which the prover does not reason about.  No module with a theorem
declares a RECURSIVE operator, and no theorem rests on induction over data.

## Not modelled

* The HTTP clients of the runner and the CLI as parts of their own: one request
  for each call, no retries, no state.  The calls are actions of Reconcile,
  Enrollment and Executions.
* The commands of the CLI that parse arguments, make one request and print the
  answer; the reading of configuration files, environment variables, labels and
  durations, once at the start.
* HTTP, JSON, TLS, logging, packaging; the process of the controller, which
  keeps nothing outside its database.
* Time: cron expressions, time zones and the length of timeouts.  Deadlines,
  due entries and token expiry come at any moment.
* Requests that only read, but for the walk over the pages of a list; and bodies
  that are refused before anything changes.
* Power failures: a kill in HostFiles leaves what was written.  The code calls
  no fsync, so after a power failure a file that was renamed may be empty.
* The contents of archives and of checksums.txt: a download gives the release or
  fails.
* `Scheduler.Cancel`, which returns false; `BoundedWriter.CopyFrom`,
  `DB.CreateRunner`, `ConsumeEnrollmentToken` and `DeleteRunner`, which nothing
  calls.

## Plan

1. **Abstract specifications** of Enrollment (a token is exchanged for a runner
   in one step) and of the updater (a binary is replaced in one step), with the
   refinements proved, as CronService is for the scheduler and the daemon.
2. **Executor in Scheduler**: `Results` is a constant of Scheduler; Executor
   could be shown to implement an operation with those outcomes.
3. **Executions with the runner**, once a runner submits events and output: the
   daemon's rows would then be the source of the controller's.

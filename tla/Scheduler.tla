----------------------------- MODULE Scheduler -----------------------------
(***************************************************************************)
(* The daemon's scheduler (internal/daemon/scheduler/scheduler.go): the    *)
(* assignments it was given, the entries it keeps in the robfig/cron       *)
(* table, and the executions that table starts.                            *)
(*                                                                         *)
(* The mutex s.mu makes Add and Remove atomic, so each is one action.      *)
(* An execution is a goroutine that takes the mutex twice and calls the    *)
(* store in between, so it is a chain of actions, one per critical section *)
(* or call; the other goroutines may run between any two of them.          *)
(*                                                                         *)
(* The cron library is external.  It gives every entry a fresh number,     *)
(* starts a goroutine for an entry when the entry is due (time is not      *)
(* modelled: an entry may be due at any moment), and the chain             *)
(* SkipIfStillRunning wraps each ENTRY with one token that a run takes     *)
(* before it starts and gives back when it ends.                           *)
(***************************************************************************)
EXTENDS Naturals, FiniteSets, Sequences

CONSTANTS
    Ids,         \* assignment identifiers
    Crons,       \* cron expressions
    BadCrons,    \* the expressions the daemon's parser refuses
    Requests,    \* the assignments that Add may be called with
    Execs,       \* execution identifiers, one for each run the cron starts
    Results,     \* what executor.Run may return for a command
    MaxHistory,  \* s.maxHistory, 100 in New
    MaxEntries,  \* bound: how many cron entries are ever made
    None         \* no assignment

Assignment == [id: Ids, generation: Nat, enabled: BOOLEAN, cron: Crons]

TerminalStates == {"succeeded", "failed", "timed_out"}
Streams == {"stdout", "stderr"}

\* The final state of a command and the streams it has written to.
Result == [state: TerminalStates, out: SUBSET Streams]

ASSUME SchedulerAssumption ==
    /\ BadCrons \subseteq Crons
    /\ Requests \subseteq Assignment
    /\ Results \subseteq Result
    /\ MaxHistory \in Nat \ {0}
    /\ MaxEntries \in Nat
    /\ None \notin Assignment

VARIABLES
    assignments,  \* s.assignments: the assignment known for an id, or None
    entries,      \* s.entries: its cron entry, 0 when the map has none
    cronTable,    \* the entries of the cron library: entry number and closure
    lastEntry,    \* the last entry number the library gave out
    busy,         \* the entries whose SkipIfStillRunning token is taken
    phase,        \* how far each execution has got
    job,          \* the cron job an execution was started for
    result,       \* what the executor returned for it
    history       \* s.history: the last MaxHistory records of an id

schedVars == <<assignments, entries, cronTable, lastEntry>>
runVars == <<busy, phase, job, result, history>>
vars == <<assignments, entries, cronTable, lastEntry,
          busy, phase, job, result, history>>

-----------------------------------------------------------------------------
(* Types.                                                                  *)

Job == [entry: Nat, run: Assignment]
HistoryRecord == [exec: Execs, state: TerminalStates \cup {"running"}]

\* unborn, spawned: no token yet; lost: the process died with the goroutine.
Phases == {"unborn", "spawned", "skipped", "started", "running", "exited",
           "recorded", "ended", "flushed", "done", "lost"}

\* The phases in which execute() is on the stack of the goroutine.
Active == {"started", "running", "exited", "recorded", "ended", "flushed"}

\* The phases before the second critical section of execute().
Unrecorded == {"started", "running", "exited"}

\* The phases in which the executor has returned.
Reported == {"exited", "recorded", "ended", "flushed", "done"}

-----------------------------------------------------------------------------
Init ==
    /\ assignments = [id \in Ids |-> None]
    /\ entries = [id \in Ids |-> 0]
    /\ cronTable = {}
    /\ lastEntry = 0
    /\ busy = {}
    /\ phase = [e \in Execs |-> "unborn"]
    /\ job = [e \in Execs |-> None]
    /\ result = [e \in Execs |-> None]
    /\ history = [id \in Ids |-> << >>]

-----------------------------------------------------------------------------
(* Add and Remove.                                                         *)

\* Mutant of Outdated: a generation that is known already is taken again.
OutdatedIfOlder(a) ==
    /\ assignments[a.id] # None
    /\ assignments[a.id].generation > a.generation

\* Add returns nil without a change: it knows this generation or a later one.
Outdated(a) ==
    /\ assignments[a.id] # None
    /\ assignments[a.id].generation >= a.generation

\* Add returns an error before it has changed anything.
Refused(a) == ~Outdated(a) /\ a.cron \in BadCrons

\* Add stores the assignment.
Accepted(a) == ~Outdated(a) /\ a.cron \notin BadCrons

\* Mutant of Unscheduled: the entry stays in the cron table.
UnscheduledOnlyInMap(id) == cronTable

\* What is left of the cron table once the entry of id is taken out.
Unscheduled(id) == {j \in cronTable : j.entry # entries[id]}

\* Mutant of InstallDisabled: the early return comes before the entry is removed.
InstallDisabledTooEarly(a) ==
    /\ ~a.enabled
    /\ assignments' = [assignments EXCEPT ![a.id] = a]
    /\ UNCHANGED <<cronTable, entries, lastEntry>>

InstallDisabled(a) ==
    /\ ~a.enabled
    /\ cronTable' = Unscheduled(a.id)
    /\ entries' = [entries EXCEPT ![a.id] = 0]
    /\ assignments' = [assignments EXCEPT ![a.id] = a]
    /\ UNCHANGED lastEntry

InstallEnabled(a) ==
    /\ a.enabled
    /\ lastEntry < MaxEntries
    /\ lastEntry' = lastEntry + 1
    /\ cronTable' = Unscheduled(a.id)
                       \cup {[entry |-> lastEntry + 1, run |-> a]}
    /\ entries' = [entries EXCEPT ![a.id] = lastEntry + 1]
    /\ assignments' = [assignments EXCEPT ![a.id] = a]

Install(a) == Accepted(a) /\ (InstallDisabled(a) \/ InstallEnabled(a))

\* The two early returns of Add leave every map as it is.
AddReturnsEarly(a) == (Outdated(a) \/ Refused(a)) /\ UNCHANGED schedVars

Add(a) == (AddReturnsEarly(a) \/ Install(a)) /\ UNCHANGED runVars

Uninstall(id) ==
    /\ cronTable' = Unscheduled(id)
    /\ entries' = [entries EXCEPT ![id] = 0]
    /\ assignments' = [assignments EXCEPT ![id] = None]
    /\ UNCHANGED lastEntry

Remove(id) == Uninstall(id) /\ UNCHANGED runVars

-----------------------------------------------------------------------------
(* An execution.                                                           *)

Trim(s) == IF Len(s) > MaxHistory
             THEN SubSeq(s, Len(s) - MaxHistory + 1, Len(s))
             ELSE s

\* Mutant of Finished: the last record is taken to be the one of e.
FinishedLast(s, e, state) == [s EXCEPT ![Len(s)].state = state]

\* The record of e, wherever it still is in s, gets its final state.
Finished(s, e, state) ==
    [i \in DOMAIN s |->
        IF s[i].exec = e THEN [exec |-> e, state |-> state] ELSE s[i]]

\* The cron loop starts a goroutine for an entry that is due.
Fire(e, j) ==
    /\ phase[e] = "unborn"
    /\ j \in cronTable
    /\ phase' = [phase EXCEPT ![e] = "spawned"]
    /\ job' = [job EXCEPT ![e] = j]
    /\ UNCHANGED <<schedVars, busy, result, history>>

\* SkipIfStillRunning: another run of this entry holds the token.
Skip(e) ==
    /\ phase[e] = "spawned"
    /\ job[e].entry \in busy
    /\ phase' = [phase EXCEPT ![e] = "skipped"]
    /\ UNCHANGED <<schedVars, busy, job, result, history>>

\* Mutant of Begin: the chain has no SkipIfStillRunning.
BeginUnchained(e) ==
    /\ phase[e] = "spawned"
    /\ busy' = busy \cup {job[e].entry}
    /\ phase' = [phase EXCEPT ![e] = "started"]
    /\ history' = [history EXCEPT ![job[e].run.id] =
                       Trim(Append(@, [exec |-> e, state |-> "running"]))]
    /\ UNCHANGED <<schedVars, job, result>>

\* Mutant of Begin: a full history is waited for instead of trimmed.
BeginIfRoom(e) ==
    /\ phase[e] = "spawned"
    /\ job[e].entry \notin busy
    /\ Len(history[job[e].run.id]) < MaxHistory
    /\ busy' = busy \cup {job[e].entry}
    /\ phase' = [phase EXCEPT ![e] = "started"]
    /\ history' = [history EXCEPT ![job[e].run.id] =
                       Append(@, [exec |-> e, state |-> "running"])]
    /\ UNCHANGED <<schedVars, job, result>>

\* The run takes the token and appends its record under the mutex.
Begin(e) ==
    /\ phase[e] = "spawned"
    /\ job[e].entry \notin busy
    /\ busy' = busy \cup {job[e].entry}
    /\ phase' = [phase EXCEPT ![e] = "started"]
    /\ history' = [history EXCEPT ![job[e].run.id] =
                       Trim(Append(@, [exec |-> e, state |-> "running"]))]
    /\ UNCHANGED <<schedVars, job, result>>

\* A step of execute() that changes nothing but where the goroutine is.
Advance(e, from, to) ==
    /\ phase[e] = from
    /\ phase' = [phase EXCEPT ![e] = to]
    /\ UNCHANGED <<schedVars, busy, job, result, history>>

\* cb.PersistExecution of the running record returned, with or without error.
PersistStart(e) == Advance(e, "started", "running")

\* Mutant of Exit: the result is dropped.
ExitUnread(e, r) ==
    /\ phase[e] = "running"
    /\ phase' = [phase EXCEPT ![e] = "exited"]
    /\ UNCHANGED <<schedVars, busy, job, result, history>>

\* executor.Run returned; evaluateState has corrected its state.
Exit(e, r) ==
    /\ phase[e] = "running"
    /\ phase' = [phase EXCEPT ![e] = "exited"]
    /\ result' = [result EXCEPT ![e] = r]
    /\ UNCHANGED <<schedVars, busy, job, history>>

\* The second critical section.
RecordResult(e) ==
    /\ phase[e] = "exited"
    /\ phase' = [phase EXCEPT ![e] = "recorded"]
    /\ history' = [history EXCEPT ![job[e].run.id] =
                       Finished(@, e, result[e].state)]
    /\ UNCHANGED <<schedVars, busy, job, result>>

\* cb.PersistExecution of the final record, then the two log chunks.
PersistEnd(e) == Advance(e, "recorded", "ended")
AppendStdout(e) == Advance(e, "ended", "flushed")

\* The last call, after which the token goes back to the entry.
AppendStderr(e) ==
    /\ phase[e] = "flushed"
    /\ phase' = [phase EXCEPT ![e] = "done"]
    /\ busy' = busy \ {job[e].entry}
    /\ UNCHANGED <<schedVars, job, result, history>>

-----------------------------------------------------------------------------
\* What the goroutine of an execution does once the cron has started it.
RunStep(e) ==
    \/ Skip(e)
    \/ Begin(e)
    \/ PersistStart(e)
    \/ \E r \in Results : Exit(e, r)
    \/ RecordResult(e)
    \/ PersistEnd(e)
    \/ AppendStdout(e)
    \/ AppendStderr(e)

Next ==
    \/ \E a \in Requests : Add(a)
    \/ \E id \in Ids : Remove(id)
    \/ \E e \in Execs : \E j \in cronTable : Fire(e, j)
    \/ \E e \in Execs : RunStep(e)

Spec == Init /\ [][Next]_vars

\* Go schedules every runnable goroutine.  That executor.Run returns is not
\* assumed: it waits for as long as a child of the command holds its output
\* (executor.go:99).
FairSpec == Spec /\ \A e \in Execs : WF_vars(phase[e] # "running" /\ RunStep(e))

-----------------------------------------------------------------------------
(* Properties.                                                             *)

\* Every variable has its type, an execution that was fired has its job, and
\* one whose command has returned has its result.
TypeOK ==
    /\ assignments \in [Ids -> Assignment \cup {None}]
    /\ entries \in [Ids -> Nat]
    /\ cronTable \subseteq Job
    /\ lastEntry \in Nat
    /\ busy \subseteq Nat
    /\ phase \in [Execs -> Phases]
    /\ job \in [Execs -> Job \cup {None}]
    /\ result \in [Execs -> Result \cup {None}]
    /\ history \in [Ids -> Seq(HistoryRecord)]
    /\ \A e \in Execs :
          /\ phase[e] # "unborn" => job[e] \in Job
          /\ phase[e] \in Reported => result[e] \in Result

\* The two maps of the scheduler and the table inside the cron library agree:
\* exactly the enabled assignments are in the table, each once, in its latest
\* version, and under the number the entries map holds.  A leaked entry would
\* go on firing an assignment that nothing can remove any more.
ScheduledIds == {id \in Ids : entries[id] # 0}

TableMatchesAssignments ==
    /\ cronTable = {[entry |-> entries[id], run |-> assignments[id]] :
                        id \in ScheduledIds}
    /\ \A id \in Ids :
          /\ assignments[id] # None => assignments[id].id = id
          /\ entries[id] # 0 <=> /\ assignments[id] # None
                                 /\ assignments[id].enabled
          /\ entries[id] <= lastEntry
    /\ \A i, k \in ScheduledIds : entries[i] = entries[k] => i = k

\* A token is out exactly when one run of its entry is inside execute(): two
\* runs of an entry never overlap, and no token is lost, which would make
\* the entry skip for ever.
OneRunPerEntry ==
    /\ \A e \in Execs : phase[e] \in Active => job[e].entry \in busy
    /\ \A n \in busy : \E e \in Execs : phase[e] \in Active /\ job[e].entry = n
    /\ \A e, f \in Execs :
          /\ phase[e] \in Active
          /\ phase[f] \in Active
          /\ job[e].entry = job[f].entry
          => e = f

\* The record h, kept under id, tells how far its execution is.
TracksRun(h, id) ==
    /\ phase[h.exec] \in Active \cup {"done"}
    /\ job[h.exec].run.id = id
    /\ h.state = "running" <=> phase[h.exec] \in Unrecorded
    /\ h.state # "running" => h.state = result[h.exec].state

\* The history of an id stays within its limit, holds each execution once,
\* and a record says "running" exactly while the execution has yet to report:
\* trimming and concurrent appends never strand a running record.
HistoryTracksRuns ==
    \A id \in Ids :
        /\ Len(history[id]) <= MaxHistory
        /\ \A i \in 1 .. Len(history[id]) : TracksRun(history[id][i], id)
        /\ \A i, k \in 1 .. Len(history[id]) :
              history[id][i].exec = history[id][k].exec => i = k

\* The runs in progress, with the version each was started for.
LiveRuns ==
    {[exec |-> e, version |-> job[e].run] :
        e \in {x \in Execs : phase[x] \in Active \cup {"spawned"}}}

StartedRuns == {e \in Execs : phase[e] # "unborn"}

Service == INSTANCE CronService WITH Versions <- Requests,
               table <- assignments, live <- LiveRuns, started <- StartedRuns

\* The scheduler keeps the promise of CronService: the entries of the cron
\* library start only what the scheduler holds at that very moment, nothing
\* removed, disabled or replaced; and short of a Remove an id never goes back
\* to an earlier generation, nor to other content under the one it has.
ImplementsService == Service!Spec

\* Every execution the cron starts comes to its end or is skipped, unless the
\* executor never returns from its command: nothing else of execute() and of the
\* tokens keeps a run, and none waits for another that is stuck.
RunsEnd ==
    \A e \in Execs :
        phase[e] = "spawned" ~> \/ phase[e] \in {"done", "skipped"}
                               \/ [](phase[e] = "running")
=============================================================================

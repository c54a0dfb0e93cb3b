------------------------------- MODULE Daemon -------------------------------
(***************************************************************************)
(* monocrond: the scheduler of module Scheduler, the HTTP handlers of      *)
(* internal/daemon/api that change it, the SQLite store of                 *)
(* internal/daemon/store, and the life of the process in cmd/monocrond.    *)
(*                                                                         *)
(* A handler is a goroutine: it calls the scheduler, then the store, then  *)
(* answers, and other handlers, executions and the process itself may do   *)
(* anything between the two calls.  A store call may fail; the code logs   *)
(* the error and goes on as if it had not.  The process may be killed at   *)
(* any moment, and loses everything but the store.                         *)
(***************************************************************************)
EXTENDS Scheduler

CONSTANTS
    Handlers,          \* the requests that may be in progress at once
    MaxCrashes,        \* bound: how often the process is killed
    MaxStoreFailures,  \* bound: how many calls of the store fail
    Unknown            \* nothing has been answered about an id

ASSUME DaemonAssumption ==
    /\ MaxCrashes \in Nat
    /\ MaxStoreFailures \in Nat
    /\ Unknown \notin Assignment \cup {None}
    /\ None \notin TerminalStates \cup {"running"}

VARIABLES
    mode,           \* where main() is
    listening,      \* the socket accepts connections
    toRestore,      \* the assignments main has loaded and not yet added
    handler,        \* what each request still has to write to the store
    dbAssignments,  \* the assignments table
    dbExecutions,   \* the state column of the executions table
    dbLogs,         \* the (stream, sequence) keys of the log_chunks table
    crashes, storeFailures,
    promised        \* history variable: what the last answer about an id said

dbVars == <<dbAssignments, dbExecutions, dbLogs>>
processVars == <<mode, listening, toRestore>>
boundVars == <<crashes, storeFailures>>
daemonVars == <<vars, mode, listening, toRestore, handler,
                dbAssignments, dbExecutions, dbLogs,
                crashes, storeFailures, promised>>

Idle == [op |-> "idle"]
Saving(a) == [op |-> "save", assignment |-> a]
Deleting(id) == [op |-> "delete", id |-> id]

DaemonInit ==
    /\ Init
    /\ mode = "down"
    /\ listening = FALSE
    /\ toRestore = {}
    /\ handler = [h \in Handlers |-> Idle]
    /\ dbAssignments = [id \in Ids |-> None]
    /\ dbExecutions = [e \in Execs |-> None]
    /\ dbLogs = [e \in Execs |-> {}]
    /\ crashes = 0
    /\ storeFailures = 0
    /\ promised = [id \in Ids |-> Unknown]

-----------------------------------------------------------------------------
\* A call of the store that succeeds, or fails.
StoreCall(succeeds, fails) ==
    \/ succeeds /\ UNCHANGED storeFailures
    \/ /\ storeFailures < MaxStoreFailures
       /\ storeFailures' = storeFailures + 1
       /\ fails

\* The other requests that are about to write the row of id.
Pending(id, h) ==
    {k \in Handlers \ {h} : \/ handler[k].op = "save"
                               /\ handler[k].assignment.id = id
                            \/ handler[k] = Deleting(id)}

\* The answer is a promise if the store has written what it says, and no
\* other request about id is under way.
Answer(h, id, said) ==
    promised' = [promised EXCEPT ![id] =
                     IF Pending(id, h) = {} THEN said ELSE Unknown]

-----------------------------------------------------------------------------
(* Requests.                                                               *)

\* handlePutAssignment up to SaveAssignment.  A refused assignment is answered
\* with an error; everything else, outdated ones too, goes on to the store.
PutAssignment(h, a) ==
    /\ listening
    /\ handler[h] = Idle
    /\ Add(a)
    /\ \/ Refused(a) /\ UNCHANGED <<handler, promised>>
       \/ /\ ~Refused(a)
          /\ handler' = [handler EXCEPT ![h] = Saving(a)]
          /\ promised' = [promised EXCEPT ![a.id] = Unknown]
    /\ UNCHANGED <<processVars, dbVars, boundVars>>

\* Mutant of SaveAssignment: an INSERT that does nothing on a conflict.
SaveUnlessPresent(h) ==
    /\ handler[h].op = "save"
    /\ LET a == handler[h].assignment IN
          /\ dbAssignments' = [dbAssignments EXCEPT
                 ![a.id] = IF @ = None THEN a ELSE @]
          /\ Answer(h, a.id, a)
    /\ handler' = [handler EXCEPT ![h] = Idle]
    /\ UNCHANGED <<vars, processVars, dbExecutions, dbLogs, boundVars>>

\* SaveAssignment, whose error is only logged, and the answer "applied".
SaveAssignment(h) ==
    /\ handler[h].op = "save"
    /\ LET a == handler[h].assignment IN
          StoreCall(/\ dbAssignments' = [dbAssignments EXCEPT ![a.id] = a]
                    /\ Answer(h, a.id, a),
                    UNCHANGED dbAssignments /\ Answer(h, a.id, Unknown))
    /\ handler' = [handler EXCEPT ![h] = Idle]
    /\ UNCHANGED <<vars, processVars, dbExecutions, dbLogs, crashes>>

\* handleDeleteAssignment up to DeleteAssignment.
RemoveAssignment(h, id) ==
    /\ listening
    /\ handler[h] = Idle
    /\ Remove(id)
    /\ handler' = [handler EXCEPT ![h] = Deleting(id)]
    /\ promised' = [promised EXCEPT ![id] = Unknown]
    /\ UNCHANGED <<processVars, dbVars, boundVars>>

\* Mutant of DeleteAssignment: the row is left in the table.
DeleteNothing(h) ==
    /\ handler[h].op = "delete"
    /\ Answer(h, handler[h].id, None)
    /\ handler' = [handler EXCEPT ![h] = Idle]
    /\ UNCHANGED <<vars, processVars, dbVars, boundVars>>

\* DeleteAssignment, whose error is only logged, and the answer "removed".
DeleteAssignment(h) ==
    /\ handler[h].op = "delete"
    /\ LET id == handler[h].id IN
          StoreCall(/\ dbAssignments' = [dbAssignments EXCEPT ![id] = None]
                    /\ Answer(h, id, None),
                    UNCHANGED dbAssignments /\ Answer(h, id, Unknown))
    /\ handler' = [handler EXCEPT ![h] = Idle]
    /\ UNCHANGED <<vars, processVars, dbExecutions, dbLogs, crashes>>

\* handleShutdown closes the HTTP server and nothing else: Serve returns
\* ErrServerClosed, which main ignores.
Shutdown ==
    /\ listening
    /\ listening' = FALSE
    /\ UNCHANGED <<vars, mode, toRestore, handler, dbVars, boundVars, promised>>

-----------------------------------------------------------------------------
(* Executions: the steps of Scheduler and what they write to the store.    *)

DaemonFire(e, j) ==
    /\ mode \in {"restoring", "running"}
    /\ Fire(e, j)
    /\ UNCHANGED <<processVars, handler, dbVars, boundVars, promised>>

\* The steps of execute() that do not call the store.
ComputeStep(e) ==
    /\ \/ Skip(e)
       \/ Begin(e)
       \/ \E r \in Results : Exit(e, r)
       \/ RecordResult(e)
    /\ UNCHANGED <<dbVars, storeFailures>>

\* Mutant of PersistExecution: main closes the store before it waits for the
\* jobs of the cron.
PersistUntilSignal(e, state) ==
    /\ \/ /\ mode # "stopping"
          /\ StoreCall(dbExecutions' = [dbExecutions EXCEPT ![e] = state],
                       UNCHANGED dbExecutions)
       \/ mode = "stopping" /\ UNCHANGED <<dbExecutions, storeFailures>>
    /\ UNCHANGED <<dbAssignments, dbLogs>>

\* PersistExecution inserts the row or overwrites its state.
PersistExecution(e, state) ==
    /\ StoreCall(dbExecutions' = [dbExecutions EXCEPT ![e] = state],
                 UNCHANGED dbExecutions)
    /\ UNCHANGED <<dbAssignments, dbLogs>>

\* Mutant of Sequence: the number is not incremented between the streams.
SequenceOne(e, stream) == 1

\* Mutant of Sequence: the numbers start at 0.
SequenceFromZero(e, stream) ==
    IF stream = "stderr" /\ "stdout" \in result[e].out THEN 1 ELSE 0

\* AppendLogChunk, called only for a stream that has bytes; stderr takes the
\* number after stdout's when there is one.
Sequence(e, stream) ==
    IF stream = "stderr" /\ "stdout" \in result[e].out THEN 2 ELSE 1

\* Mutant of AppendLogChunk: the output of a command that failed is dropped.
AppendIfSucceeded(e, stream) ==
    /\ UNCHANGED <<dbAssignments, dbExecutions>>
    /\ \/ /\ stream \in result[e].out
          /\ result[e].state = "succeeded"
          /\ StoreCall(dbLogs' = [dbLogs EXCEPT
                            ![e] = @ \cup {<<stream, Sequence(e, stream)>>}],
                       UNCHANGED dbLogs)
       \/ /\ stream \notin result[e].out \/ result[e].state # "succeeded"
          /\ UNCHANGED <<dbLogs, storeFailures>>

AppendLogChunk(e, stream) ==
    /\ UNCHANGED <<dbAssignments, dbExecutions>>
    /\ \/ /\ stream \in result[e].out
          /\ StoreCall(dbLogs' = [dbLogs EXCEPT
                            ![e] = @ \cup {<<stream, Sequence(e, stream)>>}],
                       UNCHANGED dbLogs)
       \/ stream \notin result[e].out /\ UNCHANGED <<dbLogs, storeFailures>>

\* The steps of execute() that call the store; their errors are only logged.
StoreStep(e) ==
    \/ PersistStart(e) /\ PersistExecution(e, "running")
    \/ PersistEnd(e) /\ PersistExecution(e, result[e].state)
    \/ AppendStdout(e) /\ AppendLogChunk(e, "stdout")
    \/ AppendStderr(e) /\ AppendLogChunk(e, "stderr")

DaemonRunStep(e) ==
    /\ ComputeStep(e) \/ StoreStep(e)
    /\ UNCHANGED <<processVars, handler, crashes, promised>>

-----------------------------------------------------------------------------
(* The process.                                                            *)

\* LoadAssignments: every row of the table.
Loaded == {dbAssignments[id] : id \in Ids} \ {None}

\* Mutant of Start: executions that a crash cut short are failed, with a WHERE
\* clause that is too wide.
StartFailsAll ==
    /\ mode = "down"
    /\ mode' = "restoring"
    /\ toRestore' = Loaded
    /\ dbExecutions' = [e \in Execs |->
           IF dbExecutions[e] = None THEN None ELSE "failed"]
    /\ UNCHANGED <<vars, listening, handler, dbAssignments, dbLogs, boundVars,
                   promised>>

\* main up to LoadAssignments.
Start ==
    /\ mode = "down"
    /\ mode' = "restoring"
    /\ toRestore' = Loaded
    /\ UNCHANGED <<vars, listening, handler, dbVars, boundVars, promised>>

\* One turn of the loop that adds the loaded assignments; an error is logged.
Restore(a) ==
    /\ mode = "restoring"
    /\ Add(a)
    /\ toRestore' = toRestore \ {a}
    /\ UNCHANGED <<mode, listening, handler, dbVars, boundVars, promised>>

\* Listen and Serve.
Serve ==
    /\ mode = "restoring"
    /\ toRestore = {}
    /\ mode' = "running"
    /\ listening' = TRUE
    /\ UNCHANGED <<vars, toRestore, handler, dbVars, boundVars, promised>>

\* main, which has asked for SIGINT and SIGTERM (signal.Notify) just before it
\* serves, gets one and stops the cron; the socket is still open.
Signal ==
    /\ mode = "running"
    /\ mode' = "stopping"
    /\ UNCHANGED <<vars, listening, toRestore, handler, dbVars, boundVars,
                   promised>>

\* Serve returns another error than ErrServerClosed, and main stops the cron.
ServeFails ==
    /\ listening
    /\ mode' = "stopping"
    /\ listening' = FALSE
    /\ UNCHANGED <<vars, toRestore, handler, dbVars, boundVars, promised>>

InProgress(e) == phase[e] = "spawned" \/ phase[e] \in Active

\* The process ends: its memory, its goroutines and its socket are gone.
Die ==
    /\ mode' = "down"
    /\ listening' = FALSE
    /\ toRestore' = {}
    /\ handler' = [h \in Handlers |-> Idle]
    /\ assignments' = [id \in Ids |-> None]
    /\ entries' = [id \in Ids |-> 0]
    /\ cronTable' = {}
    /\ lastEntry' = 0
    /\ busy' = {}
    /\ history' = [id \in Ids |-> << >>]
    /\ phase' = [e \in Execs |-> IF InProgress(e) THEN "lost" ELSE phase[e]]
    /\ UNCHANGED <<job, result, dbVars, storeFailures, promised>>

\* A signal before signal.Notify ends the process at once, and so does main
\* itself (os.Exit) when it cannot listen; the cron fires already.
EndEarly ==
    /\ mode = "restoring"
    /\ Die
    /\ UNCHANGED crashes

\* Mutant of Stop: main waits for the requests too, while more may come.
StopAfterRequests ==
    /\ mode = "stopping"
    /\ \A e \in Execs : ~InProgress(e)
    /\ \A h \in Handlers : handler[h] = Idle
    /\ Die
    /\ UNCHANGED crashes

\* main waits for the jobs of the cron, then gives the handlers five seconds.
Stop ==
    /\ mode = "stopping"
    /\ \A e \in Execs : ~InProgress(e)
    /\ Die
    /\ UNCHANGED crashes

\* SIGKILL, a panic outside a job, a power failure.
Crash ==
    /\ mode # "down"
    /\ crashes < MaxCrashes
    /\ crashes' = crashes + 1
    /\ Die

-----------------------------------------------------------------------------
HandlerStep(h) == SaveAssignment(h) \/ DeleteAssignment(h)

MainStep == Start \/ (\E a \in toRestore : Restore(a)) \/ Serve \/ Stop

DaemonNext ==
    \/ \E h \in Handlers, a \in Requests : PutAssignment(h, a)
    \/ \E h \in Handlers, id \in Ids : RemoveAssignment(h, id)
    \/ \E h \in Handlers : HandlerStep(h)
    \/ \E e \in Execs : \E j \in cronTable : DaemonFire(e, j)
    \/ \E e \in Execs : DaemonRunStep(e)
    \/ Shutdown
    \/ MainStep
    \/ Signal
    \/ ServeFails
    \/ EndEarly
    \/ Crash

DaemonSpec == DaemonInit /\ [][DaemonNext]_daemonVars

\* Go runs its goroutines and systemd restarts the process (Restart=always).
\* That executor.Run returns is not assumed (executor.go:99 waits without a
\* limit), and requests, signals and crashes are not owed to anyone.
Fairness ==
    /\ \A h \in Handlers : WF_daemonVars(HandlerStep(h))
    /\ \A e \in Execs :
          WF_daemonVars(phase[e] # "running" /\ DaemonRunStep(e))
    /\ WF_daemonVars(MainStep)

\* A client that never sends a generation the daemon already has, or an
\* earlier one, for an assignment it holds.
NoOutdatedPut ==
    \A h \in Handlers :
        handler[h] = Idle /\ handler'[h].op = "save" =>
            ~Outdated(handler'[h].assignment)

FreshDaemonSpec ==
    DaemonInit /\ [][DaemonNext /\ NoOutdatedPut]_daemonVars /\ Fairness

-----------------------------------------------------------------------------
(* Properties.                                                             *)

HandlerState == {Idle} \cup [op: {"save"}, assignment: Requests]
                       \cup [op: {"delete"}, id: Ids]

\* The scheduler's variables keep their types under the daemon, and the
\* daemon's own have theirs: every assignment it stores was once requested.
DaemonTypeOK ==
    /\ TypeOK
    /\ mode \in {"down", "restoring", "running", "stopping"}
    /\ listening \in BOOLEAN
    /\ toRestore \subseteq Requests
    /\ handler \in [Handlers -> HandlerState]
    /\ dbAssignments \in [Ids -> Requests \cup {None}]
    /\ dbExecutions \in [Execs -> TerminalStates \cup {"running", None}]
    /\ dbLogs \in [Execs -> SUBSET (Streams \X {1, 2})]
    /\ crashes \in 0 .. MaxCrashes
    /\ storeFailures \in 0 .. MaxStoreFailures
    /\ promised \in [Ids -> Requests \cup {None, Unknown}]

\* Whatever fails and whenever the process dies, a row of the executions table
\* tells no more than happened: it says "running" only of an execution that
\* began, a final state only once the executor has returned it, and the log
\* chunks are those of streams the command wrote, under distinct numbers, so
\* that reading them by number gives one order.
RowsFollowExecutions ==
    \A e \in Execs :
        /\ dbExecutions[e] = "running" =>
              phase[e] \notin {"unborn", "spawned", "skipped", "started"}
        /\ dbExecutions[e] \in TerminalStates =>
              /\ phase[e] \in {"ended", "flushed", "done", "lost"}
              /\ dbExecutions[e] = result[e].state
        /\ dbLogs[e] # {} => phase[e] \in {"flushed", "done", "lost"}
        /\ \A c, d \in dbLogs[e] : c[1] = d[1] <=> c[2] = d[2]
        /\ \A c \in dbLogs[e] : c[1] \in result[e].out

\* With a store that never fails, an execution that came to its end has left
\* its final state and the chunks of all its output behind.
FinishedIsComplete ==
    \A e \in Execs :
        phase[e] = "done" /\ storeFailures = 0 =>
            /\ dbExecutions[e] = result[e].state
            /\ {c[1] : c \in dbLogs[e]} = result[e].out

\* A final state is final and a chunk stays: no late write of a run, and no
\* restart, turns a finished execution back or over.
FinalRowsAreFinal ==
    [][\A e \in Execs :
          /\ dbExecutions[e] \in TerminalStates =>
                dbExecutions'[e] = dbExecutions[e]
          /\ dbLogs[e] \subseteq dbLogs'[e]]_daemonVars

\* While no request is under way, the store holds of each assignment exactly
\* what the scheduler runs, unless the store has failed the last request about
\* it, so that a restart changes nothing (cmd/monocrond/main.go:46: "Reload
\* persisted assignments so schedules survive restarts").
StoreAgreesWhenQuiet ==
    mode = "running" /\ (\A h \in Handlers : handler[h] = Idle) =>
        \A id \in Ids :
            promised[id] # Unknown => dbAssignments[id] = assignments[id]

\* What the daemon last answered about an id ("applied" or "removed") is what
\* it runs from then on, through crashes and restarts, until the next request
\* about that id (README.md:338-339: "Validate, persist, schedule", "Applied"),
\* unless the store failed that request, which is answered all the same.
AnswersSurvive ==
    mode = "running" =>
        \A id \in Ids :
            promised[id] # Unknown => assignments[id] = promised[id]

\* What the daemon starts, also while main is still restoring (main.go:44-56),
\* is the version it last answered about that id, through deletes, updates and
\* restarts, and so nothing that it answered to be removed; only while a
\* request about the id is under way, or when the store failed the last one,
\* may it be another.
StartsAreAnswered ==
    [][\A e \in Execs :
          phase[e] = "unborn" /\ phase'[e] = "spawned" =>
              LET a == job'[e].run IN promised[a.id] \in {a, Unknown}
      ]_daemonVars

\* A daemon told to stop does stop, whatever is sent to it meanwhile, unless
\* the executor never returns from one of its commands (main.go:82-83 waits
\* for the jobs without a limit).
StopEnds ==
    mode = "stopping" ~> \/ mode = "down"
                         \/ \E e \in Execs : [](phase[e] = "running")

\* An execution recorded as running gets its final state in the end
\* (README.md:344: "Record execution result"), unless the process ends
\* meanwhile, the store fails, or the executor never returns from its command:
\* nothing else strands a row.
RunningRowsEnd ==
    \A e \in Execs :
        dbExecutions[e] = "running"
            ~> \/ dbExecutions[e] \in TerminalStates
               \/ phase[e] = "lost"
               \/ storeFailures > 0
               \/ [](phase[e] = "running")
=============================================================================

---------------------------- MODULE DaemonProofs ----------------------------
(***************************************************************************)
(* What is proved of monocrond for every number of handlers, executions,   *)
(* crashes and failures of the store.  A step of the daemon is a step of   *)
(* the scheduler, a stutter of it, or the death of the process, so the     *)
(* inductive steps of SchedulerProofs carry over.                          *)
(***************************************************************************)
EXTENDS Daemon, SchedulerProofs

-----------------------------------------------------------------------------
(* Steps.                                                                  *)

\* The steps of an execution, as the scheduler sees them.
LEMMA DaemonRunStepIsRunStep ==
    ASSUME NEW e \in Execs, DaemonRunStep(e)
    PROVE  RunStep(e)
BY DEF DaemonRunStep, ComputeStep, StoreStep, RunStep

\* Every step of the daemon is one of the scheduler, or the process dies.
LEMMA DaemonStepIsSchedulerStep ==
    ASSUME DaemonTypeOK, [DaemonNext]_daemonVars
    PROVE  [Next]_vars \/ Stop \/ Crash \/ EndEarly
<1>1. ASSUME NEW h \in Handlers, NEW a \in Requests, PutAssignment(h, a)
      PROVE  Next
  BY <1>1 DEF PutAssignment, Next
<1>2. ASSUME NEW h \in Handlers, NEW id \in Ids, RemoveAssignment(h, id)
      PROVE  Next
  BY <1>2 DEF RemoveAssignment, Next
<1>3. ASSUME NEW h \in Handlers, HandlerStep(h) PROVE UNCHANGED vars
  BY <1>3 DEF HandlerStep, SaveAssignment, DeleteAssignment
<1>4. ASSUME NEW e \in Execs, NEW j \in cronTable, DaemonFire(e, j)
      PROVE  Next
  BY <1>4 DEF DaemonFire, Next
<1>5. ASSUME NEW e \in Execs, DaemonRunStep(e) PROVE Next
  BY <1>5, DaemonRunStepIsRunStep DEF Next
<1>6. ASSUME MainStep PROVE [Next]_vars \/ Stop
  <2>1. ASSUME NEW a \in toRestore, Restore(a) PROVE Next
    BY <2>1 DEF Restore, Next, DaemonTypeOK
  <2> QED BY <1>6, <2>1 DEF MainStep, Start, Serve
<1> QED BY <1>1, <1>2, <1>3, <1>4, <1>5, <1>6
        DEF DaemonNext, Shutdown, Signal, ServeFails, daemonVars

\* The death of the process leaves the scheduler well typed and empty.
LEMMA DieClears ==
    ASSUME TypeOK, Die
    PROVE  /\ TypeOK'
           /\ TableMatchesAssignments'
           /\ OneRunPerEntry'
           /\ HistoryTracksRuns'
<1>1. TypeOK'
  <2>1. \A e \in Execs :
           /\ phase'[e] \in Phases
           /\ phase'[e] # "unborn" => phase[e] # "unborn"
           /\ phase'[e] \in Reported => phase[e] \in Reported
    BY DEF Die, TypeOK, Phases, Reported, InProgress, Active
  <2>2. phase' \in [Execs -> Phases]
    BY <2>1 DEF Die
  <2> QED BY <2>1, <2>2 DEF Die, TypeOK
<1>2. TableMatchesAssignments'
  BY DEF Die, TableMatchesAssignments, ScheduledIds
<1>3. OneRunPerEntry'
  BY DEF Die, OneRunPerEntry, InProgress, Active
<1>4. HistoryTracksRuns'
  BY SchedulerAssumption DEF Die, HistoryTracksRuns
<1> QED BY <1>1, <1>2, <1>3, <1>4

-----------------------------------------------------------------------------
(* Type correctness.                                                       *)

\* Inductive step of DaemonTypeOK.
LEMMA DaemonTypeInductive ==
    DaemonTypeOK /\ [DaemonNext]_daemonVars => DaemonTypeOK'
<1> SUFFICES ASSUME DaemonTypeOK, [DaemonNext]_daemonVars
             PROVE  DaemonTypeOK'
  OBVIOUS
<1> USE SchedulerAssumption, DaemonAssumption
<1>1. TypeOK'
  BY TypeInductive, DieClears, DaemonStepIsSchedulerStep
     DEF DaemonTypeOK, Stop, Crash, EndEarly
<1> USE <1>1 DEF DaemonTypeOK, processVars, dbVars, boundVars
<1>2. ASSUME NEW h \in Handlers, NEW a \in Requests, PutAssignment(h, a)
      PROVE  DaemonTypeOK'
  <2>1. Saving(a) \in HandlerState
    BY DEF Saving, HandlerState
  <2> QED BY <1>2, <2>1 DEF PutAssignment
<1>3. ASSUME NEW h \in Handlers, SaveAssignment(h) PROVE DaemonTypeOK'
  <2>1. handler[h].assignment \in Requests /\ Idle \in HandlerState
    BY <1>3 DEF SaveAssignment, HandlerState, Idle
  <2>2. storeFailures' \in 0 .. MaxStoreFailures
    BY <1>3 DEF SaveAssignment, StoreCall
  <2>3. dbAssignments' \in [Ids -> Requests \cup {None}]
    BY <1>3, <2>1 DEF SaveAssignment, StoreCall
  <2>4. promised' \in [Ids -> Requests \cup {None, Unknown}]
    BY <1>3, <2>1 DEF SaveAssignment, StoreCall, Answer
  <2> QED BY <1>3, <2>1, <2>2, <2>3, <2>4 DEF SaveAssignment
<1>4. ASSUME NEW h \in Handlers, NEW id \in Ids, RemoveAssignment(h, id)
      PROVE  DaemonTypeOK'
  <2>1. Deleting(id) \in HandlerState
    BY DEF Deleting, HandlerState
  <2> QED BY <1>4, <2>1 DEF RemoveAssignment
<1>5. ASSUME NEW h \in Handlers, DeleteAssignment(h) PROVE DaemonTypeOK'
  <2>1. handler[h].id \in Ids /\ Idle \in HandlerState
    BY <1>5 DEF DeleteAssignment, HandlerState, Idle
  <2>2. storeFailures' \in 0 .. MaxStoreFailures
    BY <1>5 DEF DeleteAssignment, StoreCall
  <2>3. /\ dbAssignments' \in [Ids -> Requests \cup {None}]
        /\ promised' \in [Ids -> Requests \cup {None, Unknown}]
    BY <1>5, <2>1 DEF DeleteAssignment, StoreCall, Answer
  <2> QED BY <1>5, <2>1, <2>2, <2>3 DEF DeleteAssignment
<1>6. ASSUME NEW e \in Execs, NEW j \in cronTable, DaemonFire(e, j)
      PROVE  DaemonTypeOK'
  BY <1>6 DEF DaemonFire
<1>7. ASSUME NEW e \in Execs, DaemonRunStep(e) PROVE DaemonTypeOK'
  <2>1. /\ UNCHANGED <<processVars, handler, crashes, promised>>
        /\ UNCHANGED dbAssignments
    BY <1>7 DEF DaemonRunStep, ComputeStep, StoreStep, PersistExecution,
         AppendLogChunk
  <2>2. CASE ComputeStep(e)
    BY <2>1, <2>2 DEF ComputeStep
  <2>3. ASSUME NEW st \in TerminalStates \cup {"running"},
               PersistExecution(e, st)
        PROVE  DaemonTypeOK'
    BY <2>1, <2>3 DEF PersistExecution, StoreCall
  <2>4. ASSUME NEW stream \in Streams, AppendLogChunk(e, stream)
        PROVE  DaemonTypeOK'
    BY <2>1, <2>4 DEF AppendLogChunk, StoreCall, Sequence
  <2>5. ASSUME PersistEnd(e) PROVE result[e].state \in TerminalStates
    BY <2>5 DEF PersistEnd, Advance, TypeOK, Reported, Result
  <2> QED BY <1>7, <2>2, <2>3, <2>4, <2>5 DEF DaemonRunStep, StoreStep, Streams
<1>8. ASSUME MainStep PROVE DaemonTypeOK'
  <2>1. CASE Start
    BY <2>1 DEF Start, Loaded
  <2>2. ASSUME NEW a \in toRestore, Restore(a) PROVE DaemonTypeOK'
    BY <2>2 DEF Restore
  <2>3. CASE Serve
    BY <2>3 DEF Serve
  <2>4. CASE Stop
    BY <2>4 DEF Stop, Die, HandlerState
  <2> QED BY <1>8, <2>1, <2>2, <2>3, <2>4 DEF MainStep
<1>9. CASE Crash
  <2>1. crashes' \in 0 .. MaxCrashes
    BY <1>9 DEF Crash
  <2>2. Idle \in HandlerState
    BY DEF HandlerState
  <2> QED BY <1>9, <2>1, <2>2 DEF Crash, Die
<1>10. CASE Shutdown \/ Signal \/ ServeFails
  BY <1>10 DEF Shutdown, Signal, ServeFails
<1>11. CASE EndEarly
  BY <1>11 DEF EndEarly, Die, HandlerState
<1>12. CASE UNCHANGED daemonVars
  BY <1>12 DEF daemonVars
<1> QED BY <1>2, <1>3, <1>4, <1>5, <1>6, <1>7, <1>8, <1>9, <1>10, <1>11, <1>12
        DEF DaemonNext, HandlerStep

\* The types of the daemon, the scheduler's included, hold through every crash
\* and restart.
THEOREM DaemonTypeCorrect == DaemonSpec => []DaemonTypeOK
<1>1. DaemonInit => DaemonTypeOK
  <2> SUFFICES ASSUME DaemonInit PROVE DaemonTypeOK
    OBVIOUS
  <2>1. TypeOK
    BY InitTyped DEF DaemonInit
  <2>2. Idle \in HandlerState
    BY DEF HandlerState
  <2>3. crashes \in 0 .. MaxCrashes /\ storeFailures \in 0 .. MaxStoreFailures
    BY DaemonAssumption DEF DaemonInit
  <2>4. handler \in [Handlers -> HandlerState]
    BY <2>2 DEF DaemonInit
  <2>5. /\ dbAssignments \in [Ids -> Requests \cup {None}]
        /\ promised \in [Ids -> Requests \cup {None, Unknown}]
        /\ dbExecutions \in [Execs -> TerminalStates \cup {"running", None}]
        /\ dbLogs \in [Execs -> SUBSET (Streams \X {1, 2})]
    BY DEF DaemonInit
  <2> QED BY <2>1, <2>3, <2>4, <2>5 DEF DaemonInit, DaemonTypeOK
<1> QED BY <1>1, DaemonTypeInductive, PTL DEF DaemonSpec

-----------------------------------------------------------------------------
(* The scheduler inside the daemon.                                        *)

\* What SchedulerProofs shows of the scheduler alone still holds when its
\* process crashes and restarts under it, and restores its assignments while
\* the cron is already firing (cmd/monocrond/main.go:44-56).
SchedulerInv == TableMatchesAssignments /\ OneRunPerEntry /\ HistoryTracksRuns

\* The invariants of the scheduler hold inside the daemon.
THEOREM SchedulerInvHolds == DaemonSpec => []SchedulerInv
<1>1. DaemonInit => SchedulerInv
  BY SchedulerAssumption
     DEF DaemonInit, Init, SchedulerInv, TableMatchesAssignments, ScheduledIds,
         OneRunPerEntry, HistoryTracksRuns, Active
<1>2. DaemonTypeOK /\ SchedulerInv /\ [DaemonNext]_daemonVars => SchedulerInv'
  BY DaemonStepIsSchedulerStep, DieClears, TableInductive, OneRunInductive,
     HistoryInductive
     DEF SchedulerInv, DaemonTypeOK, Stop, Crash, EndEarly
<1> QED BY <1>1, <1>2, DaemonTypeCorrect, PTL DEF DaemonSpec

\* To a client of the service the process restarts: its table is empty and its
\* runs are cut short, but what was started is never started again.
ServiceRestarts ==
    /\ assignments' = [id \in Ids |-> None]
    /\ LiveRuns' = {}
    /\ StartedRuns' = StartedRuns

\* The death of the process is a restart of the service.
LEMMA DieIsRestart ==
    ASSUME TypeOK, Die
    PROVE  ServiceRestarts
<1>1. \A e \in Execs : phase'[e] \notin Active \cup {"spawned"}
  BY DEF Die, InProgress, Active
<1>2. \A e \in Execs : phase'[e] = "unborn" <=> phase[e] = "unborn"
  BY DEF Die, InProgress, Active
<1>3. LiveRuns' = {}
  BY <1>1 DEF LiveRuns
<1>4. StartedRuns' = StartedRuns
  BY <1>2 DEF StartedRuns
<1> QED BY <1>3, <1>4 DEF Die, ServiceRestarts

\* The daemon implements CronService with restarts, whatever its store does: a
\* restored assignment goes in by the rules of a new one, and a run starts
\* with what the table holds at that moment also while main restores
\* (cmd/monocrond/main.go:44-56, scheduler.go:92-140).
THEOREM RestartingServiceImplemented ==
    DaemonSpec => /\ Service!Init
                  /\ [][Service!Next \/ ServiceRestarts]_(Service!vars)
<1>1. DaemonInit => Service!Init
  BY ServiceInit DEF DaemonInit
<1>2. ASSUME DaemonTypeOK, TableMatchesAssignments, [DaemonNext]_daemonVars
      PROVE  [Service!Next \/ ServiceRestarts]_(Service!vars)
  BY <1>2, DaemonStepIsSchedulerStep, StepImplements, DieIsRestart
     DEF DaemonTypeOK, Stop, Crash, EndEarly
<1> QED BY <1>1, <1>2, DaemonTypeCorrect, SchedulerInvHolds, PTL
        DEF DaemonSpec, SchedulerInv

-----------------------------------------------------------------------------
(* The executions and log tables.                                          *)

\* The chunks of an execution have the numbers AppendLogChunk computes: what
\* RowsFollowExecutions needs before stderr is appended after stdout.
ChunksAreNumbered ==
    \A e \in Execs : \A c \in dbLogs[e] :
        /\ c[1] \in result[e].out
        /\ c = <<c[1], Sequence(e, c[1])>>
        /\ phase[e] = "flushed" => c[1] = "stdout"

RowsInv == RowsFollowExecutions /\ ChunksAreNumbered

\* The steps that touch neither the tables nor a run that has begun.
LEMMA RowsUndisturbed ==
    ASSUME RowsInv, UNCHANGED <<dbExecutions, dbLogs, result>>,
           \A e \in Execs :
              \/ phase'[e] = phase[e]
              \/ phase'[e] = "lost"
              \/ phase[e] \in {"unborn", "spawned"}
              \/ phase[e] = "exited" /\ phase'[e] = "recorded"
    PROVE  RowsInv'
BY DEF RowsInv, RowsFollowExecutions, ChunksAreNumbered, TerminalStates,
       Sequence

\* Inductive step for an execution of the daemon.
LEMMA RunStepRows ==
    ASSUME DaemonTypeOK, RowsInv, NEW e \in Execs, DaemonRunStep(e)
    PROVE  RowsInv'
<1> USE DEF DaemonTypeOK, TypeOK
<1>1. \A f \in Execs :
         \/ dbExecutions[f] = None
         \/ dbExecutions[f] = "running"
         \/ dbExecutions[f] \in TerminalStates
  OBVIOUS
<1> USE DEF RowsInv, RowsFollowExecutions, ChunksAreNumbered, TerminalStates
<1>2. CASE Skip(e) /\ UNCHANGED dbVars
  BY <1>2, RowsUndisturbed DEF Skip, dbVars
<1>3. CASE Begin(e) /\ UNCHANGED dbVars
  BY <1>3, RowsUndisturbed DEF Begin, dbVars
<1>4. ASSUME NEW r \in Results, Exit(e, r), UNCHANGED dbVars PROVE RowsInv'
  <2>1. /\ phase[e] = "running" /\ phase' = [phase EXCEPT ![e] = "exited"]
        /\ \A f \in Execs \ {e} : result'[f] = result[f]
        /\ UNCHANGED <<dbExecutions, dbLogs>>
    BY <1>4 DEF Exit, dbVars
  <2>2. dbLogs[e] = {} /\ dbExecutions[e] \notin TerminalStates
    BY <2>1
  <2>3. RowsFollowExecutions'
    BY <2>1, <2>2
  <2>4. ChunksAreNumbered'
    BY <2>1, <2>2 DEF Sequence
  <2> QED BY <2>3, <2>4
<1>5. CASE RecordResult(e) /\ UNCHANGED dbVars
  BY <1>5, RowsUndisturbed DEF RecordResult, dbVars
<1>6. CASE PersistStart(e) /\ PersistExecution(e, "running")
  <2>1. /\ phase[e] = "started" /\ phase' = [phase EXCEPT ![e] = "running"]
        /\ UNCHANGED <<result, dbLogs>>
        /\ \/ UNCHANGED dbExecutions
           \/ dbExecutions' = [dbExecutions EXCEPT ![e] = "running"]
    BY <1>6 DEF PersistStart, Advance, PersistExecution, StoreCall
  <2>2. "running" \notin TerminalStates
    OBVIOUS
  <2>3. RowsFollowExecutions'
    BY <2>1, <2>2
  <2>4. ChunksAreNumbered'
    BY <2>1 DEF Sequence
  <2> QED BY <2>3, <2>4
<1>7. CASE PersistEnd(e) /\ PersistExecution(e, result[e].state)
  <2>1. result[e].state \in TerminalStates /\ result[e].state # "running"
    BY <1>7 DEF PersistEnd, Advance, Reported, Result
  <2> QED BY <1>7, <2>1 DEF PersistEnd, Advance, PersistExecution, StoreCall,
                          Sequence
<1>8. CASE AppendStdout(e) /\ AppendLogChunk(e, "stdout")
  <2>1. dbLogs[e] = {} /\ UNCHANGED <<result, dbExecutions>>
    BY <1>8 DEF AppendStdout, Advance, AppendLogChunk
  <2>2. Sequence(e, "stdout") = 1
    BY DEF Sequence
  <2>3. \/ dbLogs' = dbLogs
        \/ /\ dbLogs' = [dbLogs EXCEPT ![e] = {<<"stdout", 1>>}]
           /\ "stdout" \in result[e].out
    BY <1>8, <2>1, <2>2 DEF AppendLogChunk, StoreCall
  <2> QED BY <1>8, <2>1, <2>2, <2>3 DEF AppendStdout, Advance, Sequence
<1>9. CASE AppendStderr(e) /\ AppendLogChunk(e, "stderr")
  <2>1. phase' = [phase EXCEPT ![e] = "done"] /\ phase[e] = "flushed"
    BY <1>9 DEF AppendStderr
  <2>2. UNCHANGED <<result, dbExecutions>>
    BY <1>9 DEF AppendStderr, AppendLogChunk
  <2>3. \A c \in dbLogs[e] : c = <<"stdout", 1>> /\ "stdout" \in result[e].out
    BY <2>1 DEF Sequence
  <2>4. \/ dbLogs' = dbLogs
        \/ /\ "stderr" \in result[e].out
           /\ dbLogs' = [dbLogs EXCEPT
                            ![e] = @ \cup {<<"stderr", Sequence(e, "stderr")>>}]
    BY <1>9 DEF AppendLogChunk, StoreCall
  <2>5. dbLogs[e] # {} => Sequence(e, "stderr") = 2
    BY <2>3 DEF Sequence
  <2>6. \A f \in Execs \ {e} : dbLogs'[f] = dbLogs[f] /\ phase'[f] = phase[f]
    BY <2>1, <2>4
  <2>7. \A c \in dbLogs'[e] :
           /\ c[1] \in result[e].out
           /\ c = <<c[1], Sequence(e, c[1])>>
    BY <2>3, <2>4 DEF Sequence
  <2>8. \A c, d \in dbLogs'[e] : c[1] = d[1] <=> c[2] = d[2]
    BY <2>3, <2>4, <2>5
  <2> QED BY <2>1, <2>2, <2>6, <2>7, <2>8 DEF Sequence
<1> QED BY <1>2, <1>3, <1>4, <1>5, <1>6, <1>7, <1>8, <1>9
        DEF DaemonRunStep, ComputeStep, StoreStep, dbVars

\* Inductive step of RowsInv.
LEMMA RowsInductive ==
    DaemonTypeOK /\ RowsInv /\ [DaemonNext]_daemonVars => RowsInv'
<1> SUFFICES ASSUME DaemonTypeOK, RowsInv, [DaemonNext]_daemonVars
             PROVE  RowsInv'
  OBVIOUS
<1> USE DEF dbVars, processVars
<1>1. ASSUME UNCHANGED <<phase, dbExecutions, dbLogs, result>> PROVE RowsInv'
  BY <1>1, RowsUndisturbed
<1>2. ASSUME NEW h \in Handlers, NEW a \in Requests, PutAssignment(h, a)
      PROVE  RowsInv'
  BY <1>1, <1>2 DEF PutAssignment, Add, runVars
<1>3. ASSUME NEW h \in Handlers, NEW id \in Ids, RemoveAssignment(h, id)
      PROVE  RowsInv'
  BY <1>1, <1>3 DEF RemoveAssignment, Remove, runVars
<1>4. ASSUME NEW h \in Handlers, HandlerStep(h) PROVE RowsInv'
  BY <1>1, <1>4 DEF HandlerStep, SaveAssignment, DeleteAssignment, vars
<1>5. ASSUME NEW e \in Execs, NEW j \in cronTable, DaemonFire(e, j)
      PROVE  RowsInv'
  BY <1>5, RowsUndisturbed DEF DaemonFire, Fire, DaemonTypeOK, TypeOK
<1>6. ASSUME NEW e \in Execs, DaemonRunStep(e) PROVE RowsInv'
  BY <1>6, RunStepRows
<1>7. ASSUME Die PROVE RowsInv'
  BY <1>7, RowsUndisturbed DEF Die
<1>8. ASSUME NEW a \in toRestore, Restore(a) PROVE RowsInv'
  BY <1>1, <1>8 DEF Restore, Add, runVars
<1> QED BY <1>1, <1>2, <1>3, <1>4, <1>5, <1>6, <1>7, <1>8
        DEF DaemonNext, MainStep, Start, Serve, Stop, Shutdown, Signal,
            ServeFails, EndEarly, Crash, vars, daemonVars

\* The tables start empty.
LEMMA RowsInit == DaemonInit => RowsInv
BY DaemonAssumption
   DEF DaemonInit, RowsInv, RowsFollowExecutions, ChunksAreNumbered,
       TerminalStates

\* The tables never tell more than happened (internal/daemon/store/store.go:
\* 150-178, called from scheduler.go:194-245), whatever fails or crashes.
THEOREM RowsFollowExecutionsHolds == DaemonSpec => []RowsFollowExecutions
<1>1. RowsInv => RowsFollowExecutions
  BY DEF RowsInv
<1> QED BY <1>1, RowsInit, RowsInductive, DaemonTypeCorrect, PTL DEF DaemonSpec

\* A finished execution is never turned back or over (store.go:150-178): by
\* RowsInv a row with a final state, or with chunks, belongs to a run that is
\* past the calls that could still write over it.
THEOREM FinalRowsAreFinalHolds == DaemonSpec => FinalRowsAreFinal
<1> DEFINE Final(e) ==
      /\ dbExecutions[e] \in TerminalStates =>
             dbExecutions'[e] = dbExecutions[e]
      /\ dbLogs[e] \subseteq dbLogs'[e]
<1>1. ASSUME DaemonTypeOK, RowsInv, [DaemonNext]_daemonVars, NEW e \in Execs
      PROVE  Final(e)
  <2> USE <1>1 DEF dbVars, DaemonTypeOK, TypeOK, TerminalStates
  <2>1. ASSUME NEW f \in Execs, DaemonRunStep(f) PROVE Final(e)
    <3>1. CASE ComputeStep(f)
      BY <3>1 DEF ComputeStep
    <3>2. ASSUME NEW st, PersistExecution(f, st),
                 phase[f] \in {"started", "recorded"}
          PROVE  Final(e)
      <4>1. f = e => dbExecutions[e] \notin TerminalStates
        BY <3>2 DEF RowsInv, RowsFollowExecutions
      <4> QED BY <3>2, <4>1 DEF PersistExecution, StoreCall
    <3>3. ASSUME NEW stream, AppendLogChunk(f, stream) PROVE Final(e)
      BY <3>3 DEF AppendLogChunk, StoreCall
    <3> QED BY <2>1, <3>1, <3>2, <3>3
            DEF DaemonRunStep, StoreStep, PersistStart, PersistEnd, Advance
  <2>2. CASE UNCHANGED <<dbExecutions, dbLogs>>
    BY <2>2
  <2> QED BY <2>1, <2>2
          DEF DaemonNext, PutAssignment, RemoveAssignment, HandlerStep,
              SaveAssignment, DeleteAssignment, DaemonFire, MainStep, Start,
              Restore, Serve, Stop, Die, Shutdown, Signal, ServeFails,
              EndEarly, Crash, daemonVars
<1>2. DaemonTypeOK /\ RowsInv /\ [DaemonNext]_daemonVars
         => [\A e \in Execs : Final(e)]_daemonVars
  BY <1>1
<1> QED BY <1>2, RowsInit, RowsInductive, DaemonTypeCorrect, PTL
        DEF DaemonSpec, FinalRowsAreFinal

-----------------------------------------------------------------------------
(* Complete rows.                                                          *)

\* What the store holds of a run at each point of execute(), as long as no call
\* has failed: the inductive form of FinishedIsComplete.
RowsKeepUp ==
    storeFailures = 0 =>
        \A e \in Execs :
            /\ phase[e] \in {"ended", "flushed", "done"} =>
                  dbExecutions[e] = result[e].state
            /\ phase[e] \in {"flushed", "done"} =>
                  \A s \in Streams :
                      s \in result[e].out =>
                          \/ \E c \in dbLogs[e] : c[1] = s
                          \/ s = "stderr" /\ phase[e] = "flushed"

\* The steps that touch neither the tables nor a run past its end, and let no
\* call of the store fail.
LEMMA KeepUpUndisturbed ==
    ASSUME RowsKeepUp, UNCHANGED <<dbExecutions, dbLogs>>,
           storeFailures' = 0 => storeFailures = 0,
           \A e \in Execs :
              \/ phase'[e] = phase[e] /\ result'[e] = result[e]
              \/ phase'[e] \notin {"ended", "flushed", "done"}
    PROVE  RowsKeepUp'
BY DEF RowsKeepUp

\* Inductive step for an execution of the daemon.
LEMMA RunStepKeepsUp ==
    ASSUME DaemonTypeOK, RowsKeepUp, NEW e \in Execs, DaemonRunStep(e)
    PROVE  RowsKeepUp'
<1> USE DEF DaemonTypeOK, TypeOK
<1>1. ASSUME ComputeStep(e) PROVE RowsKeepUp'
  <2>1. /\ phase'[e] \notin {"ended", "flushed", "done"}
        /\ \A f \in Execs \ {e} : phase'[f] = phase[f] /\ result'[f] = result[f]
        /\ UNCHANGED <<dbExecutions, dbLogs, storeFailures>>
    BY <1>1 DEF ComputeStep, Skip, Begin, Exit, RecordResult, dbVars
  <2> QED BY <2>1, KeepUpUndisturbed
<1>2. CASE PersistStart(e) /\ PersistExecution(e, "running")
  BY <1>2 DEF PersistStart, Advance, PersistExecution, StoreCall, RowsKeepUp
<1>3. CASE PersistEnd(e) /\ PersistExecution(e, result[e].state)
  BY <1>3 DEF PersistEnd, Advance, PersistExecution, StoreCall, RowsKeepUp
<1>4. CASE AppendStdout(e) /\ AppendLogChunk(e, "stdout")
  <2>1. /\ phase[e] = "ended" /\ phase' = [phase EXCEPT ![e] = "flushed"]
        /\ UNCHANGED <<result, dbExecutions>>
    BY <1>4 DEF AppendStdout, Advance, AppendLogChunk
  <2>2. /\ storeFailures' = 0 => storeFailures = 0
        /\ \A f \in Execs : dbLogs[f] \subseteq dbLogs'[f]
    BY <1>4 DEF AppendLogChunk, StoreCall
  <2>3. storeFailures' = 0 /\ "stdout" \in result[e].out =>
            \E c \in dbLogs'[e] : c[1] = "stdout"
    <3>1. ASSUME storeFailures' = 0, "stdout" \in result[e].out
          PROVE  <<"stdout", Sequence(e, "stdout")>> \in dbLogs'[e]
      BY <1>4, <3>1 DEF AppendLogChunk, StoreCall
    <3>2. <<"stdout", Sequence(e, "stdout")>>[1] = "stdout"
      OBVIOUS
    <3> QED BY <3>1, <3>2
  <2> QED BY <2>1, <2>2, <2>3 DEF RowsKeepUp, Streams
<1>5. CASE AppendStderr(e) /\ AppendLogChunk(e, "stderr")
  <2>1. /\ phase[e] = "flushed" /\ phase' = [phase EXCEPT ![e] = "done"]
        /\ UNCHANGED <<result, dbExecutions>>
    BY <1>5 DEF AppendStderr, AppendLogChunk
  <2>2. /\ storeFailures' = 0 => storeFailures = 0
        /\ \A f \in Execs : dbLogs[f] \subseteq dbLogs'[f]
    BY <1>5 DEF AppendLogChunk, StoreCall
  <2>3. storeFailures' = 0 /\ "stderr" \in result[e].out =>
            \E c \in dbLogs'[e] : c[1] = "stderr"
    <3>1. ASSUME storeFailures' = 0, "stderr" \in result[e].out
          PROVE  <<"stderr", Sequence(e, "stderr")>> \in dbLogs'[e]
      BY <1>5, <3>1 DEF AppendLogChunk, StoreCall
    <3>2. <<"stderr", Sequence(e, "stderr")>>[1] = "stderr"
      OBVIOUS
    <3> QED BY <3>1, <3>2
  <2> QED BY <2>1, <2>2, <2>3 DEF RowsKeepUp, Streams
<1> QED BY <1>1, <1>2, <1>3, <1>4, <1>5 DEF DaemonRunStep, StoreStep

\* Inductive step of RowsKeepUp.
LEMMA KeepUpInductive ==
    DaemonTypeOK /\ RowsKeepUp /\ [DaemonNext]_daemonVars => RowsKeepUp'
<1> SUFFICES ASSUME DaemonTypeOK, RowsKeepUp, [DaemonNext]_daemonVars
             PROVE  RowsKeepUp'
  OBVIOUS
<1> USE DEF dbVars, processVars, boundVars
<1>1. ASSUME UNCHANGED <<phase, dbExecutions, dbLogs, result, storeFailures>>
      PROVE  RowsKeepUp'
  BY <1>1, KeepUpUndisturbed
<1>2. ASSUME NEW h \in Handlers, NEW a \in Requests, PutAssignment(h, a)
      PROVE  RowsKeepUp'
  BY <1>1, <1>2 DEF PutAssignment, Add, runVars
<1>3. ASSUME NEW h \in Handlers, NEW id \in Ids, RemoveAssignment(h, id)
      PROVE  RowsKeepUp'
  BY <1>1, <1>3 DEF RemoveAssignment, Remove, runVars
<1>4. ASSUME NEW h \in Handlers, HandlerStep(h) PROVE RowsKeepUp'
  <2>1. storeFailures' = 0 => storeFailures = 0
    BY <1>4 DEF HandlerStep, SaveAssignment, DeleteAssignment, StoreCall,
                DaemonTypeOK
  <2> QED BY <1>4, <2>1, KeepUpUndisturbed
          DEF HandlerStep, SaveAssignment, DeleteAssignment, vars
<1>5. ASSUME NEW e \in Execs, NEW j \in cronTable, DaemonFire(e, j)
      PROVE  RowsKeepUp'
  BY <1>5, KeepUpUndisturbed DEF DaemonFire, Fire, DaemonTypeOK, TypeOK
<1>6. ASSUME NEW e \in Execs, DaemonRunStep(e) PROVE RowsKeepUp'
  BY <1>6, RunStepKeepsUp
<1>7. ASSUME Die PROVE RowsKeepUp'
  BY <1>7, KeepUpUndisturbed DEF Die
<1>8. ASSUME NEW a \in toRestore, Restore(a) PROVE RowsKeepUp'
  BY <1>1, <1>8 DEF Restore, Add, runVars
<1> QED BY <1>1, <1>2, <1>3, <1>4, <1>5, <1>6, <1>7, <1>8
        DEF DaemonNext, MainStep, Start, Serve, Stop, Shutdown, Signal,
            ServeFails, EndEarly, Crash, vars, daemonVars

\* An execution that came to its end has left its state and all of its output
\* in the store (scheduler.go:229-245), if no call of the store failed.
THEOREM FinishedIsCompleteHolds == DaemonSpec => []FinishedIsComplete
<1>1. DaemonInit => RowsKeepUp
  BY DEF DaemonInit, Init, RowsKeepUp
<1>2. DaemonTypeOK /\ RowsInv /\ RowsKeepUp => FinishedIsComplete
  <2> SUFFICES ASSUME DaemonTypeOK, RowsInv, RowsKeepUp, storeFailures = 0,
                      NEW e \in Execs, phase[e] = "done"
               PROVE  /\ dbExecutions[e] = result[e].state
                      /\ {c[1] : c \in dbLogs[e]} = result[e].out
    BY DEF FinishedIsComplete
  <2>1. result[e].out \subseteq Streams
    BY DEF DaemonTypeOK, TypeOK, Reported, Result
  <2> QED BY <2>1 DEF RowsKeepUp, RowsInv, RowsFollowExecutions
<1> QED BY <1>1, <1>2, KeepUpInductive, RowsInit, RowsInductive,
           DaemonTypeCorrect, PTL DEF DaemonSpec

-----------------------------------------------------------------------------
(* The store and the scheduler.                                            *)

\* Request h has changed the scheduler and is about to write the row of id.
InFlight(h, id) ==
    \/ handler[h].op = "save" /\ handler[h].assignment.id = id
    \/ handler[h] = Deleting(id)

\* Clients wait for the answer to a request about an assignment before they
\* send another about it, as a runner does.
RequestsTakeTurns ==
    \A id \in Ids, g, h \in Handlers :
        InFlight(g, id) /\ InFlight(h, id) => g = h

\* A daemon that is down has nothing in memory, and one that is not up yet
\* takes no requests.
MemoryIsOfProcess ==
    /\ listening => mode \in {"running", "stopping"}
    /\ \A h \in Handlers : handler[h] # Idle => mode \in {"running", "stopping"}
    /\ mode = "down" => \A id \in Ids : assignments[id] = None
    /\ mode # "restoring" => toRestore = {}

\* What is in the store, or on its way there, is under its own id, and Add
\* would take it.
StoredCanBeAdded ==
    /\ \A id \in Ids :
          dbAssignments[id] # None =>
              /\ dbAssignments[id].id = id
              /\ dbAssignments[id].cron \notin BadCrons
    /\ \A h \in Handlers :
          handler[h].op = "save" => handler[h].assignment.cron \notin BadCrons

\* While main restores, each row of the table is added or still to be added.
RestoringAddsRows ==
    /\ toRestore \subseteq Loaded
    /\ mode = "restoring" =>
          \A id \in Ids :
              /\ assignments[id] \in {None, dbAssignments[id]}
              /\ dbAssignments[id] # None /\ dbAssignments[id] \notin toRestore
                    => assignments[id] = dbAssignments[id]

\* A promise is in the store, and in the scheduler of a daemon that is up.
PromisesAreKept ==
    \A id \in Ids : promised[id] # Unknown =>
        /\ dbAssignments[id] = promised[id]
        /\ mode \in {"running", "stopping"} => assignments[id] = promised[id]

\* A request in flight will write what the scheduler has.
FlightIsCurrent(h) ==
    /\ handler[h].op = "save" =>
          LET a == handler[h].assignment IN
          promised[a.id] = Unknown /\ assignments[a.id] = a
    /\ handler[h].op = "delete" =>
          LET id == handler[h].id IN
          promised[id] = Unknown /\ assignments[id] = None

FlightsAreCurrent == \A h \in Handlers : FlightIsCurrent(h)

DurableInv ==
    /\ MemoryIsOfProcess
    /\ StoredCanBeAdded
    /\ RestoringAddsRows
    /\ PromisesAreKept
    /\ FlightsAreCurrent

\* What Add does to the assignments.
LEMMA AddEffect ==
    ASSUME NEW a, Add(a)
    PROVE  /\ Outdated(a) \/ Refused(a) => UNCHANGED assignments
           /\ ~Outdated(a) /\ ~Refused(a) =>
                 /\ a.cron \notin BadCrons
                 /\ assignments' = [assignments EXCEPT ![a.id] = a]
BY DEF Add, AddReturnsEarly, Install, Accepted, InstallDisabled,
       InstallEnabled, Outdated, Refused, schedVars

\* The variables the invariant is about.
durableVars == <<mode, listening, toRestore, handler, dbAssignments, promised,
                 assignments>>

\* Steps that leave tables, handlers and promises alone keep the invariant.
LEMMA DurableUndisturbed ==
    ASSUME DurableInv, UNCHANGED durableVars
    PROVE  DurableInv'
BY DEF DurableInv, MemoryIsOfProcess, StoredCanBeAdded, RestoringAddsRows,
       PromisesAreKept, FlightsAreCurrent, FlightIsCurrent, Loaded, durableVars

\* Executions leave them alone.
LEMMA RunStepsAreNotDurable ==
    ASSUME NEW e \in Execs,
           DaemonRunStep(e) \/ \E j \in cronTable : DaemonFire(e, j)
    PROVE  UNCHANGED durableVars
BY DEF DaemonRunStep, DaemonFire, Fire, ComputeStep, StoreStep, Skip, Begin,
       Exit, RecordResult, PersistStart, PersistEnd, PersistExecution,
       AppendStdout, AppendStderr, AppendLogChunk, Advance, schedVars, dbVars,
       processVars, durableVars

\* A request that is let in.
LEMMA PutDurable ==
    ASSUME DaemonTypeOK, DurableInv, NoOutdatedPut, RequestsTakeTurns',
           NEW h \in Handlers, NEW a \in Requests, PutAssignment(h, a)
    PROVE  DurableInv'
<1> USE DEF DaemonTypeOK
<1>1. /\ listening /\ handler[h] = Idle
      /\ UNCHANGED <<mode, listening, toRestore, dbAssignments>>
    BY DEF PutAssignment, processVars, dbVars
<1>2. CASE Refused(a) /\ UNCHANGED <<handler, promised>>
    BY <1>1, <1>2, AddEffect, DurableUndisturbed DEF PutAssignment, durableVars
<1>3. CASE /\ ~Refused(a)
           /\ handler' = [handler EXCEPT ![h] = Saving(a)]
           /\ promised' = [promised EXCEPT ![a.id] = Unknown]
    <2>1. handler'[h] = Saving(a) /\ Saving(a).op = "save"
            /\ Saving(a).assignment = a /\ a.id \in Ids
        BY <1>3, SchedulerAssumption DEF Saving, Assignment
    <2>2. ~Outdated(a)
        BY <1>1, <2>1 DEF NoOutdatedPut
    <2>3. /\ a.cron \notin BadCrons
          /\ assignments' = [assignments EXCEPT ![a.id] = a]
        BY <1>3, <2>2, AddEffect DEF PutAssignment
    <2>4. \A g \in Handlers \ {h} :
              ~InFlight(g, a.id) /\ handler'[g] = handler[g]
        <3>1. InFlight(h, a.id)'
            BY <2>1 DEF InFlight
        <3>2. \A g \in Handlers \ {h} : ~InFlight(g, a.id)'
            BY <2>1, <3>1 DEF RequestsTakeTurns
        <3> QED
            BY <1>3, <3>2 DEF InFlight
    <2>5. mode \in {"running", "stopping"}
        BY <1>1 DEF DurableInv, MemoryIsOfProcess
    <2>6. assignments'[a.id] = a /\ promised'[a.id] = Unknown
            /\ \A id \in Ids \ {a.id} : /\ assignments'[id] = assignments[id]
                                        /\ promised'[id] = promised[id]
        BY <1>3, <2>1, <2>3 DEF TypeOK
    <2>7. MemoryIsOfProcess'
        BY <1>1, <1>3, <2>5 DEF DurableInv, MemoryIsOfProcess
    <2>8. StoredCanBeAdded'
        BY <1>1, <2>1, <2>3, <2>4 DEF DurableInv, StoredCanBeAdded
    <2>9. RestoringAddsRows'
        BY <1>1, <2>5 DEF DurableInv, RestoringAddsRows, Loaded
    <2>10. PromisesAreKept'
        BY <1>1, <2>6 DEF DurableInv, PromisesAreKept
    <2>11. FlightsAreCurrent'
        <3> SUFFICES ASSUME NEW g \in Handlers \ {h}
                     PROVE  FlightIsCurrent(g)'
            BY <2>1, <2>6 DEF FlightsAreCurrent, FlightIsCurrent
        <3>1. handler[g].op = "save" => /\ handler[g].assignment.id \in Ids
                                        /\ handler[g].assignment.id # a.id
            BY <2>4, SchedulerAssumption
               DEF InFlight, HandlerState, Assignment, Idle
        <3>2. handler[g].op = "delete" => handler[g].id \in Ids \ {a.id}
            BY <2>4 DEF InFlight, HandlerState, Deleting, Idle
        <3> QED
            BY <2>4, <2>6, <3>1, <3>2
               DEF DurableInv, FlightsAreCurrent, FlightIsCurrent
    <2> QED
        BY <2>7, <2>8, <2>9, <2>10, <2>11 DEF DurableInv
<1> QED
    BY <1>2, <1>3 DEF PutAssignment

\* Remove drops the assignment whose row is about to be deleted.
LEMMA RemoveDurable ==
    ASSUME DaemonTypeOK, DurableInv, RequestsTakeTurns',
           NEW h \in Handlers, NEW id \in Ids, RemoveAssignment(h, id)
    PROVE  DurableInv'
<1> USE DEF DaemonTypeOK
<1>1. /\ listening /\ handler[h] = Idle
      /\ UNCHANGED <<mode, listening, toRestore, dbAssignments>>
      /\ handler' = [handler EXCEPT ![h] = Deleting(id)]
      /\ promised' = [promised EXCEPT ![id] = Unknown]
      /\ assignments' = [assignments EXCEPT ![id] = None]
    BY DEF RemoveAssignment, Remove, Uninstall, processVars, dbVars
<1>2. handler'[h] = Deleting(id) /\ Deleting(id).op = "delete"
        /\ Deleting(id).id = id
    BY <1>1 DEF Deleting
<1>3. \A g \in Handlers \ {h} : ~InFlight(g, id) /\ handler'[g] = handler[g]
    <2>1. InFlight(h, id)'
        BY <1>2 DEF InFlight
    <2>2. \A g \in Handlers \ {h} : ~InFlight(g, id)'
        BY <2>1 DEF RequestsTakeTurns
    <2> QED
        BY <1>1, <2>2 DEF InFlight
<1>4. mode \in {"running", "stopping"}
    BY <1>1 DEF DurableInv, MemoryIsOfProcess
<1>5. assignments'[id] = None /\ promised'[id] = Unknown
        /\ \A i \in Ids \ {id} : /\ assignments'[i] = assignments[i]
                                 /\ promised'[i] = promised[i]
    BY <1>1 DEF TypeOK
<1>6. MemoryIsOfProcess'
    BY <1>1, <1>4 DEF DurableInv, MemoryIsOfProcess
<1>7. StoredCanBeAdded'
    BY <1>1, <1>2, <1>3 DEF DurableInv, StoredCanBeAdded
<1>8. RestoringAddsRows'
    BY <1>1, <1>4 DEF DurableInv, RestoringAddsRows, Loaded
<1>9. PromisesAreKept'
    BY <1>1, <1>5 DEF DurableInv, PromisesAreKept
<1>10. FlightsAreCurrent'
    <2> SUFFICES ASSUME NEW g \in Handlers \ {h}
                 PROVE  FlightIsCurrent(g)'
        BY <1>2, <1>5 DEF FlightsAreCurrent, FlightIsCurrent
    <2>1. handler[g].op = "save" => /\ handler[g].assignment.id \in Ids
                                    /\ handler[g].assignment.id # id
        BY <1>3, SchedulerAssumption
           DEF InFlight, HandlerState, Assignment, Idle
    <2>2. handler[g].op = "delete" => handler[g].id \in Ids \ {id}
        BY <1>3 DEF InFlight, HandlerState, Deleting, Idle
    <2> QED
        BY <1>3, <1>5, <2>1, <2>2
           DEF DurableInv, FlightsAreCurrent, FlightIsCurrent
<1> QED
    BY <1>6, <1>7, <1>8, <1>9, <1>10 DEF DurableInv

\* The row of an assignment becomes what the scheduler has of it, or the store
\* fails and nothing is promised.
LEMMA WriteDurable ==
    ASSUME DaemonTypeOK, DurableInv, RequestsTakeTurns,
           NEW h \in Handlers, NEW id \in Ids, InFlight(h, id),
           NEW said \in Requests \cup {None}, said = assignments[id],
           said # None => said.id = id /\ said.cron \notin BadCrons,
           \/ /\ dbAssignments' = [dbAssignments EXCEPT ![id] = said]
              /\ Answer(h, id, said)
           \/ UNCHANGED dbAssignments /\ Answer(h, id, Unknown),
           handler' = [handler EXCEPT ![h] = Idle],
           UNCHANGED <<mode, listening, toRestore, assignments>>
    PROVE  DurableInv'
<1> USE DEF DaemonTypeOK
<1>1. \A g \in Handlers \ {h} : ~InFlight(g, id) /\ handler'[g] = handler[g]
    BY DEF RequestsTakeTurns
<1>2. handler'[h] = Idle /\ Idle.op = "idle"
    BY DEF Idle
<1>3. mode \in {"running", "stopping"} /\ toRestore = {}
    BY DEF InFlight, Deleting, Idle, DurableInv, MemoryIsOfProcess
<1>4. \/ dbAssignments'[id] = said /\ promised'[id] = said
      \/ dbAssignments'[id] = dbAssignments[id] /\ promised'[id] = Unknown
    <2>1. Pending(id, h) = {}
        BY <1>1 DEF Pending, InFlight
    <2> QED
        BY <2>1 DEF Answer
<1>5. \A i \in Ids \ {id} : /\ dbAssignments'[i] = dbAssignments[i]
                            /\ promised'[i] = promised[i]
    BY DEF Answer
<1>6. MemoryIsOfProcess'
    BY <1>3, <1>1, <1>2 DEF DurableInv, MemoryIsOfProcess
<1>7. StoredCanBeAdded'
    BY <1>1, <1>2, <1>4, <1>5 DEF DurableInv, StoredCanBeAdded
<1>8. RestoringAddsRows'
    BY <1>3 DEF RestoringAddsRows
<1>9. PromisesAreKept'
    BY <1>4, <1>5 DEF DurableInv, PromisesAreKept
<1>10. FlightsAreCurrent'
    <2> SUFFICES ASSUME NEW g \in Handlers \ {h}
                 PROVE  FlightIsCurrent(g)'
        BY <1>2 DEF FlightsAreCurrent, FlightIsCurrent
    <2>1. handler[g].op = "save" => handler[g].assignment.id \in Ids \ {id}
        BY <1>1, SchedulerAssumption
           DEF InFlight, HandlerState, Assignment, Idle
    <2>2. handler[g].op = "delete" => handler[g].id \in Ids \ {id}
        BY <1>1 DEF InFlight, HandlerState, Deleting, Idle
    <2> QED
        BY <1>1, <1>5, <2>1, <2>2
           DEF DurableInv, FlightsAreCurrent, FlightIsCurrent
<1> QED
    BY <1>6, <1>7, <1>8, <1>9, <1>10 DEF DurableInv

\* Every step of a request keeps the invariant, the store's part included.
LEMMA HandlerDurable ==
    ASSUME DaemonTypeOK, DurableInv, RequestsTakeTurns,
           NEW h \in Handlers, HandlerStep(h)
    PROVE  DurableInv'
<1> USE DEF DaemonTypeOK, processVars
<1>1. CASE SaveAssignment(h)
    <2> DEFINE a == handler[h].assignment
    <2>1. /\ a \in Requests /\ a.id \in Ids /\ handler[h].op = "save"
        BY <1>1, SchedulerAssumption
           DEF SaveAssignment, HandlerState, Assignment, Idle
    <2>2. InFlight(h, a.id)
        BY <2>1 DEF InFlight
    <2>3. a = assignments[a.id] /\ a.cron \notin BadCrons
        BY <2>1 DEF DurableInv, FlightsAreCurrent, FlightIsCurrent,
                    StoredCanBeAdded
    <2>4. \/ /\ dbAssignments' = [dbAssignments EXCEPT ![a.id] = a]
             /\ Answer(h, a.id, a)
          \/ UNCHANGED dbAssignments /\ Answer(h, a.id, Unknown)
        BY <1>1 DEF SaveAssignment, StoreCall
    <2>5. /\ handler' = [handler EXCEPT ![h] = Idle]
          /\ UNCHANGED <<mode, listening, toRestore, assignments>>
        BY <1>1 DEF SaveAssignment, vars
    <2> HIDE DEF a
    <2> QED
        BY <2>1, <2>2, <2>3, <2>4, <2>5, WriteDurable
<1>2. CASE DeleteAssignment(h)
    <2> DEFINE id == handler[h].id
    <2>1. id \in Ids /\ handler[h].op = "delete" /\ handler[h] = Deleting(id)
        BY <1>2 DEF DeleteAssignment, HandlerState, Deleting, Idle
    <2>2. InFlight(h, id) /\ None = assignments[id]
        BY <2>1 DEF InFlight, DurableInv, FlightsAreCurrent, FlightIsCurrent
    <2>3. \/ /\ dbAssignments' = [dbAssignments EXCEPT ![id] = None]
             /\ Answer(h, id, None)
          \/ UNCHANGED dbAssignments /\ Answer(h, id, Unknown)
        BY <1>2 DEF DeleteAssignment, StoreCall
    <2>4. /\ handler' = [handler EXCEPT ![h] = Idle]
          /\ UNCHANGED <<mode, listening, toRestore, assignments>>
        BY <1>2 DEF DeleteAssignment, vars
    <2> HIDE DEF id
    <2> QED
        BY <2>1, <2>2, <2>3, <2>4, WriteDurable
<1> QED
    BY <1>1, <1>2 DEF HandlerStep

\* One turn of the loop that restores.
LEMMA RestoreDurable ==
    ASSUME DaemonTypeOK, DurableInv, NEW a \in toRestore, Restore(a)
    PROVE  DurableInv'
<1> USE DEF DaemonTypeOK
<1>1. /\ mode = "restoring" /\ toRestore' = toRestore \ {a}
      /\ UNCHANGED <<mode, listening, handler, dbAssignments, promised>>
    BY DEF Restore, dbVars
<1>2. PICK id \in Ids : a = dbAssignments[id] /\ a # None
    BY DEF DurableInv, RestoringAddsRows, Loaded
<1>3. a.id = id /\ a.cron \notin BadCrons
    BY <1>2 DEF DurableInv, StoredCanBeAdded
<1>4. ~Refused(a) /\ (Outdated(a) => assignments[id] = a)
    BY <1>1, <1>2, <1>3
       DEF Refused, Outdated, DurableInv, RestoringAddsRows
<1>5. assignments'[id] = a
        /\ \A i \in Ids \ {id} : assignments'[i] = assignments[i]
    BY <1>3, <1>4, AddEffect DEF Restore, TypeOK
<1>6. MemoryIsOfProcess'
    BY <1>1 DEF DurableInv, MemoryIsOfProcess
<1>7. StoredCanBeAdded'
    BY <1>1 DEF DurableInv, StoredCanBeAdded
<1>8. RestoringAddsRows'
    <2>1. Loaded' = Loaded
        BY <1>1 DEF Loaded
    <2>2. \A i \in Ids \ {id} : dbAssignments[i] # None => dbAssignments[i] # a
        BY <1>2, <1>3 DEF DurableInv, StoredCanBeAdded
    <2> QED
        BY <1>1, <1>2, <1>5, <2>1, <2>2 DEF DurableInv, RestoringAddsRows
<1>9. PromisesAreKept'
    BY <1>1 DEF DurableInv, PromisesAreKept
<1>10. FlightsAreCurrent'
    BY <1>1 DEF DurableInv, MemoryIsOfProcess, FlightsAreCurrent,
                FlightIsCurrent, Idle
<1> QED
    BY <1>6, <1>7, <1>8, <1>9, <1>10 DEF DurableInv

\* The steps of the process.
LEMMA ProcessDurable ==
    ASSUME DaemonTypeOK, DurableInv,
           Start \/ Serve \/ Signal \/ ServeFails \/ Shutdown \/ Die
    PROVE  DurableInv'
<1> USE DEF DaemonTypeOK, dbVars, vars, DurableInv, MemoryIsOfProcess,
        StoredCanBeAdded, RestoringAddsRows, PromisesAreKept,
        FlightsAreCurrent, FlightIsCurrent, Loaded, Idle
<1>1. CASE Start
    BY <1>1 DEF Start
<1>2. CASE Serve
    <2>1. /\ mode = "restoring" /\ mode' = "running" /\ toRestore = {}
          /\ UNCHANGED <<toRestore, handler, dbAssignments, promised,
                         assignments>>
        BY <1>2 DEF Serve
    <2>2. \A id \in Ids : assignments[id] = dbAssignments[id]
        BY <2>1
    <2> QED
        BY <2>1, <2>2
<1>3. CASE Signal
    BY <1>3 DEF Signal
<1>4. CASE Shutdown
    BY <1>4 DEF Shutdown
<1>5. CASE Die
    BY <1>5 DEF Die
<1>6. CASE ServeFails
    BY <1>6 DEF ServeFails
<1> QED
    BY <1>1, <1>2, <1>3, <1>4, <1>5, <1>6

\* So does every step of the daemon, crashes and restarts included.
LEMMA DurableInductive ==
    ASSUME DaemonTypeOK, DurableInv, RequestsTakeTurns, RequestsTakeTurns',
           [DaemonNext /\ NoOutdatedPut]_daemonVars
    PROVE  DurableInv'
<1>1. CASE UNCHANGED daemonVars
    BY <1>1, DurableUndisturbed DEF daemonVars, vars, durableVars
<1>2. CASE DaemonNext /\ NoOutdatedPut
    <2>1. ASSUME NEW e \in Execs,
                 DaemonRunStep(e) \/ \E j \in cronTable : DaemonFire(e, j)
          PROVE  DurableInv'
        BY <2>1, RunStepsAreNotDurable, DurableUndisturbed
    <2>2. ASSUME MainStep PROVE DurableInv'
        BY <2>2, RestoreDurable, ProcessDurable DEF MainStep, Stop
    <2>3. ASSUME Shutdown \/ Signal \/ ServeFails \/ EndEarly \/ Crash
          PROVE  DurableInv'
        BY <2>3, ProcessDurable DEF Crash, EndEarly
    <2> QED
        BY <1>2, <2>1, <2>2, <2>3, PutDurable, RemoveDurable, HandlerDurable
           DEF DaemonNext
<1> QED
    BY <1>1, <1>2

\* It holds when nothing is stored and nothing runs.
LEMMA DurableInit == DaemonInit => DurableInv
BY DEF DaemonInit, Init, DurableInv, MemoryIsOfProcess, StoredCanBeAdded,
       RestoringAddsRows, PromisesAreKept, FlightsAreCurrent, FlightIsCurrent,
       Idle

\* It holds for ever with clients that wait for the answer about an id.
LEMMA DurableHolds ==
    FreshDaemonSpec /\ []RequestsTakeTurns => [](DaemonTypeOK /\ DurableInv)
<1>1. [DaemonNext /\ NoOutdatedPut]_daemonVars => [DaemonNext]_daemonVars
    OBVIOUS
<1>2. FreshDaemonSpec => []DaemonTypeOK
    BY <1>1, DaemonTypeCorrect, PTL DEF FreshDaemonSpec, DaemonSpec
<1>3. DaemonTypeOK /\ DurableInv /\ RequestsTakeTurns /\ RequestsTakeTurns'
        /\ [DaemonNext /\ NoOutdatedPut]_daemonVars => DurableInv'
    BY DurableInductive
<1> QED
    BY <1>2, <1>3, DurableInit, PTL DEF FreshDaemonSpec

\* With clients that repeat no generation and wait for the answers about an
\* assignment, any number of requests about different ones may be under way,
\* the store may fail and the process die at any moment: between requests the
\* store and the scheduler agree (internal/daemon/api/api.go:139-157, 170-182).
THEOREM StoreAgreesWhenQuietHolds ==
    FreshDaemonSpec /\ []RequestsTakeTurns => []StoreAgreesWhenQuiet
<1>1. DurableInv => StoreAgreesWhenQuiet
    BY DEF DurableInv, PromisesAreKept, StoreAgreesWhenQuiet
<1> QED
    BY <1>1, DurableHolds, PTL

\* What they were answered survives crashes and restarts, unless the store
\* failed them (cmd/monocrond/main.go:44-56).
THEOREM AnswersSurviveHolds ==
    FreshDaemonSpec /\ []RequestsTakeTurns => []AnswersSurvive
<1>1. DurableInv => AnswersSurvive
    BY DEF DurableInv, PromisesAreKept, AnswersSurvive
<1> QED
    BY <1>1, DurableHolds, PTL

\* The one step that starts a run starts what the table of the cron holds.
LEMMA OnlyFireSpawns ==
    ASSUME DaemonTypeOK, [DaemonNext]_daemonVars, NEW e \in Execs,
           phase[e] = "unborn", phase'[e] = "spawned"
    PROVE  \E j \in cronTable :
              mode \in {"restoring", "running"} /\ job'[e] = j
<1> USE DEF DaemonTypeOK, TypeOK
<1>1. ASSUME NEW f \in Execs, DaemonRunStep(f) PROVE phase'[e] # "spawned"
    BY <1>1, DaemonRunStepIsRunStep
       DEF RunStep, Skip, Begin, PersistStart, Exit, RecordResult,
           PersistEnd, AppendStdout, AppendStderr, Advance
<1>2. ASSUME NEW f \in Execs, NEW j \in cronTable, DaemonFire(f, j)
      PROVE  job'[e] = j /\ mode \in {"restoring", "running"}
    BY <1>2 DEF DaemonFire, Fire
<1>3. ASSUME Die PROVE phase'[e] # "spawned"
    BY <1>3 DEF Die
<1>4. ASSUME UNCHANGED phase PROVE FALSE
    BY <1>4
<1> QED
    BY <1>1, <1>2, <1>3, <1>4
       DEF DaemonNext, PutAssignment, RemoveAssignment, Add, Remove, HandlerStep,
           SaveAssignment, DeleteAssignment, MainStep, Start, Restore, Serve,
           Stop, Shutdown, Signal, ServeFails, EndEarly, Crash, runVars, vars,
           daemonVars

\* With the same clients the daemon starts, while it restores too, nothing but
\* what it last answered (cmd/monocrond/main.go:44-56).
THEOREM StartsAreAnsweredHolds ==
    FreshDaemonSpec /\ []RequestsTakeTurns => StartsAreAnswered
<1> DEFINE Answered(e) ==
      phase[e] = "unborn" /\ phase'[e] = "spawned" =>
          LET a == job'[e].run IN promised[a.id] \in {a, Unknown}
<1>1. ASSUME DaemonTypeOK, DurableInv, TableMatchesAssignments,
             [DaemonNext]_daemonVars, NEW e \in Execs
      PROVE  Answered(e)
    <2> SUFFICES ASSUME phase[e] = "unborn", phase'[e] = "spawned",
                        promised[job'[e].run.id] # Unknown
                 PROVE  promised[job'[e].run.id] = job'[e].run
        OBVIOUS
    <2>1. PICK j \in cronTable :
              mode \in {"restoring", "running"} /\ job'[e] = j
        BY <1>1, OnlyFireSpawns
    <2>2. PICK id \in Ids : /\ j.run = assignments[id]
                            /\ assignments[id] # None
                            /\ assignments[id].id = id
        BY <1>1 DEF TableMatchesAssignments, ScheduledIds
    <2>3. promised[id] = assignments[id]
        BY <1>1, <2>1, <2>2
           DEF DurableInv, PromisesAreKept, RestoringAddsRows
    <2> QED
        BY <2>1, <2>2, <2>3
<1>2. DaemonTypeOK /\ DurableInv /\ TableMatchesAssignments
        /\ [DaemonNext]_daemonVars => [\A e \in Execs : Answered(e)]_daemonVars
    BY <1>1
<1>3. [DaemonNext /\ NoOutdatedPut]_daemonVars => [DaemonNext]_daemonVars
    OBVIOUS
<1>4. FreshDaemonSpec => []TableMatchesAssignments
    BY <1>3, SchedulerInvHolds, PTL
       DEF FreshDaemonSpec, DaemonSpec, SchedulerInv
<1>5. FreshDaemonSpec => [][DaemonNext]_daemonVars
    BY <1>3, PTL DEF FreshDaemonSpec
<1> QED
    BY <1>2, <1>4, <1>5, DurableHolds, PTL DEF StartsAreAnswered
=============================================================================

-------------------------- MODULE SchedulerProofs --------------------------
(***************************************************************************)
(* What is proved of the scheduler for every set of assignments, requests  *)
(* and executions and every bound.  The argument is in README.md.          *)
(***************************************************************************)
EXTENDS Scheduler, SequenceTheorems, TLAPS

-----------------------------------------------------------------------------
(* Type correctness.                                                       *)

\* Trimming a history keeps it a sequence over the same records, no longer
\* than the limit (scheduler.go:188-191).
LEMMA TrimIsSeq ==
    ASSUME NEW S, NEW s \in Seq(S)
    PROVE  Trim(s) \in Seq(S) /\ Len(Trim(s)) <= MaxHistory
<1> USE SchedulerAssumption
<1>1. CASE Len(s) > MaxHistory
  <2> DEFINE m == Len(s) - MaxHistory + 1
  <2>1. Len(s) \in Nat /\ m \in 1 .. Len(s)
    BY <1>1
  <2>2. /\ SubSeq(s, m, Len(s)) \in Seq(S)
        /\ Len(SubSeq(s, m, Len(s))) = MaxHistory
    BY <2>1, SubSeqProperties
  <2> QED BY <1>1, <2>2 DEF Trim
<1>2. CASE ~(Len(s) > MaxHistory)
  BY <1>2 DEF Trim
<1> QED BY <1>1, <1>2

\* Writing the final state over a record keeps the history well formed and
\* as long as it was (scheduler.go:221-226).
LEMMA FinishedIsSeq ==
    ASSUME NEW s \in Seq(HistoryRecord), NEW e \in Execs,
           NEW state \in TerminalStates
    PROVE  /\ Finished(s, e, state) \in Seq(HistoryRecord)
           /\ Len(Finished(s, e, state)) = Len(s)
BY DEF Finished, HistoryRecord

\* Inductive step of TypeOK.
LEMMA TypeInductive ==
    TypeOK /\ [Next]_vars => TypeOK'
<1> USE SchedulerAssumption
<1> SUFFICES ASSUME TypeOK, [Next]_vars PROVE TypeOK'
  OBVIOUS
<1> USE DEF TypeOK, schedVars, runVars
<1>1. ASSUME NEW a \in Requests, Add(a) PROVE TypeOK'
  <2> a \in Assignment
    OBVIOUS
  <2>1. CASE AddReturnsEarly(a)
    BY <1>1, <2>1 DEF Add, AddReturnsEarly
  <2>2. CASE InstallDisabled(a)
    BY <1>1, <2>2 DEF Add, InstallDisabled, Unscheduled, Assignment
  <2>3. CASE InstallEnabled(a)
    BY <1>1, <2>3 DEF Add, InstallEnabled, Unscheduled, Assignment, Job
  <2> QED BY <1>1, <2>1, <2>2, <2>3 DEF Add, Install
<1>2. ASSUME NEW id \in Ids, Remove(id) PROVE TypeOK'
  BY <1>2 DEF Remove, Uninstall, Unscheduled
<1>3. ASSUME NEW e \in Execs, NEW j \in cronTable, Fire(e, j) PROVE TypeOK'
  BY <1>3 DEF Fire, Phases, Reported
<1>4. ASSUME NEW e \in Execs, RunStep(e) PROVE TypeOK'
  <2> USE DEF Phases, Reported
  <2>1. CASE Skip(e)
    BY <2>1 DEF Skip
  <2>2. CASE Begin(e)
    <3> DEFINE id == job[e].run.id
               rec == [exec |-> e, state |-> "running"]
    <3>1. job[e] \in Job /\ job[e].entry \in Nat /\ id \in Ids
      BY <2>2 DEF Begin, Job, Assignment
    <3>2. Append(history[id], rec) \in Seq(HistoryRecord)
      <4>1. history[id] \in Seq(HistoryRecord)
        BY <3>1
      <4>2. rec \in HistoryRecord
        BY DEF HistoryRecord
      <4> QED BY <4>1, <4>2, AppendProperties
    <3>3. Trim(Append(history[id], rec)) \in Seq(HistoryRecord)
      BY <3>2, TrimIsSeq
    <3> HIDE DEF id, rec
    <3>4. history' \in [Ids -> Seq(HistoryRecord)]
      BY <2>2, <3>1, <3>3 DEF Begin, id, rec
    <3> QED BY <2>2, <3>1, <3>4 DEF Begin
  <2>3. ASSUME NEW from, NEW to, Advance(e, from, to),
               <<from, to>> \in {<<"started", "running">>,
                   <<"recorded", "ended">>, <<"ended", "flushed">>}
        PROVE  TypeOK'
    BY <2>3 DEF Advance
  <2>4. ASSUME NEW r \in Results, Exit(e, r) PROVE TypeOK'
    BY <2>4 DEF Exit
  <2>5. CASE RecordResult(e)
    <3> DEFINE id == job[e].run.id
    <3>1. id \in Ids /\ result[e].state \in TerminalStates
      BY <2>5 DEF RecordResult, Job, Assignment, Result
    <3>2. Finished(history[id], e, result[e].state) \in Seq(HistoryRecord)
      BY <3>1, FinishedIsSeq
    <3> HIDE DEF id
    <3>3. history' \in [Ids -> Seq(HistoryRecord)]
      BY <2>5, <3>1, <3>2 DEF RecordResult, id
    <3> QED BY <2>5, <3>3 DEF RecordResult
  <2>6. CASE AppendStderr(e)
    BY <2>6 DEF AppendStderr
  <2> QED BY <1>4, <2>1, <2>2, <2>3, <2>4, <2>5, <2>6
          DEF RunStep, PersistStart, PersistEnd, AppendStdout
<1>5. CASE UNCHANGED vars
  BY <1>5 DEF vars
<1> QED BY <1>1, <1>2, <1>3, <1>4, <1>5 DEF Next

\* The initial state is well typed.
LEMMA InitTyped == Init => TypeOK
BY SchedulerAssumption DEF Init, TypeOK, Phases, Reported

\* Every variable keeps its type.
THEOREM TypeCorrect == Spec => []TypeOK
BY InitTyped, TypeInductive, PTL DEF Spec

-----------------------------------------------------------------------------
(* The cron table.                                                         *)

\* The steps of an execution leave the assignments and the table alone.
LEMMA RunStepKeepsSchedule ==
    ASSUME NEW e \in Execs, RunStep(e)
    PROVE  UNCHANGED schedVars
BY DEF RunStep, Skip, Begin, Advance, PersistStart, Exit, RecordResult,
       PersistEnd, AppendStdout, AppendStderr

\* Inductive step: Add and Remove keep the maps and the table in agreement.
LEMMA TableInductive ==
    TypeOK /\ TableMatchesAssignments /\ [Next]_vars => TableMatchesAssignments'
<1> SUFFICES ASSUME TypeOK, TableMatchesAssignments, [Next]_vars
             PROVE  TableMatchesAssignments'
  OBVIOUS
<1> USE SchedulerAssumption DEF TableMatchesAssignments, ScheduledIds
<1>1. ASSUME UNCHANGED schedVars PROVE TableMatchesAssignments'
  BY <1>1 DEF schedVars
<1>2. ASSUME NEW a \in Requests, InstallDisabled(a)
      PROVE  TableMatchesAssignments'
  <2>1. a \in Assignment /\ a # None /\ a.id \in Ids
    BY DEF Assignment
  <2>2. /\ assignments' = [assignments EXCEPT ![a.id] = a]
        /\ entries' = [entries EXCEPT ![a.id] = 0]
        /\ cronTable' = {j \in cronTable : j.entry # entries[a.id]}
        /\ lastEntry' = lastEntry
        /\ ~a.enabled
    BY <1>2 DEF InstallDisabled, Unscheduled
  <2>3. cronTable' = {[entry |-> entries'[id], run |-> assignments'[id]] :
                          id \in {i \in Ids : entries'[i] # 0}}
    BY <2>1, <2>2 DEF TypeOK
  <2> QED BY <2>1, <2>2, <2>3 DEF TypeOK
<1>3. ASSUME NEW a \in Requests, InstallEnabled(a)
      PROVE  TableMatchesAssignments'
  <2>1. a \in Assignment /\ a # None /\ a.id \in Ids
    BY DEF Assignment
  <2>2. /\ assignments' = [assignments EXCEPT ![a.id] = a]
        /\ entries' = [entries EXCEPT ![a.id] = lastEntry + 1]
        /\ cronTable' = {j \in cronTable : j.entry # entries[a.id]}
                            \cup {[entry |-> lastEntry + 1, run |-> a]}
        /\ lastEntry' = lastEntry + 1
        /\ a.enabled
    BY <1>3 DEF InstallEnabled, Unscheduled
  <2>3. cronTable' = {[entry |-> entries'[id], run |-> assignments'[id]] :
                          id \in {i \in Ids : entries'[i] # 0}}
    BY <2>1, <2>2 DEF TypeOK
  <2> QED BY <2>1, <2>2, <2>3 DEF TypeOK
<1>4. ASSUME NEW i \in Ids, Uninstall(i) PROVE TableMatchesAssignments'
  <2>1. /\ assignments' = [assignments EXCEPT ![i] = None]
        /\ entries' = [entries EXCEPT ![i] = 0]
        /\ cronTable' = {j \in cronTable : j.entry # entries[i]}
        /\ lastEntry' = lastEntry
    BY <1>4 DEF Uninstall, Unscheduled
  <2>2. cronTable' = {[entry |-> entries'[id], run |-> assignments'[id]] :
                          id \in {k \in Ids : entries'[k] # 0}}
    BY <2>1 DEF TypeOK
  <2> QED BY <2>1, <2>2 DEF TypeOK
<1>5. ASSUME NEW e \in Execs, NEW j \in cronTable, Fire(e, j)
      PROVE  TableMatchesAssignments'
  BY <1>1, <1>5 DEF Fire, schedVars
<1>6. ASSUME NEW e \in Execs, RunStep(e) PROVE TableMatchesAssignments'
  BY <1>1, <1>6, RunStepKeepsSchedule
<1> QED BY <1>1, <1>2, <1>3, <1>4, <1>5, <1>6
        DEF Next, Add, AddReturnsEarly, Install, Remove, vars, schedVars

\* The maps of the scheduler and the cron table agree, whatever is added and
\* removed, in whatever order (scheduler.go:92-140).
THEOREM TableCorrect == Spec => []TableMatchesAssignments
<1>1. Init => TableMatchesAssignments
  BY DEF Init, TableMatchesAssignments, ScheduledIds
<1> QED BY <1>1, TypeCorrect, TableInductive, PTL DEF Spec

-----------------------------------------------------------------------------
(* The promise of CronService.                                             *)

\* The scheduler starts as the service does.
LEMMA ServiceInit == Init => Service!Init
BY DEF Init, Service!Init, LiveRuns, StartedRuns, Active

\* Add puts an assignment into the table only if its generation is new.
LEMMA InstallIsPut ==
    ASSUME TypeOK, NEW a \in Requests, Install(a), UNCHANGED runVars
    PROVE  Service!Put(a)
<1>1. a \in Assignment /\ a.id \in Ids /\ a.generation \in Nat
  BY SchedulerAssumption DEF Assignment
<1>2. assignments' = [assignments EXCEPT ![a.id] = a]
  BY DEF Install, InstallEnabled, InstallDisabled
<1>3. assignments[a.id] # None => assignments[a.id].generation < a.generation
  BY <1>1 DEF Install, Accepted, Outdated, TypeOK, Assignment
<1> QED BY <1>2, <1>3 DEF Service!Put, LiveRuns, StartedRuns, runVars

\* What is due in the cron table is in the table of the service, and enabled.
LEMMA FireIsStart ==
    ASSUME TypeOK, TableMatchesAssignments, NEW e \in Execs,
           NEW j \in cronTable, Fire(e, j)
    PROVE  \E id \in Ids : Service!Start(e, id)
<1>1. PICK id \in ScheduledIds :
         j = [entry |-> entries[id], run |-> assignments[id]]
  BY DEF TableMatchesAssignments
<1>2. /\ id \in Ids /\ assignments[id] # None /\ assignments[id].enabled
      /\ j.run = assignments[id]
  BY <1>1 DEF TableMatchesAssignments, ScheduledIds
<1>3. /\ phase[e] = "unborn" /\ phase' = [phase EXCEPT ![e] = "spawned"]
      /\ job' = [job EXCEPT ![e] = j] /\ assignments' = assignments
  BY DEF Fire, schedVars
<1>4. /\ e \notin StartedRuns /\ StartedRuns' = StartedRuns \cup {e}
  BY <1>3 DEF StartedRuns, TypeOK
<1>5. {x \in Execs : phase'[x] \in Active \cup {"spawned"}}
         = {x \in Execs : phase[x] \in Active \cup {"spawned"}} \cup {e}
  BY <1>3 DEF Active, TypeOK
<1>6. /\ job'[e].run = assignments[id]
      /\ \A x \in Execs : x # e => job'[x] = job[x]
      /\ ~(phase[e] \in Active \cup {"spawned"})
  BY <1>2, <1>3 DEF Active, TypeOK
<1>7. LiveRuns' = LiveRuns \cup {[exec |-> e, version |-> assignments[id]]}
  BY <1>5, <1>6 DEF LiveRuns
<1> QED BY <1>2, <1>3, <1>4, <1>7 DEF Service!Start

\* A step of a run leaves the service as it is, or finishes a run.
LEMMA RunStepIsFinish ==
    ASSUME TypeOK, NEW e \in Execs, RunStep(e)
    PROVE  \/ UNCHANGED Service!vars
           \/ \E run \in LiveRuns : Service!Finish(run)
<1> DEFINE Live == {x \in Execs : phase[x] \in Active \cup {"spawned"}}
<1>1. UNCHANGED assignments
  BY RunStepKeepsSchedule DEF schedVars
<1>2. /\ job' = job /\ e \in Live
      /\ \E to \in Phases \ {"unborn"} : phase' = [phase EXCEPT ![e] = to]
  BY DEF RunStep, Skip, Begin, Advance, PersistStart, Exit, RecordResult,
         PersistEnd, AppendStdout, AppendStderr, Active, Phases
<1>3. StartedRuns' = StartedRuns
  BY <1>2 DEF StartedRuns, Active, TypeOK
<1>4. CASE phase'[e] \in Active \cup {"spawned"}
  <2>1. Live' = Live
    BY <1>2, <1>4 DEF TypeOK
  <2> QED BY <2>1, <1>1, <1>2, <1>3 DEF LiveRuns, Service!vars
<1>5. CASE phase'[e] \notin Active \cup {"spawned"}
  <2> DEFINE run == [exec |-> e, version |-> job[e].run]
  <2>1. Live' = Live \ {e}
    BY <1>2, <1>5 DEF TypeOK
  <2>2. LiveRuns' = LiveRuns \ {run}
    BY <2>1, <1>2 DEF LiveRuns
  <2>3. run \in LiveRuns
    BY <1>2 DEF LiveRuns
  <2> QED BY <2>2, <2>3, <1>1, <1>3 DEF Service!Finish
<1> QED BY <1>4, <1>5

\* A step of the scheduler is one of the service, or changes nothing of it.
LEMMA StepImplements ==
    TypeOK /\ TableMatchesAssignments /\ [Next]_vars
        => [Service!Next]_(Service!vars)
<1> SUFFICES ASSUME TypeOK, TableMatchesAssignments, [Next]_vars
             PROVE  [Service!Next]_(Service!vars)
  OBVIOUS
<1>1. CASE UNCHANGED <<assignments, phase, job>>
  BY <1>1 DEF Service!vars, LiveRuns, StartedRuns
<1>2. ASSUME NEW a \in Requests, Add(a) PROVE [Service!Next]_(Service!vars)
  BY <1>1, <1>2, InstallIsPut
     DEF Add, AddReturnsEarly, schedVars, runVars, Service!Next
<1>3. ASSUME NEW id \in Ids, Remove(id) PROVE Service!Drop(id)
  BY <1>3 DEF Remove, Uninstall, runVars, Service!Drop, LiveRuns, StartedRuns
<1>4. ASSUME NEW e \in Execs, NEW j \in cronTable, Fire(e, j)
      PROVE  Service!Next
  BY <1>4, FireIsStart DEF Service!Next
<1>5. ASSUME NEW e \in Execs, RunStep(e)
      PROVE  [Service!Next]_(Service!vars)
  BY <1>5, RunStepIsFinish DEF Service!Next
<1> QED BY <1>1, <1>2, <1>3, <1>4, <1>5 DEF Next, vars, Service!Next

\* The scheduler implements CronService: what the cron library starts is what
\* the scheduler holds at that moment, and generations do not regress
\* (scheduler.go:92-140).
THEOREM ServiceImplemented == Spec => ImplementsService
BY ServiceInit, StepImplements, TypeCorrect, TableCorrect, PTL
   DEF Spec, ImplementsService, Service!Spec

-----------------------------------------------------------------------------
(* Executions.                                                             *)

\* Inductive step of OneRunPerEntry.
LEMMA OneRunInductive ==
    TypeOK /\ OneRunPerEntry /\ [Next]_vars => OneRunPerEntry'
<1> SUFFICES ASSUME TypeOK, OneRunPerEntry, [Next]_vars
             PROVE  OneRunPerEntry'
  OBVIOUS
<1> USE DEF TypeOK, OneRunPerEntry, Active
<1>1. CASE UNCHANGED <<busy, phase, job>>
  BY <1>1
<1>2. ASSUME NEW e \in Execs, NEW j \in cronTable, Fire(e, j)
      PROVE  OneRunPerEntry'
  BY <1>2 DEF Fire
<1>3. ASSUME NEW e \in Execs, Skip(e) PROVE OneRunPerEntry'
  BY <1>3 DEF Skip
<1>4. ASSUME NEW e \in Execs, Begin(e) PROVE OneRunPerEntry'
  BY <1>4 DEF Begin
<1>5. ASSUME NEW e \in Execs, NEW from \in Active, NEW to \in Active,
             phase[e] = from, phase' = [phase EXCEPT ![e] = to],
             busy' = busy, job' = job
      PROVE  OneRunPerEntry'
  BY <1>5
<1>6. ASSUME NEW e \in Execs, AppendStderr(e) PROVE OneRunPerEntry'
  BY <1>6 DEF AppendStderr
<1>7. ASSUME NEW e \in Execs, RunStep(e) PROVE OneRunPerEntry'
  BY <1>3, <1>4, <1>5, <1>6, <1>7
     DEF RunStep, Advance, PersistStart, Exit, RecordResult, PersistEnd,
         AppendStdout
<1> QED BY <1>1, <1>2, <1>7 DEF Next, Add, Remove, runVars, vars

\* The runs of an entry never overlap and its token is never lost
\* (scheduler.go:70-73, 176-248).
THEOREM OneRunPerEntryHolds == Spec => []OneRunPerEntry
<1>1. Init => OneRunPerEntry
  BY DEF Init, OneRunPerEntry, Active
<1> QED BY <1>1, OneRunInductive, TypeCorrect, PTL DEF Spec

-----------------------------------------------------------------------------
(* The history.                                                            *)

\* A trimmed history is the end of the history it was cut from.
LEMMA TrimIsSuffix ==
    ASSUME NEW S, NEW s \in Seq(S)
    PROVE  \E d \in Nat : \A i \in 1 .. Len(Trim(s)) :
              i + d \in 1 .. Len(s) /\ Trim(s)[i] = s[i + d]
<1> USE SchedulerAssumption
<1>1. CASE Len(s) > MaxHistory
  <2> DEFINE d == Len(s) - MaxHistory
  <2>1. Len(s) \in Nat /\ d \in Nat /\ d + 1 \in Int
    BY <1>1
  <2>2. Trim(s) = SubSeq(s, d + 1, Len(s))
    BY <1>1, <2>1 DEF Trim
  <2>3. /\ Len(Trim(s)) = MaxHistory
        /\ \A i \in 1 .. MaxHistory : Trim(s)[i] = s[(d + 1) + i - 1]
    <3>1. \A i \in (d + 1) .. Len(s) : s[i] \in S
      BY <2>1
    <3> QED BY <2>1, <2>2, <3>1, SubSeqProperties
  <2>4. \A i \in 1 .. MaxHistory :
           i + d \in 1 .. Len(s) /\ (d + 1) + i - 1 = i + d
    BY <2>1
  <2>5. \A i \in 1 .. Len(Trim(s)) :
           i + d \in 1 .. Len(s) /\ Trim(s)[i] = s[i + d]
    BY <2>3, <2>4
  <2> QED BY <2>1, <2>5
<1>2. CASE ~(Len(s) > MaxHistory)
  <2>1. Trim(s) = s
    BY <1>2 DEF Trim
  <2>2. \A i \in 1 .. Len(Trim(s)) :
           i + 0 \in 1 .. Len(s) /\ Trim(s)[i] = s[i + 0]
    BY <2>1
  <2> QED BY <2>2
<1> QED BY <1>1, <1>2

\* Inductive step of HistoryTracksRuns for the run that appends its record.
LEMMA BeginTracks ==
    ASSUME TypeOK, HistoryTracksRuns, NEW e \in Execs, Begin(e)
    PROVE  HistoryTracksRuns'
<1> USE SchedulerAssumption
<1> DEFINE id == job[e].run.id
           rec == [exec |-> e, state |-> "running"]
           s == history[id]
           t == Append(s, rec)
           TracksNow(h, i) ==
             /\ phase'[h.exec] \in Active \cup {"done"}
             /\ job'[h.exec].run.id = i
             /\ h.state = "running" <=> phase'[h.exec] \in Unrecorded
             /\ h.state # "running" => h.state = result'[h.exec].state
           HistoryOK(q, i) ==
             /\ Len(q) <= MaxHistory
             /\ \A k \in 1 .. Len(q) : TracksNow(q[k], i)
             /\ \A k, l \in 1 .. Len(q) : q[k].exec = q[l].exec => k = l
<1>1. job[e] \in Job /\ id \in Ids
  BY DEF Begin, TypeOK, Job, Assignment
<1>2. s \in Seq(HistoryRecord) /\ rec \in HistoryRecord
  BY <1>1 DEF TypeOK, HistoryRecord
<1>3. /\ t \in Seq(HistoryRecord)
      /\ Len(t) = Len(s) + 1
      /\ \A i \in 1 .. Len(s) : t[i] = s[i]
      /\ t[Len(s) + 1] = rec
  <2> HIDE DEF s, rec
  <2> QED BY <1>2, AppendProperties
<1>4. ASSUME NEW i \in Ids, NEW k \in 1 .. Len(history[i])
      PROVE  history[i][k].exec # e /\ TracksNow(history[i][k], i)
  <2>1. history[i][k] \in HistoryRecord /\ TracksRun(history[i][k], i)
    BY DEF TypeOK, HistoryTracksRuns
  <2>2. history[i][k].exec # e /\ history[i][k].exec \in Execs
    BY <2>1 DEF TracksRun, Begin, Active, HistoryRecord
  <2> QED BY <2>1, <2>2 DEF TracksRun, Begin, TypeOK
<1>5. TracksNow(rec, id)
  BY <1>1 DEF Begin, TypeOK, Active, Unrecorded
<1>6. history' = [history EXCEPT ![id] = Trim(t)]
  BY DEF Begin
<1>7. \A k, l \in 1 .. Len(s) : s[k].exec = s[l].exec => k = l
  BY <1>1 DEF HistoryTracksRuns
<1>8. \A k \in 1 .. Len(s) : s[k].exec # e /\ TracksNow(s[k], id)
  BY <1>1, <1>4
<1>9. rec.exec = e
  OBVIOUS
<1>10. ASSUME NEW i \in Ids, i # id PROVE HistoryOK(history'[i], i)
  <2>1. history'[i] = history[i]
    BY <1>1, <1>6, <1>10 DEF TypeOK
  <2> HIDE DEF TracksNow, id
  <2> QED BY <2>1, <1>4 DEF HistoryTracksRuns
<1> HIDE DEF id, rec, s, t, TracksNow
<1>11. HistoryOK(Trim(t), id)
  <2>1. PICK d \in Nat : \A i \in 1 .. Len(Trim(t)) :
           i + d \in 1 .. Len(t) /\ Trim(t)[i] = t[i + d]
    BY <1>3, TrimIsSuffix
  <2>2. Trim(t) \in Seq(HistoryRecord) /\ Len(Trim(t)) <= MaxHistory
    BY <1>3, TrimIsSeq
  <2>3. \A k \in 1 .. Len(t) : TracksNow(t[k], id)
    BY <1>2, <1>3, <1>5, <1>8
  <2>4. \A k, l \in 1 .. Len(t) : t[k].exec = t[l].exec => k = l
    BY <1>2, <1>3, <1>7, <1>8, <1>9
  <2>5. \A k \in 1 .. Len(Trim(t)) : TracksNow(Trim(t)[k], id)
    BY <2>1, <2>3
  <2>6. \A k, l \in 1 .. Len(Trim(t)) :
           Trim(t)[k].exec = Trim(t)[l].exec => k = l
    <3> SUFFICES ASSUME NEW k \in 1 .. Len(Trim(t)),
                        NEW l \in 1 .. Len(Trim(t)),
                        Trim(t)[k].exec = Trim(t)[l].exec
                 PROVE  k = l
      OBVIOUS
    <3>1. k + d = l + d
      BY <2>1, <2>4
    <3> QED BY <2>2, <3>1
  <2> QED BY <2>2, <2>5, <2>6
<1>12. history'[id] = Trim(t)
  BY <1>1, <1>6 DEF TypeOK
<1>13. \A i \in Ids : HistoryOK(history'[i], i)
  BY <1>10, <1>11, <1>12
<1> QED BY <1>13 DEF HistoryTracksRuns, TracksRun, TracksNow

\* Inductive step of HistoryTracksRuns for the run that reports its result.
LEMMA RecordResultTracks ==
    ASSUME TypeOK, HistoryTracksRuns, NEW e \in Execs, RecordResult(e)
    PROVE  HistoryTracksRuns'
<1> DEFINE id == job[e].run.id
           f == Finished(history[id], e, result[e].state)
<1>1. id \in Ids /\ result[e].state \in TerminalStates
  BY DEF RecordResult, TypeOK, Job, Assignment, Result, Reported
<1>2. "running" \notin TerminalStates
  BY DEF TerminalStates
<1>3. /\ history' = [history EXCEPT ![id] = f]
      /\ phase' = [phase EXCEPT ![e] = "recorded"]
      /\ job' = job /\ result' = result /\ phase[e] = "exited"
  BY DEF RecordResult
<1>4. ASSUME NEW i \in Ids, NEW k \in 1 .. Len(history[i])
      PROVE  /\ history[i][k] \in HistoryRecord
             /\ history[i][k].exec \in Execs
             /\ TracksRun(history[i][k], i)
  <2>1. history[i][k] \in HistoryRecord
    BY DEF TypeOK
  <2> QED BY <2>1 DEF HistoryTracksRuns, HistoryRecord
<1>5. /\ Len(f) = Len(history[id])
      /\ \A k \in 1 .. Len(history[id]) :
            /\ f[k].exec = history[id][k].exec
            /\ f[k].exec = e => f[k].state = result[e].state
            /\ f[k].exec # e => f[k] = history[id][k]
  <2>1. history[id] \in Seq(HistoryRecord)
    BY <1>1 DEF TypeOK
  <2> HIDE DEF id
  <2>2. Len(f) = Len(history[id])
    BY <1>1, <2>1, FinishedIsSeq
  <2>3. \A k \in 1 .. Len(history[id]) :
           f[k] = IF history[id][k].exec = e
                    THEN [exec |-> e, state |-> result[e].state]
                    ELSE history[id][k]
    BY <2>1 DEF Finished
  <2> QED BY <2>2, <2>3
<1>6. history'[id] = f /\ \A i \in Ids : i # id => history'[i] = history[i]
  BY <1>1, <1>3 DEF TypeOK
<1> HIDE DEF f
<1>7. ASSUME NEW i \in Ids
      PROVE  /\ Len(history'[i]) = Len(history[i])
             /\ \A k \in 1 .. Len(history[i]) :
                   history'[i][k].exec = history[i][k].exec
  <2>1. CASE i = id
    BY <2>1, <1>5, <1>6
  <2>2. CASE i # id
    BY <2>2, <1>6
  <2> QED BY <2>1, <2>2
<1>8. ASSUME NEW i \in Ids, NEW k \in 1 .. Len(history[i])
      PROVE  /\ phase'[history'[i][k].exec] \in Active \cup {"done"}
             /\ job'[history'[i][k].exec].run.id = i
             /\ history'[i][k].state = "running"
                   <=> phase'[history'[i][k].exec] \in Unrecorded
             /\ history'[i][k].state # "running" =>
                   history'[i][k].state = result'[history'[i][k].exec].state
  <2>1. CASE history[i][k].exec = e
    <3>1. i = id
      BY <2>1, <1>4 DEF TracksRun
    <3>2. history'[i][k].exec = e /\ history'[i][k].state = result[e].state
      BY <2>1, <3>1, <1>5, <1>6
    <3>3. phase'[e] = "recorded"
      BY <1>3 DEF TypeOK
    <3> QED BY <3>1, <3>2, <3>3, <1>1, <1>2, <1>3 DEF Active, Unrecorded
  <2>2. CASE history[i][k].exec # e
    <3>1. history'[i][k] = history[i][k]
      BY <2>2, <1>5, <1>6
    <3>2. phase'[history[i][k].exec] = phase[history[i][k].exec]
      BY <2>2, <1>3, <1>4 DEF TypeOK
    <3> QED BY <3>1, <3>2, <1>3, <1>4 DEF TracksRun
  <2> QED BY <2>1, <2>2
<1>9. \A i \in Ids : \A k, l \in 1 .. Len(history[i]) :
         history'[i][k].exec = history'[i][l].exec => k = l
  BY <1>7 DEF HistoryTracksRuns
<1>10. \A i \in Ids : Len(history'[i]) <= MaxHistory
  BY <1>7 DEF HistoryTracksRuns
<1> QED BY <1>7, <1>8, <1>9, <1>10 DEF HistoryTracksRuns, TracksRun

\* Inductive step of HistoryTracksRuns.
LEMMA HistoryInductive ==
    TypeOK /\ HistoryTracksRuns /\ [Next]_vars => HistoryTracksRuns'
<1> SUFFICES ASSUME TypeOK, HistoryTracksRuns, [Next]_vars
             PROVE  HistoryTracksRuns'
  OBVIOUS
<1>1. ASSUME NEW i \in Ids, NEW k \in 1 .. Len(history[i])
      PROVE  /\ history[i][k].exec \in Execs
             /\ history[i][k].state # "running" =>
                   history[i][k].state \in TerminalStates
             /\ TracksRun(history[i][k], i)
  <2>1. history[i][k] \in HistoryRecord
    BY DEF TypeOK
  <2> QED BY <2>1 DEF HistoryTracksRuns, HistoryRecord
<1>2. ASSUME history' = history,
             \A i \in Ids : \A k \in 1 .. Len(history[i]) :
                TracksRun(history[i][k], i)'
      PROVE  HistoryTracksRuns'
  BY <1>2 DEF HistoryTracksRuns
<1>3. ASSUME UNCHANGED <<phase, job, result, history>>
      PROVE  HistoryTracksRuns'
  BY <1>3 DEF HistoryTracksRuns, TracksRun
<1>4. ASSUME NEW e \in Execs, phase[e] \in {"unborn", "spawned"},
             NEW to, phase' = [phase EXCEPT ![e] = to],
             NEW j, job' = [job EXCEPT ![e] = j],
             UNCHANGED <<result, history>>
      PROVE  HistoryTracksRuns'
  <2>1. \A i \in Ids : \A k \in 1 .. Len(history[i]) : history[i][k].exec # e
    BY <1>1, <1>4 DEF TracksRun, Active
  <2> QED BY <1>1, <1>2, <1>4, <2>1 DEF TracksRun, TypeOK
<1>5. ASSUME NEW e \in Execs, phase[e] \in Active, NEW to,
             to \in Active \cup {"done"},
             phase[e] \in Unrecorded <=> to \in Unrecorded,
             phase' = [phase EXCEPT ![e] = to],
             UNCHANGED <<job, history>>,
             \/ UNCHANGED result
             \/ /\ phase[e] \in Unrecorded
                /\ \A f \in Execs : f # e => result'[f] = result[f]
      PROVE  HistoryTracksRuns'
  BY <1>1, <1>2, <1>5 DEF TracksRun, TypeOK
<1>6. ASSUME NEW e \in Execs, NEW j \in cronTable, Fire(e, j)
      PROVE  HistoryTracksRuns'
  BY <1>4, <1>6 DEF Fire
<1>7. ASSUME NEW e \in Execs, RunStep(e) PROVE HistoryTracksRuns'
  <2> USE DEF Active, Unrecorded
  <2>1. CASE Skip(e)
    <3>1. job' = [job EXCEPT ![e] = job[e]]
      BY <2>1 DEF Skip, TypeOK
    <3> QED BY <1>4, <2>1, <3>1 DEF Skip
  <2>2. CASE Begin(e)
    BY <2>2, BeginTracks
  <2>3. ASSUME NEW from, NEW to, Advance(e, from, to),
               <<from, to>> \in {<<"started", "running">>,
                   <<"recorded", "ended">>, <<"ended", "flushed">>}
        PROVE  HistoryTracksRuns'
    BY <1>5, <2>3 DEF Advance
  <2>4. ASSUME NEW r \in Results, Exit(e, r) PROVE HistoryTracksRuns'
    BY <1>5, <2>4 DEF Exit, TypeOK
  <2>5. CASE RecordResult(e)
    BY <2>5, RecordResultTracks
  <2>6. CASE AppendStderr(e)
    BY <1>5, <2>6 DEF AppendStderr
  <2> QED BY <1>7, <2>1, <2>2, <2>3, <2>4, <2>5, <2>6
          DEF RunStep, PersistStart, PersistEnd, AppendStdout
<1> QED BY <1>3, <1>6, <1>7 DEF Next, Add, Remove, runVars, vars

\* The history of an id holds its last executions, each once, and a record
\* stays "running" no longer than its execution (scheduler.go:187-192, 220-227).
THEOREM HistoryTracksRunsHolds == Spec => []HistoryTracksRuns
<1>1. Init => HistoryTracksRuns
  BY SchedulerAssumption DEF Init, HistoryTracksRuns
<1> QED BY <1>1, HistoryInductive, TypeCorrect, PTL DEF Spec
=============================================================================

--------------------------- MODULE ReconcileProofs ---------------------------
(***************************************************************************)
(* What is proved of the controller, the poll loops and the daemons for    *)
(* any number of schedules, runners, requests, failures and restarts.      *)
(*                                                                         *)
(* Types need that whatever is in a batch has a row.  What is said of the  *)
(* order of generations is true only while the clock is steady             *)
(* (SteadyReconcileSpec) and placements take turns: with two at once the   *)
(* later reading of the clock may be written first (MCReconcileRace).      *)
(* Under these hypotheses, TurnsInv says that the rows a placement has yet *)
(* to write come after all that their runners have seen, and SettledInv    *)
(* that a row is "applied" only when the daemon has stored its generation, *)
(* and runs it unless its expression is refused, or the poll loop is still *)
(* at work on the row.                                                     *)
(*                                                                         *)
(* The steps are first reduced to what they do to rows, placements,        *)
(* cursors, batches and daemons (ControllerEffect, LoopEffect), and the    *)
(* invariants are proved of these effects.                                 *)
(***************************************************************************)
EXTENDS Reconcile, TLAPS, WellFoundedInduction

-----------------------------------------------------------------------------
(* The least element of a batch.                                           *)

\* A nonempty set of natural numbers has a least element.
LEMMA LeastNat ==
    ASSUME NEW S \in SUBSET Nat, S # {}
    PROVE  \E n \in S : \A m \in S : n <= m
<1>1. \E n \in S : \A m \in S : <<m, n>> \notin OpToRel(<, Nat)
  BY NatLessThanWellFounded, WFMin
<1>2. \A m, n \in Nat : <<m, n>> \notin OpToRel(<, Nat) => n <= m
  BY DEF OpToRel
<1> QED BY <1>1, <1>2

\* First is one of the batch, and none of the batch is before it.
LEMMA FirstIsLeast ==
    ASSUME ReconcileTypeOK, NEW r \in Runners, batch[r] # {}
    PROVE  /\ First(r) \in batch[r]
           /\ First(r).schedule \in Schedules
           /\ First(r).generation \in Nat
           /\ \A b \in batch[r] : First(r).generation <= b.generation
<1>1. batch[r] \subseteq Polled
  BY DEF ReconcileTypeOK
<1> DEFINE S == {b.generation : b \in batch[r]}
<1>2. S \in SUBSET Nat /\ S # {}
  BY <1>1 DEF Polled
<1>3. PICK n \in S : \A m \in S : n <= m
  BY <1>2, LeastNat
<1>4. \E a \in batch[r] : \A b \in batch[r] : a.generation <= b.generation
  BY <1>3
<1>5. /\ First(r) \in batch[r]
      /\ \A b \in batch[r] : First(r).generation <= b.generation
  BY <1>4 DEF First
<1> QED BY <1>1, <1>5 DEF Polled

-----------------------------------------------------------------------------
(* Types of the controller.                                                *)

\* What the types say of a request that is placing a schedule.
LEMMA PlacerFields ==
    ASSUME ControllerTypeOK, NEW p \in Placers
    PROVE  /\ placer[p].op \in {"read", "select", "upsert"} =>
                 placer[p].schedule \in Schedules
           /\ placer[p].op = "select" => placer[p].labels \in SUBSET Labels
           /\ placer[p].op = "upsert" =>
                 /\ placer[p].generation \in Nat
                 /\ placer[p].todo \in SUBSET Runners
BY DEF ControllerTypeOK, PlacerState, Idle

\* Inductive step of type correctness, for the controller.
LEMMA ControllerTypes ==
    ASSUME ControllerTypeOK, ControllerStep
    PROVE  ControllerTypeOK'
<1> USE ControllerAssumption DEF ControllerTypeOK
<1>1. ASSUME NEW r \in Runners, Enroll(r) \/ Heartbeat(r)
      PROVE  ControllerTypeOK'
  BY <1>1 DEF Enroll, Heartbeat
<1>2. ASSUME NEW p \in Placers, NEW s \in Schedules, NEW spec \in Specs,
             NEW labels \in SUBSET Labels, CreateSchedule(p, s, spec, labels)
      PROVE  ControllerTypeOK'
  <2>1. schedules' \in [Schedules -> ScheduleRow \cup {Null}]
    BY <1>2 DEF CreateSchedule, Live, ScheduleRow
  <2>2. placer' \in [Placers -> PlacerState]
    BY <1>2 DEF CreateSchedule, Written, PlacerState
  <2>3. edits' \in 0 .. MaxEdits
    BY <1>2 DEF CreateSchedule, Edit
  <2> QED BY <1>2, <2>1, <2>2, <2>3 DEF CreateSchedule
<1>3. ASSUME NEW p \in Placers, NEW s \in Schedules, NEW spec \in Specs,
             NEW enabled \in BOOLEAN, NEW labels \in SUBSET Labels,
             UpdateLabels(p, s, spec, enabled, labels)
      PROVE  ControllerTypeOK'
  <2>1. schedules' \in [Schedules -> ScheduleRow \cup {Null}]
    BY <1>3 DEF UpdateLabels, Live, ScheduleRow
  <2>2. placer' \in [Placers -> PlacerState]
    BY <1>3 DEF UpdateLabels, Written, PlacerState
  <2>3. edits' \in 0 .. MaxEdits
    BY <1>3 DEF UpdateLabels, Edit
  <2> QED BY <1>3, <2>1, <2>2, <2>3 DEF UpdateLabels
<1>4. ASSUME NEW s \in Schedules, NEW spec \in Specs, NEW enabled \in BOOLEAN,
             UpdateSpec(s, spec, enabled)
      PROVE  ControllerTypeOK'
  <2>1. schedules' \in [Schedules -> ScheduleRow \cup {Null}]
    BY <1>4 DEF UpdateSpec, Exists, Live, ScheduleRow
  <2>2. edits' \in 0 .. MaxEdits
    BY <1>4 DEF UpdateSpec, Edit
  <2> QED BY <1>4, <2>1, <2>2 DEF UpdateSpec
<1>5. ASSUME NEW s \in Schedules, DeleteSchedule(s)
      PROVE  ControllerTypeOK'
  <2>1. schedules' \in [Schedules -> ScheduleRow \cup {Null}]
    BY <1>5 DEF DeleteSchedule, Exists, ScheduleRow
  <2>2. edits' \in 0 .. MaxEdits
    BY <1>5 DEF DeleteSchedule, Edit
  <2> QED BY <1>5, <2>1, <2>2 DEF DeleteSchedule
<1>6. ASSUME NEW p \in Placers, ReadBack(p)
      PROVE  ControllerTypeOK'
  <2>1. placer[p].schedule \in Schedules
    BY <1>6, PlacerFields DEF ReadBack
  <2>2. placer' \in [Placers -> PlacerState]
    BY <1>6, <2>1 DEF ReadBack, Placing, PlacerState, Exists, ScheduleRow
  <2> QED BY <1>6, <2>2 DEF ReadBack
<1>7. ASSUME NEW p \in Placers, Select(p)
      PROVE  ControllerTypeOK'
  <2>1. placer[p].schedule \in Schedules
    BY <1>7, PlacerFields DEF Select
  <2>2. Matching(placer[p].labels) \in SUBSET Runners
    BY DEF Matching, Enrolled
  <2>3. clock' \in Nat
    BY <1>7 DEF Select
  <2>4. placer' \in [Placers -> PlacerState]
    BY <1>7, <2>1, <2>2 DEF Select, Upserting, PlacerState
  <2> QED BY <1>7, <2>3, <2>4 DEF Select
<1>8. ASSUME NEW p \in Placers, ReadFails(p)
      PROVE  ControllerTypeOK'
  BY <1>8 DEF ReadFails, PlacerState
<1>9. ASSUME NEW p \in Placers, NEW r \in Runners,
             Upsert(p, r) \/ UpsertFails(p, r)
      PROVE  ControllerTypeOK'
  <2>1. /\ placer[p].schedule \in Schedules
        /\ placer[p].generation \in Nat
        /\ placer[p].todo \in SUBSET Runners
    BY <1>9, PlacerFields DEF Upsert, UpsertFails
  <2>2. placer' \in [Placers -> PlacerState]
    BY <1>9, <2>1 DEF Upsert, UpsertFails, PlacerAfter,
                   Upserting, PlacerState
  <2>3. rows' \in [Schedules -> [Runners -> Row \cup {Null}]]
    <3>1. [generation |-> placer[p].generation, state |-> "pending"] \in Row
      BY <2>1 DEF Row, AssignmentStates
    <3>2. CASE Upsert(p, r)
      BY <2>1, <3>1, <3>2 DEF Upsert
    <3>3. CASE UpsertFails(p, r)
      BY <3>3 DEF UpsertFails
    <3> QED BY <1>9, <3>2, <3>3
  <2> QED BY <1>9, <2>2, <2>3 DEF Upsert, UpsertFails
<1> QED BY <1>1, <1>2, <1>3, <1>4, <1>5, <1>6, <1>7, <1>8, <1>9
        DEF ControllerStep, RunnerRequest, UserRequest, PlacerStep
-----------------------------------------------------------------------------
(* Types of the poll loop and the daemons.                                 *)

\* Whatever is in a batch has a row.
BatchHasRows ==
    \A r \in Runners : \A a \in batch[r] : rows[a.schedule][r] # Null

\* Rows are never taken back.
RowsStay ==
    \A s \in Schedules, r \in Runners :
        rows[s][r] # Null => rows'[s][r] # Null

\* What a report does to the rows: it sets the state of one.
RowObserved(s, r, state) ==
    /\ rows' \in [Schedules -> [Runners -> Row \cup {Null}]]
    /\ rows'[s][r] # Null
    /\ rows'[s][r].generation = rows[s][r].generation
    /\ rows'[s][r].state = state
    /\ \A t \in Schedules, q \in Runners :
          t # s \/ q # r => rows'[t][q] = rows[t][q]

\* What a report does to a row that exists.
LEMMA ObserveEffect ==
    ASSUME ControllerTypeOK, NEW s \in Schedules, NEW r \in Runners,
           rows[s][r] # Null,
           NEW state \in AssignmentStates, Observe(s, r, state)
    PROVE  RowObserved(s, r, state)
<1>1. rows[s][r] \in Row
  BY DEF ControllerTypeOK
<1> DEFINE row == [generation |-> rows[s][r].generation, state |-> state]
<1>2. row \in Row
  BY <1>1 DEF Row
<1> HIDE DEF row
<1>3. /\ rows' = [rows EXCEPT ![s][r] = row]
      /\ rows' \in [Schedules -> [Runners -> Row \cup {Null}]]
      /\ rows'[s][r] = row
      /\ \A t \in Schedules, q \in Runners :
            t # s \/ q # r => rows'[t][q] = rows[t][q]
  <2>1. rows' = [rows EXCEPT ![s][r] = row]
    BY DEF Observe, row
  <2> QED BY <1>2, <2>1 DEF ControllerTypeOK
<1>4. row # Null
  BY <1>2, ReconcileAssumption
<1> QED BY <1>3, <1>4 DEF row, RowObserved

\* What TurnToNext does to the batch, the cursor and the step.
LEMMA TurnTypes ==
    ASSUME ReconcileTypeOK, NEW r \in Runners, batch[r] # {}, TurnToNext(r)
    PROVE  /\ step' \in [Runners -> LoopState]
           /\ cursor' \in [Runners -> Nat]
           /\ batch' \in [Runners -> SUBSET Polled]
           /\ \A q \in Runners : batch'[q] = {} <=> step'[q] = Polling
           /\ \A q \in Runners : batch'[q] \subseteq batch[q]
<1>1. /\ First(r) \in batch[r] /\ First(r).generation \in Nat
      /\ batch[r] \in SUBSET Polled
  BY FirstIsLeast DEF ReconcileTypeOK
<1>2. Polling \in LoopState /\ Fetching \in LoopState /\ Polling # Fetching
  BY DEF LoopState, Polling, Fetching
<1> QED BY <1>1, <1>2 DEF TurnToNext, Goto, ReconcileTypeOK

\* What a PUT or a DELETE makes of the daemon's two versions.
LEMMA PutTypes ==
    ASSUME ReconcileTypeOK, NEW s \in Schedules, NEW r \in Runners,
           NEW v \in Version, Put(s, r, v)
    PROVE  /\ installed' \in [Schedules -> [Runners -> Version \cup {Null}]]
           /\ stored' \in [Schedules -> [Runners -> Version \cup {Null}]]
           /\ installed'[s][r] \in {installed[s][r], v}
           /\ stored'[s][r] \in {stored[s][r], v}
           /\ \A t \in Schedules, q \in Runners : t # s \/ q # r =>
                 /\ installed'[t][q] = installed[t][q]
                 /\ stored'[t][q] = stored[t][q]
<1>1. CASE Rejects(s, r, v)
  BY <1>1 DEF Put, daemonVars, ReconcileTypeOK
<1>2. CASE ~Rejects(s, r, v)
  <2>1. stored' = [stored EXCEPT ![s][r] = v]
    BY <1>2 DEF Put
  <2>2. \/ installed' = [installed EXCEPT ![s][r] = v]
        \/ installed' = [installed EXCEPT ![s][r] = installed[s][r]]
    BY <1>2 DEF Put
  <2>3. installed[s][r] \in Version \cup {Null}
    BY DEF ReconcileTypeOK
  <2>4. \E w \in {installed[s][r], v} :
           installed' = [installed EXCEPT ![s][r] = w]
    BY <2>2
  <2> HIDE DEF Version
  <2>5. /\ installed' \in [Schedules -> [Runners -> Version \cup {Null}]]
        /\ installed'[s][r] \in {installed[s][r], v}
        /\ \A t \in Schedules, q \in Runners :
              t # s \/ q # r => installed'[t][q] = installed[t][q]
    BY <2>3, <2>4 DEF ReconcileTypeOK
  <2>6. /\ stored' \in [Schedules -> [Runners -> Version \cup {Null}]]
        /\ stored'[s][r] \in {stored[s][r], v}
        /\ \A t \in Schedules, q \in Runners :
              t # s \/ q # r => stored'[t][q] = stored[t][q]
    BY <2>1 DEF ReconcileTypeOK
  <2> QED BY <2>5, <2>6
<1> QED BY <1>1, <1>2

\* A daemon that drops an assignment keeps the types of what it holds.
LEMMA ForgetTypes ==
    ASSUME ReconcileTypeOK, NEW s \in Schedules, NEW r \in Runners,
           Forget(s, r)
    PROVE  /\ installed' \in [Schedules -> [Runners -> Version \cup {Null}]]
           /\ stored' \in [Schedules -> [Runners -> Version \cup {Null}]]
           /\ \A t \in Schedules, q \in Runners :
                 /\ installed'[t][q] \in {installed[t][q], Null}
                 /\ stored'[t][q] \in {stored[t][q], Null}
BY DEF Forget, ReconcileTypeOK

\* Inductive step of type correctness.
LEMMA TypesInductive ==
    ASSUME ReconcileTypeOK, BatchHasRows, [ReconcileNext]_reconcileVars
    PROVE  ReconcileTypeOK' /\ BatchHasRows' /\ RowsStay
<1> USE ControllerAssumption, ReconcileAssumption
    DEF loopVars, daemonVars, restartVars
<1>1. ASSUME ControllerStep, UNCHANGED <<loopVars, daemonVars, restartVars>>
      PROVE  ReconcileTypeOK' /\ BatchHasRows' /\ RowsStay
  <2>1. ReconcileTypeOK'
    BY <1>1, ControllerTypes DEF ReconcileTypeOK
  <2>2. RowsStay
    <3>1. CASE UNCHANGED rows
      BY <3>1 DEF RowsStay
    <3>2. ASSUME NEW p \in Placers, NEW r \in Runners, Upsert(p, r)
          PROVE  RowsStay
      <4> DEFINE row == [generation |-> placer[p].generation,
                         state |-> "pending"]
      <4>1. placer[p].schedule \in Schedules /\ placer[p].generation \in Nat
        BY <3>2, PlacerFields DEF Upsert, ReconcileTypeOK
      <4>2. row \in Row
        BY <4>1 DEF Row, AssignmentStates
      <4> HIDE DEF row
      <4>3. rows' = [rows EXCEPT ![placer[p].schedule][r] = row]
        BY <3>2 DEF Upsert, row
      <4> QED BY <4>1, <4>2, <4>3
              DEF RowsStay, ReconcileTypeOK, ControllerTypeOK
    <3>3. UNCHANGED rows \/ \E p \in Placers, r \in Runners : Upsert(p, r)
      BY <1>1 DEF ControllerStep, RunnerRequest, UserRequest, PlacerStep,
                  Enroll, Heartbeat, CreateSchedule, UpdateLabels, UpdateSpec,
                  DeleteSchedule, ReadBack, Select, ReadFails, UpsertFails
    <3> QED BY <3>1, <3>2, <3>3
  <2>3. BatchHasRows'
    BY <1>1, <2>2 DEF BatchHasRows, RowsStay, ReconcileTypeOK, Polled
  <2> QED BY <2>1, <2>2, <2>3
<1>2. ASSUME NEW r \in Runners, Poll(r)
      PROVE  ReconcileTypeOK' /\ BatchHasRows' /\ RowsStay
  <2>1. Later(r) \in SUBSET Polled
    BY DEF Later, Polled, ReconcileTypeOK, ControllerTypeOK, Row
  <2>2. \A a \in Later(r) : rows[a.schedule][r] # Null
    BY DEF Later
  <2>3. Fetching \in LoopState /\ Fetching # Polling
    BY DEF LoopState, Fetching, Polling
  <2>4. ReconcileTypeOK'
    BY <1>2, <2>1, <2>3
       DEF Poll, ReconcileTypeOK, ControllerTypeOK, controllerVars
  <2>5. BatchHasRows'
    BY <1>2, <2>2 DEF Poll, BatchHasRows, controllerVars, ReconcileTypeOK
  <2>6. RowsStay
    BY <1>2 DEF Poll, RowsStay, controllerVars
  <2> QED BY <2>4, <2>5, <2>6
<1>3. ASSUME NEW r \in Runners, Fetch(r) \/ FetchFails(r)
      PROVE  ReconcileTypeOK' /\ BatchHasRows' /\ RowsStay
  <2>1. step[r] # Polling /\ batch[r] # {}
    BY <1>3 DEF Fetch, FetchFails, ReconcileTypeOK, Polling, Fetching
  <2>2. First(r).schedule \in Schedules
    BY <2>1, FirstIsLeast
  <2>3. step' \in [Runners -> LoopState] /\ step'[r] # Polling
        /\ \A q \in Runners \ {r} : step'[q] = step[q]
    <3>1. \E next \in LoopState \ {Polling} : Goto(r, next)
      <4>1. CASE FetchFails(r)
        BY <4>1 DEF FetchFails, Reporting, Polling, LoopState,
                    AssignmentStates
      <4>2. ASSUME Fetch(r), Exists(First(r).schedule)
            PROVE  schedules[First(r).schedule].spec \in Specs
        BY <2>2, <4>2 DEF Exists, ReconcileTypeOK, ControllerTypeOK,
                          ScheduleRow
      <4>3. CASE Fetch(r)
        BY <4>2, <4>3 DEF Fetch, Reporting, Applying, Removing, Polling,
                          LoopState, AssignmentStates
      <4> QED BY <1>3, <4>1, <4>3
    <3> QED BY <3>1 DEF Goto, ReconcileTypeOK
  <2>4. faults' \in 0 .. MaxFaults
    BY <1>3 DEF Fetch, FetchFails, Fault, ReconcileTypeOK, ControllerTypeOK,
                controllerVars
  <2>5. UNCHANGED <<schedules, runnerLabels, rows, clock, placer, edits,
                    cursor, batch, daemonVars, restartVars>>
    BY <1>3 DEF Fetch, FetchFails, ControllerKept, controllerVars
  <2> QED BY <2>1, <2>3, <2>4, <2>5
          DEF ReconcileTypeOK, ControllerTypeOK, BatchHasRows, RowsStay
<1>4. ASSUME NEW r \in Runners,
             Apply(r) \/ ApplyFails(r) \/ Delete(r) \/ DeleteFails(r)
      PROVE  ReconcileTypeOK' /\ BatchHasRows' /\ RowsStay
  <2>1. step[r] # Polling /\ batch[r] # {}
    BY <1>4 DEF Apply, ApplyFails, Delete, DeleteFails, ReconcileTypeOK,
                Polling, Removing
  <2>2. First(r).schedule \in Schedules /\ First(r).generation \in Nat
    BY <2>1, FirstIsLeast
  <2>3. step' \in [Runners -> LoopState] /\ step'[r] # Polling
        /\ \A q \in Runners \ {r} : step'[q] = step[q]
    <3>1. \E state \in AssignmentStates \ {"pending"} :
             Goto(r, Reporting(state))
      BY <1>4 DEF Apply, ApplyFails, Delete, DeleteFails, AssignmentStates
    <3> QED BY <3>1 DEF Goto, Reporting, Polling, LoopState, ReconcileTypeOK
  <2>4. /\ installed' \in [Schedules -> [Runners -> Version \cup {Null}]]
        /\ stored' \in [Schedules -> [Runners -> Version \cup {Null}]]
    <3>1. CASE Apply(r) \/ ApplyFails(r)
      <4>1. Offered(r) \in Version
        <5>1. step[r] \in LoopState /\ step[r].at = "apply"
          BY <3>1 DEF Apply, ApplyFails, ReconcileTypeOK
        <5>2. step[r].spec \in Specs
          BY <5>1 DEF LoopState, Polling, Fetching, Removing
        <5> QED BY <2>2, <5>2 DEF Offered, Version
      <4>2. UNCHANGED daemonVars \/ Put(First(r).schedule, r, Offered(r))
        BY <3>1 DEF Apply, ApplyFails
      <4>3. CASE UNCHANGED daemonVars
        BY <4>3 DEF ReconcileTypeOK
      <4>4. CASE Put(First(r).schedule, r, Offered(r))
        BY <2>2, <4>1, <4>4, PutTypes
      <4> QED BY <4>2, <4>3, <4>4
    <3>2. CASE Delete(r) \/ DeleteFails(r)
      <4>1. CASE UNCHANGED daemonVars
        BY <4>1 DEF ReconcileTypeOK
      <4>2. CASE Forget(First(r).schedule, r)
        BY <2>2, <4>2, ForgetTypes
      <4> QED BY <3>2, <4>1, <4>2 DEF Delete, DeleteFails
    <3> QED BY <1>4, <3>1, <3>2
  <2>5. faults' \in 0 .. MaxFaults
    BY <1>4 DEF Apply, ApplyFails, Delete, DeleteFails, Fault,
                ReconcileTypeOK, ControllerTypeOK, controllerVars
  <2>6. UNCHANGED <<schedules, runnerLabels, rows, clock, placer, edits,
                    cursor, batch, restartVars>>
    BY <1>4 DEF Apply, ApplyFails, Delete, DeleteFails, ControllerKept,
                controllerVars
  <2> QED BY <2>1, <2>3, <2>4, <2>5, <2>6
          DEF ReconcileTypeOK, ControllerTypeOK, BatchHasRows, RowsStay
<1>5. ASSUME NEW r \in Runners, Report(r) \/ ReportFails(r)
      PROVE  ReconcileTypeOK' /\ BatchHasRows' /\ RowsStay
  <2>1. step[r].at = "report" /\ TurnToNext(r)
    BY <1>5 DEF Report, ReportFails
  <2>2. batch[r] # {}
    BY <2>1 DEF ReconcileTypeOK, Polling
  <2>3. /\ First(r).schedule \in Schedules
        /\ rows[First(r).schedule][r] # Null
    BY <2>2, FirstIsLeast DEF BatchHasRows
  <2>4. step[r].state \in AssignmentStates
    <3>1. step[r] \in LoopState
      BY DEF ReconcileTypeOK
    <3> QED BY <2>1, <3>1 DEF LoopState, Polling, Fetching, Removing
  <2>5. rows' \in [Schedules -> [Runners -> Row \cup {Null}]] /\ RowsStay
    <3>1. CASE UNCHANGED rows
      BY <3>1 DEF RowsStay, ReconcileTypeOK, ControllerTypeOK
    <3>2. CASE Observe(First(r).schedule, r, step[r].state)
      <4>1. ControllerTypeOK
        BY DEF ReconcileTypeOK
      <4>2. RowObserved(First(r).schedule, r, step[r].state)
        BY <2>3, <2>4, <3>2, <4>1, ObserveEffect
      <4> QED BY <4>2 DEF RowObserved, RowsStay
    <3> QED BY <1>5, <3>1, <3>2 DEF Report, ReportFails
  <2>6. /\ step' \in [Runners -> LoopState]
        /\ cursor' \in [Runners -> Nat]
        /\ batch' \in [Runners -> SUBSET Polled]
        /\ \A q \in Runners : batch'[q] = {} <=> step'[q] = Polling
        /\ \A q \in Runners : batch'[q] \subseteq batch[q]
    BY <2>1, <2>2, TurnTypes
  <2>7. faults' \in 0 .. MaxFaults
    BY <1>5 DEF Report, ReportFails, Fault, ReconcileTypeOK, ControllerTypeOK
  <2>8. UNCHANGED <<schedules, runnerLabels, clock, placer, edits,
                    daemonVars, restartVars>>
    BY <1>5 DEF Report, ReportFails, ControllerKept
  <2>9. ReconcileTypeOK'
    BY <2>5, <2>6, <2>7, <2>8 DEF ReconcileTypeOK, ControllerTypeOK
  <2>10. BatchHasRows'
    <3> SUFFICES ASSUME NEW q \in Runners, NEW a \in batch[q]
                 PROVE  rows'[a.schedule][q] # Null
      BY <2>6 DEF BatchHasRows
    <3>1. a.schedule \in Schedules
      BY DEF ReconcileTypeOK, Polled
    <3> QED BY <2>5, <3>1 DEF BatchHasRows, RowsStay
  <2> QED BY <2>5, <2>9, <2>10
<1>6. ASSUME NEW r \in Runners, RestartRunner(r)
      PROVE  ReconcileTypeOK' /\ BatchHasRows' /\ RowsStay
  <2>1. Polling \in LoopState
    BY DEF LoopState
  <2>2. runnerRestarts' \in 0 .. MaxRunnerRestarts
    BY <1>6 DEF RestartRunner, ReconcileTypeOK
  <2> QED BY <1>6, <2>1, <2>2
          DEF RestartRunner, ReconcileTypeOK, ControllerTypeOK, BatchHasRows,
              RowsStay, controllerVars
<1>7. ASSUME NEW r \in Runners, RestartDaemon(r)
      PROVE  ReconcileTypeOK' /\ BatchHasRows' /\ RowsStay
  <2>1. installed' \in [Schedules -> [Runners -> Version \cup {Null}]]
    BY <1>7 DEF RestartDaemon, ReconcileTypeOK
  <2>2. daemonRestarts' \in 0 .. MaxDaemonRestarts
    BY <1>7 DEF RestartDaemon, ReconcileTypeOK
  <2> QED BY <1>7, <2>1, <2>2
          DEF RestartDaemon, ReconcileTypeOK, ControllerTypeOK, BatchHasRows,
              RowsStay, controllerVars
<1>8. CASE UNCHANGED reconcileVars
  BY <1>8 DEF reconcileVars, controllerVars, ReconcileTypeOK,
              ControllerTypeOK, BatchHasRows, RowsStay
<1> QED BY <1>1, <1>2, <1>3, <1>4, <1>5, <1>6, <1>7, <1>8
        DEF ReconcileNext, RunnerStep

-----------------------------------------------------------------------------
(* What the steps do to rows, placements and daemons.                      *)

\* The placements that go on after the step went on before it.
PlacersGoOn ==
    \A p \in Placers : placer'[p].op = "upsert" =>
        /\ placer[p].op = "upsert"
        /\ placer'[p].schedule = placer[p].schedule
        /\ placer'[p].generation = placer[p].generation
        /\ placer'[p].todo \subseteq placer[p].todo

\* Rows keep their generations.
GenerationsKept ==
    \A s \in Schedules, r \in Runners :
        /\ rows'[s][r] # Null <=> rows[s][r] # Null
        /\ rows[s][r] # Null =>
              rows'[s][r].generation = rows[s][r].generation

\* No row and no generation is new.
Quiet == PlacersGoOn /\ UNCHANGED <<rows, clock>>

\* Request p has read the clock.
Selected(p) ==
    /\ placer[p].op = "select"
    /\ placer'[p].op = "upsert"
    /\ UNCHANGED rows
    /\ placer'[p].generation = clock'
    /\ placer'[p].todo \subseteq Runners
    /\ \A q \in Placers \ {p} : placer'[q] = placer[q]

\* Request p has written its row for r.
RowUpserted(p, r) ==
    /\ placer[p].op = "upsert"
    /\ r \in placer[p].todo
    /\ UNCHANGED clock
    /\ PlacersGoOn
    /\ placer'[p].op = "upsert" => r \notin placer'[p].todo
    /\ rows'[placer[p].schedule][r] # Null
    /\ rows'[placer[p].schedule][r].generation = placer[p].generation
    /\ \A s \in Schedules, q \in Runners :
          s # placer[p].schedule \/ q # r => rows'[s][q] = rows[s][q]

\* Faults are not forgotten.
NoFaultBefore == faults' = 0 => faults = 0

\* The three ways in which a request changes rows and placements.
LEMMA ControllerEffect ==
    ASSUME ControllerTypeOK, ControllerStep
    PROVE  /\ NoFaultBefore
           /\ \/ Quiet
              \/ \E p \in Placers : Selected(p)
              \/ \E p \in Placers, r \in Runners : RowUpserted(p, r)
<1> DEFINE Effect ==
      /\ NoFaultBefore
      /\ \/ Quiet
         \/ \E p \in Placers : Selected(p)
         \/ \E p \in Placers, r \in Runners : RowUpserted(p, r)
<1>0. placer \in [Placers -> PlacerState] /\ faults \in Nat
  BY ControllerAssumption DEF ControllerTypeOK
<1>1. ASSUME UNCHANGED <<rows, clock, placer, faults>>
      PROVE  Effect
  BY <1>1 DEF Quiet, PlacersGoOn, NoFaultBefore
<1>2. ASSUME NEW p \in Placers, NEW next, next.op # "upsert",
             placer' = [placer EXCEPT ![p] = next],
             UNCHANGED <<rows, clock>>, faults' \in {faults, faults + 1}
      PROVE  Effect
  BY <1>0, <1>2 DEF Quiet, PlacersGoOn, NoFaultBefore
<1>3. ASSUME RunnerRequest PROVE Effect
  BY <1>1, <1>3 DEF RunnerRequest, Enroll, Heartbeat
<1>4. ASSUME UserRequest PROVE Effect
  <2>1. ASSUME NEW p \in Placers, NEW s \in Schedules, NEW spec \in Specs,
               NEW labels \in SUBSET Labels, CreateSchedule(p, s, spec, labels)
        PROVE  Effect
    BY <1>2, <2>1 DEF CreateSchedule, Written
  <2>2. ASSUME NEW p \in Placers, NEW s \in Schedules, NEW spec \in Specs,
               NEW enabled \in BOOLEAN, NEW labels \in SUBSET Labels,
               UpdateLabels(p, s, spec, enabled, labels)
        PROVE  Effect
    BY <1>2, <2>2 DEF UpdateLabels, Written
  <2>3. ASSUME NEW s \in Schedules, NEW spec \in Specs,
               NEW enabled \in BOOLEAN, UpdateSpec(s, spec, enabled)
        PROVE  Effect
    BY <1>1, <2>3 DEF UpdateSpec
  <2>4. ASSUME NEW s \in Schedules, DeleteSchedule(s) PROVE Effect
    BY <1>1, <2>4 DEF DeleteSchedule
  <2> QED BY <1>4, <2>1, <2>2, <2>3, <2>4 DEF UserRequest
<1>5. ASSUME NEW p \in Placers, ReadBack(p) \/ ReadFails(p)
      PROVE  Effect
  BY <1>2, <1>5 DEF ReadBack, ReadFails, Idle, Placing
<1>6. ASSUME NEW p \in Placers, Select(p)
      PROVE  Effect
  <2>1. CASE Matching(placer[p].labels) = {}
    BY <1>2, <1>6, <2>1 DEF Select, Idle
  <2>2. CASE Matching(placer[p].labels) # {}
    <3>1. /\ placer' = [placer EXCEPT ![p] =
                 Upserting(placer[p].schedule, clock',
                           Matching(placer[p].labels))]
          /\ placer[p].op = "select"
          /\ UNCHANGED <<rows, faults>>
      BY <1>6, <2>2 DEF Select
    <3>2. Selected(p)
      BY <1>0, <3>1 DEF Selected, Upserting, Matching, Enrolled
    <3> QED BY <3>1, <3>2 DEF NoFaultBefore
  <2> QED BY <2>1, <2>2
<1>7. ASSUME NEW p \in Placers, NEW r \in Runners,
             Upsert(p, r) \/ UpsertFails(p, r)
      PROVE  Effect
  <2>1. /\ placer[p].op = "upsert"
        /\ r \in placer[p].todo
        /\ placer[p].schedule \in Schedules
        /\ placer[p].generation \in Nat
    BY <1>7, PlacerFields DEF Upsert, UpsertFails
  <2>2. PlacersGoOn /\ (placer'[p].op = "upsert" => r \notin placer'[p].todo)
    BY <1>0, <1>7, <2>1
       DEF Upsert, UpsertFails, PlacerAfter, Upserting, Idle, PlacersGoOn
  <2>3. CASE UpsertFails(p, r)
    BY <1>0, <2>2, <2>3 DEF UpsertFails, Quiet, NoFaultBefore
  <2>4. CASE Upsert(p, r)
    <3> DEFINE row == [generation |-> placer[p].generation,
                       state |-> "pending"]
    <3>1. row \in Row
      BY <2>1 DEF Row, AssignmentStates
    <3>2. row # Null /\ row.generation = placer[p].generation
      BY <3>1, ReconcileAssumption
    <3>3. rows' = [rows EXCEPT ![placer[p].schedule][r] = row]
      BY <2>4 DEF Upsert
    <3> HIDE DEF row
    <3>4. /\ rows'[placer[p].schedule][r] = row
          /\ \A s \in Schedules, q \in Runners :
                s # placer[p].schedule \/ q # r => rows'[s][q] = rows[s][q]
      BY <2>1, <3>3 DEF ControllerTypeOK
    <3>5. RowUpserted(p, r)
      BY <2>1, <2>2, <2>4, <3>2, <3>4 DEF RowUpserted, Upsert
    <3> QED BY <2>4, <3>5 DEF Upsert, NoFaultBefore
  <2> QED BY <1>7, <2>3, <2>4
<1> QED BY <1>3, <1>4, <1>5, <1>6, <1>7 DEF ControllerStep, PlacerStep

-----------------------------------------------------------------------------
(* What the steps of the poll loops and the daemons do.                    *)

\* What a daemon runs or has stored after the step it had stored or run
\* before, or it is a version out of the batch of its runner.
DaemonsFollow ==
    \A s \in Schedules, r \in Runners :
        /\ installed'[s][r] # Null =>
              \/ installed'[s][r] \in {installed[s][r], stored[s][r]}
              \/ \E a \in batch[r] :
                    /\ a.schedule = s
                    /\ a.generation = installed'[s][r].generation
        /\ stored'[s][r] # Null =>
              \/ stored'[s][r] = stored[s][r]
              \/ \E a \in batch[r] :
                    /\ a.schedule = s
                    /\ a.generation = stored'[s][r].generation

\* The loop is at work on its assignment.
Working ==
    /\ UNCHANGED <<rows, clock, placer, cursor, batch>>
    /\ NoFaultBefore
    /\ DaemonsFollow

\* It has finished it: what it did is reported, or the report is lost.
Finished(r) ==
    /\ batch[r] # {}
    /\ UNCHANGED <<clock, placer, daemonVars>>
    /\ TurnToNext(r)
    /\ \/ faults' > 0 /\ UNCHANGED rows
       \/ /\ UNCHANGED faults
          /\ \E state \in AssignmentStates \ {"pending"} :
                RowObserved(First(r).schedule, r, state)

\* The steps of runners and daemons come down to these.
LEMMA LoopEffect ==
    ASSUME ReconcileTypeOK, BatchHasRows,
           \/ UNCHANGED reconcileVars
           \/ \E r \in Runners :
                 RunnerStep(r) \/ RestartRunner(r) \/ RestartDaemon(r)
    PROVE  \/ Working
           \/ \E r \in Runners : Poll(r) \/ Finished(r) \/ RestartRunner(r)
<1> USE DEF daemonVars, restartVars, controllerVars
<1>0. faults \in Nat
  BY ControllerAssumption DEF ReconcileTypeOK, ControllerTypeOK
<1>1. ASSUME NEW r \in Runners, Fetch(r) \/ FetchFails(r) PROVE Working
  BY <1>0, <1>1 DEF Fetch, FetchFails, Fault, ControllerKept, Working,
                    NoFaultBefore, DaemonsFollow
<1>2. ASSUME NEW r \in Runners, Apply(r) \/ ApplyFails(r) PROVE Working
  <2>1. UNCHANGED <<rows, clock, placer, cursor, batch>> /\ NoFaultBefore
    BY <1>0, <1>2
       DEF Apply, ApplyFails, Fault, ControllerKept, NoFaultBefore
  <2>2. First(r) \in batch[r] /\ First(r).schedule \in Schedules
        /\ First(r).generation \in Nat
    <3>1. batch[r] # {}
      BY <1>2 DEF Apply, ApplyFails, ReconcileTypeOK, Polling
    <3> QED BY <3>1, FirstIsLeast
  <2>3. CASE UNCHANGED daemonVars
    BY <2>1, <2>3 DEF Working, DaemonsFollow
  <2>4. CASE Put(First(r).schedule, r, Offered(r))
    <3>1. Offered(r) \in Version /\ Offered(r).generation = First(r).generation
      <4>1. step[r] \in LoopState /\ step[r].at = "apply"
        BY <1>2 DEF Apply, ApplyFails, ReconcileTypeOK
      <4>2. step[r].spec \in Specs
        BY <4>1 DEF LoopState, Polling, Fetching, Removing
      <4> QED BY <2>2, <4>2 DEF Offered, Version
    <3>2. /\ installed'[First(r).schedule][r]
                \in {installed[First(r).schedule][r], Offered(r)}
          /\ stored'[First(r).schedule][r]
                \in {stored[First(r).schedule][r], Offered(r)}
          /\ \A t \in Schedules, q \in Runners :
                t # First(r).schedule \/ q # r =>
                   /\ installed'[t][q] = installed[t][q]
                   /\ stored'[t][q] = stored[t][q]
      BY <2>2, <2>4, <3>1, PutTypes
    <3>3. DaemonsFollow
      BY <2>2, <3>1, <3>2 DEF DaemonsFollow
    <3> QED BY <2>1, <3>3 DEF Working
  <2> QED BY <1>2, <2>3, <2>4 DEF Apply, ApplyFails
<1>3. ASSUME NEW r \in Runners, Delete(r) \/ DeleteFails(r) PROVE Working
  <2>1. UNCHANGED <<rows, clock, placer, cursor, batch>> /\ NoFaultBefore
    BY <1>0, <1>3
       DEF Delete, DeleteFails, Fault, ControllerKept, NoFaultBefore
  <2>2. First(r).schedule \in Schedules
    <3>1. batch[r] # {}
      BY <1>3 DEF Delete, DeleteFails, ReconcileTypeOK, Polling, Removing
    <3> QED BY <3>1, FirstIsLeast
  <2>3. CASE UNCHANGED daemonVars
    BY <2>1, <2>3 DEF Working, DaemonsFollow
  <2>4. CASE Forget(First(r).schedule, r)
    <3>1. \A t \in Schedules, q \in Runners :
             /\ installed'[t][q] \in {installed[t][q], Null}
             /\ stored'[t][q] \in {stored[t][q], Null}
      BY <2>2, <2>4, ForgetTypes
    <3> QED BY <2>1, <3>1 DEF Working, DaemonsFollow
  <2> QED BY <1>3, <2>3, <2>4 DEF Delete, DeleteFails
<1>4. ASSUME NEW r \in Runners, Report(r) \/ ReportFails(r) PROVE Finished(r)
  <2>1. /\ step[r].at = "report"
        /\ TurnToNext(r)
        /\ UNCHANGED <<clock, placer, daemonVars>>
    BY <1>4 DEF Report, ReportFails, ControllerKept
  <2>2. batch[r] # {}
    BY <2>1 DEF ReconcileTypeOK, Polling
  <2>3. CASE ReportFails(r)
    BY <1>0, <2>1, <2>2, <2>3 DEF ReportFails, Fault, Finished
  <2>4. CASE Report(r)
    <3>1. step[r].state \in AssignmentStates \ {"pending"}
      <4>1. step[r] \in LoopState
        BY DEF ReconcileTypeOK
      <4> QED BY <2>1, <4>1
              DEF LoopState, Polling, Fetching, Removing
    <3>2. /\ First(r).schedule \in Schedules
          /\ rows[First(r).schedule][r] # Null
      BY <2>2, FirstIsLeast DEF BatchHasRows
    <3>3. ControllerTypeOK
      BY DEF ReconcileTypeOK
    <3>4. RowObserved(First(r).schedule, r, step[r].state)
      BY <2>4, <3>1, <3>2, <3>3, ObserveEffect DEF Report
    <3> QED BY <2>1, <2>2, <2>4, <3>1, <3>4 DEF Report, Finished
  <2> QED BY <1>4, <2>3, <2>4
<1>5. ASSUME NEW r \in Runners, RestartDaemon(r) PROVE Working
  <2>1. \A s \in Schedules, q \in Runners :
           /\ installed'[s][q] \in {installed[s][q], stored[s][q], Null}
           /\ stored'[s][q] = stored[s][q]
    BY <1>5 DEF RestartDaemon, ReconcileTypeOK
  <2>2. DaemonsFollow
    BY <2>1 DEF DaemonsFollow
  <2> QED BY <1>5, <2>2 DEF RestartDaemon, Working, loopVars, NoFaultBefore
<1>6. ASSUME UNCHANGED reconcileVars PROVE Working
  BY <1>6 DEF reconcileVars, loopVars, Working, NoFaultBefore, DaemonsFollow
<1> QED BY <1>1, <1>2, <1>3, <1>4, <1>5, <1>6 DEF RunnerStep

-----------------------------------------------------------------------------
(* The order of generations, when placements do not overlap.               *)

\* At most one request upserts rows at a time.
PlacementsTakeTurns ==
    \A p, q \in Placers :
        placer[p].op = "upsert" /\ placer[q].op = "upsert" => p = q

\* The rows of a placement that are still to come are later than everything
\* their runner has seen, and than every row it has.
OrderInv ==
    /\ \A r \in Runners :
          /\ cursor[r] <= clock
          /\ \A a \in batch[r] :
                /\ a.generation <= clock
                /\ rows[a.schedule][r] # Null
                /\ a.generation <= rows[a.schedule][r].generation
          /\ \A s \in Schedules : rows[s][r] # Null =>
                rows[s][r].generation \in 1 .. clock
    /\ \A p \in Placers : placer[p].op = "upsert" =>
          /\ placer[p].generation \in 1 .. clock
          /\ \A r \in placer[p].todo :
                /\ cursor[r] < placer[p].generation
                /\ \A a \in batch[r] : a.generation < placer[p].generation
                /\ \A s \in Schedules : rows[s][r] # Null =>
                      rows[s][r].generation < placer[p].generation

\* What the daemons run and have stored is not ahead of the rows.
StoredNeverAhead ==
    \A s \in Schedules, r \in Runners :
        stored[s][r] # Null =>
            /\ rows[s][r] # Null
            /\ stored[s][r].generation <= rows[s][r].generation

\* A row that is pending and after the cursor is in the batch at hand, or
\* later than all of it.
PendingIsAhead ==
    faults = 0 => \A s \in Schedules, r \in Runners :
        /\ rows[s][r] # Null
        /\ rows[s][r].state = "pending"
        => \/ [schedule |-> s, generation |-> rows[s][r].generation]
                 \in batch[r]
           \/ /\ cursor[r] < rows[s][r].generation
              /\ \A a \in batch[r] : a.generation < rows[s][r].generation

\* The inductive invariant while placements take turns.
TurnsInv ==
    /\ OrderInv
    /\ DaemonNeverAhead
    /\ StoredNeverAhead
    /\ PendingIsAhead
    /\ NoneSkipped

\* What the types say of the numbers, and of a placement that goes on.
LEMMA NumberTypes ==
    ASSUME ReconcileTypeOK
    PROVE  /\ clock \in Nat /\ faults \in Nat
           /\ \A s \in Schedules, r \in Runners :
                 /\ rows[s][r] # Null => rows[s][r].generation \in Nat
                 /\ installed[s][r] # Null =>
                       installed[s][r].generation \in Nat
                 /\ stored[s][r] # Null => stored[s][r].generation \in Nat
           /\ \A r \in Runners :
                 /\ cursor[r] \in Nat
                 /\ \A a \in batch[r] :
                       a.generation \in Nat /\ a.schedule \in Schedules
           /\ \A p \in Placers : placer[p].op = "upsert" =>
                 /\ placer[p].schedule \in Schedules
                 /\ placer[p].generation \in Nat
                 /\ placer[p].todo \in SUBSET Runners
<1>1. ControllerTypeOK
  BY DEF ReconcileTypeOK
<1> QED BY <1>1, PlacerFields, ControllerAssumption
        DEF ReconcileTypeOK, ControllerTypeOK, Row, Version, Polled

\* Requests keep the order: one case for each thing a request may do.
LEMMA ControllerKeepsOrder ==
    ASSUME ReconcileTypeOK, ReconcileTypeOK', TurnsInv, PlacementsTakeTurns,
           NoFaultBefore,
           UNCHANGED <<cursor, batch, installed, stored>>,
           \/ Quiet
           \/ \E p \in Placers : Selected(p) /\ clock < clock'
           \/ \E p \in Placers, r \in Runners : RowUpserted(p, r)
    PROVE  TurnsInv'
<1> USE NumberTypes
<1>1. CASE Quiet
  <2>1. OrderInv'
    BY <1>1 DEF Quiet, PlacersGoOn, TurnsInv, OrderInv
  <2> QED BY <1>1, <2>1
          DEF Quiet, TurnsInv, DaemonNeverAhead, StoredNeverAhead,
              PendingIsAhead, NoneSkipped, CaughtUp, NoFaultBefore
<1>2. ASSUME NEW p \in Placers, Selected(p), clock < clock', clock' \in Nat
      PROVE  TurnsInv'
  <2>1. OrderInv'
    <3>1. \A r \in Runners :
             /\ cursor'[r] <= clock'
             /\ \A a \in batch'[r] :
                   /\ a.generation <= clock'
                   /\ rows'[a.schedule][r] # Null
                   /\ a.generation <= rows'[a.schedule][r].generation
             /\ \A s \in Schedules : rows'[s][r] # Null =>
                   rows'[s][r].generation \in 1 .. clock'
      BY <1>2 DEF Selected, TurnsInv, OrderInv
    <3>2. ASSUME NEW q \in Placers, placer'[q].op = "upsert"
          PROVE  /\ placer'[q].generation \in 1 .. clock'
                 /\ \A r \in placer'[q].todo :
                       /\ cursor'[r] < placer'[q].generation
                       /\ \A a \in batch'[r] :
                             a.generation < placer'[q].generation
                       /\ \A s \in Schedules : rows'[s][r] # Null =>
                             rows'[s][r].generation < placer'[q].generation
      <4>1. CASE q = p
        BY <1>2, <3>2, <4>1 DEF Selected, TurnsInv, OrderInv
      <4>2. CASE q # p
        BY <1>2, <3>2, <4>2 DEF Selected, TurnsInv, OrderInv
      <4> QED BY <4>1, <4>2
    <3> QED BY <3>1, <3>2 DEF OrderInv
  <2> QED BY <1>2, <2>1
          DEF Selected, TurnsInv, DaemonNeverAhead, StoredNeverAhead,
              PendingIsAhead, NoneSkipped, CaughtUp, NoFaultBefore
<1>3. ASSUME NEW p \in Placers, NEW r \in Runners, RowUpserted(p, r)
      PROVE  TurnsInv'
  <2> DEFINE t == placer[p].schedule
  <2>1. /\ t \in Schedules
        /\ rows'[t][r] # Null
        /\ rows'[t][r].generation = placer[p].generation
        /\ rows'[t][r].generation \in 1 .. clock
        /\ cursor[r] < rows'[t][r].generation
        /\ \A a \in batch[r] : a.generation < rows'[t][r].generation
        /\ rows[t][r] # Null =>
              rows[t][r].generation < rows'[t][r].generation
        /\ \A s \in Schedules, q \in Runners :
              s # t \/ q # r => rows'[s][q] = rows[s][q]
    BY <1>3 DEF RowUpserted, TurnsInv, OrderInv
  <2> HIDE DEF t
  <2>2. OrderInv'
    <3>1. ASSUME NEW q \in Runners
          PROVE  /\ cursor'[q] <= clock'
                 /\ \A a \in batch'[q] :
                       /\ a.generation <= clock'
                       /\ rows'[a.schedule][q] # Null
                       /\ a.generation <= rows'[a.schedule][q].generation
                 /\ \A s \in Schedules : rows'[s][q] # Null =>
                       rows'[s][q].generation \in 1 .. clock'
      BY <1>3, <2>1 DEF RowUpserted, TurnsInv, OrderInv
    <3>2. ASSUME NEW o \in Placers, placer'[o].op = "upsert"
          PROVE  /\ o = p
                 /\ r \notin placer'[o].todo
                 /\ placer'[o].generation = placer[p].generation
                 /\ placer'[o].todo \subseteq placer[p].todo
      BY <1>3, <3>2 DEF RowUpserted, PlacersGoOn, PlacementsTakeTurns
    <3>3. ASSUME NEW o \in Placers, placer'[o].op = "upsert"
          PROVE  /\ placer'[o].generation \in 1 .. clock'
                 /\ \A q \in placer'[o].todo :
                       /\ cursor'[q] < placer'[o].generation
                       /\ \A a \in batch'[q] :
                             a.generation < placer'[o].generation
                       /\ \A s \in Schedules : rows'[s][q] # Null =>
                             rows'[s][q].generation < placer'[o].generation
      BY <1>3, <2>1, <3>2, <3>3 DEF RowUpserted, TurnsInv, OrderInv
    <3> QED BY <3>1, <3>3 DEF OrderInv
  <2>3. DaemonNeverAhead' /\ StoredNeverAhead'
    BY <2>1 DEF TurnsInv, DaemonNeverAhead, StoredNeverAhead
  <2>4. PendingIsAhead'
    BY <2>1 DEF TurnsInv, PendingIsAhead, NoFaultBefore
  <2>5. NoneSkipped'
    BY <2>1 DEF TurnsInv, NoneSkipped, CaughtUp, NoFaultBefore
  <2> QED BY <2>2, <2>3, <2>4, <2>5 DEF TurnsInv
<1>4. clock' \in Nat
  BY DEF ReconcileTypeOK, ControllerTypeOK
<1> QED BY <1>1, <1>2, <1>3, <1>4

\* The poll loops keep it.
LEMMA LoopKeepsOrder ==
    ASSUME ReconcileTypeOK, TurnsInv,
           \/ Working
           \/ \E r \in Runners : Poll(r) \/ Finished(r) \/ RestartRunner(r)
    PROVE  TurnsInv'
<1> USE NumberTypes
<1>1. CASE Working
  <2>1. OrderInv' /\ PendingIsAhead' /\ NoneSkipped'
    BY <1>1 DEF Working, TurnsInv, OrderInv, PendingIsAhead, NoneSkipped,
                CaughtUp, NoFaultBefore
  <2>2. DaemonNeverAhead' /\ StoredNeverAhead'
    BY <1>1 DEF Working, DaemonsFollow, TurnsInv, OrderInv, DaemonNeverAhead,
                StoredNeverAhead
  <2> QED BY <2>1, <2>2 DEF TurnsInv
<1>2. ASSUME NEW r \in Runners, Poll(r) PROVE TurnsInv'
  <2>1. /\ UNCHANGED <<rows, clock, placer, cursor, installed, stored, faults>>
        /\ batch'[r] = Later(r)
        /\ \A q \in Runners \ {r} : batch'[q] = batch[q]
        /\ batch[r] = {}
    BY <1>2 DEF Poll, ReconcileTypeOK, controllerVars, daemonVars
  <2>2. \A a \in Later(r) :
           /\ a.schedule \in Schedules
           /\ rows[a.schedule][r] # Null
           /\ a.generation = rows[a.schedule][r].generation
    BY DEF Later
  <2>3. OrderInv'
    BY <2>1, <2>2 DEF TurnsInv, OrderInv
  <2>4. PendingIsAhead'
    BY <2>1 DEF TurnsInv, PendingIsAhead, Later
  <2> QED BY <2>1, <2>3, <2>4
          DEF TurnsInv, DaemonNeverAhead, StoredNeverAhead, NoneSkipped,
              CaughtUp
<1>3. ASSUME NEW r \in Runners, Finished(r) PROVE TurnsInv'
  <2> DEFINE f == First(r)
  <2>1. /\ f \in batch[r]
        /\ f.schedule \in Schedules
        /\ f.generation \in Nat
        /\ \A b \in batch[r] : f.generation <= b.generation
    BY <1>3, FirstIsLeast DEF Finished
  <2>2. /\ batch'[r] = batch[r] \ {f}
        /\ \A q \in Runners \ {r} :
              batch'[q] = batch[q] /\ cursor'[q] = cursor[q]
        /\ \/ cursor'[r] = cursor[r]
           \/ batch[r] = {f} /\ cursor'[r] = f.generation
        /\ UNCHANGED <<clock, placer, installed, stored>>
    BY <1>3 DEF Finished, TurnToNext, ReconcileTypeOK, daemonVars
  <2>3. GenerationsKept
    BY <1>3, <2>1
       DEF Finished, RowObserved, GenerationsKept, OrderInv, TurnsInv
  <2>4. faults' = 0 =>
           /\ faults = 0
           /\ rows'[f.schedule][r].state # "pending"
           /\ \A s \in Schedules, q \in Runners :
                 s # f.schedule \/ q # r => rows'[s][q] = rows[s][q]
    BY <1>3 DEF Finished, RowObserved
  <2> HIDE DEF f
  <2>5. OrderInv'
    BY <2>1, <2>2, <2>3 DEF TurnsInv, OrderInv, GenerationsKept
  <2>6. DaemonNeverAhead' /\ StoredNeverAhead'
    BY <2>2, <2>3
       DEF TurnsInv, GenerationsKept, DaemonNeverAhead, StoredNeverAhead
  <2>7. PendingIsAhead'
    BY <2>1, <2>2, <2>3, <2>4 DEF TurnsInv, PendingIsAhead, GenerationsKept
  <2>8. NoneSkipped'
    <3> SUFFICES ASSUME faults' = 0, NEW s \in Schedules, NEW q \in Runners,
                        rows'[s][q] # Null,
                        rows'[s][q].generation <= cursor'[q],
                        rows'[s][q].state = "pending"
                 PROVE  FALSE
      BY DEF NoneSkipped, CaughtUp
    <3>1. /\ s # f.schedule \/ q # r
          /\ rows'[s][q] = rows[s][q]
          /\ faults = 0
      BY <2>4
    <3>2. CASE cursor'[q] = cursor[q]
      BY <3>1, <3>2 DEF TurnsInv, NoneSkipped, CaughtUp
    <3>3. CASE q = r /\ batch[r] = {f} /\ cursor'[r] = f.generation
      <4>1. [schedule |-> s, generation |-> rows[s][r].generation] # f
        BY <3>1, <3>3
      <4>2. /\ rows[s][r] # Null
            /\ rows[s][r].state = "pending"
            /\ rows[s][r].generation <= f.generation
        BY <3>1, <3>3
      <4>3. \/ [schedule |-> s, generation |-> rows[s][r].generation]
                  \in batch[r]
            \/ \A a \in batch[r] : a.generation < rows[s][r].generation
        BY <3>1, <4>2 DEF TurnsInv, PendingIsAhead
      <4>4. f.generation < rows[s][r].generation
        BY <2>1, <3>3, <4>1, <4>3
      <4> QED BY <2>1, <4>2, <4>4
    <3> QED BY <2>2, <3>2, <3>3
  <2> QED BY <2>5, <2>6, <2>7, <2>8 DEF TurnsInv
<1>4. ASSUME NEW r \in Runners, RestartRunner(r) PROVE TurnsInv'
  <2>1. /\ UNCHANGED <<rows, clock, placer, installed, stored, faults>>
        /\ batch'[r] = {} /\ cursor'[r] = 0
        /\ \A q \in Runners \ {r} :
              batch'[q] = batch[q] /\ cursor'[q] = cursor[q]
    BY <1>4 DEF RestartRunner, ReconcileTypeOK, controllerVars, daemonVars
  <2>2. OrderInv'
    BY <2>1 DEF TurnsInv, OrderInv
  <2>3. PendingIsAhead' /\ NoneSkipped'
    BY <2>1 DEF TurnsInv, OrderInv, PendingIsAhead, NoneSkipped, CaughtUp
  <2> QED BY <2>1, <2>2, <2>3
          DEF TurnsInv, DaemonNeverAhead, StoredNeverAhead
<1> QED BY <1>1, <1>2, <1>3, <1>4

-----------------------------------------------------------------------------
(* Theorems.                                                               *)

\* The types, with what they need.
TypesInv == ReconcileTypeOK /\ BatchHasRows

\* Both invariants hold initially.
LEMMA InitHolds == ReconcileInit => TypesInv /\ TurnsInv
<1> SUFFICES ASSUME ReconcileInit
             PROVE  TypesInv /\ TurnsInv
  OBVIOUS
<1> USE ControllerAssumption, ReconcileAssumption
    DEF ReconcileInit, ControllerInit, Idle, Nothing
<1>1. ControllerTypeOK
  BY DEF ControllerTypeOK, PlacerState
<1>2. TypesInv
  BY <1>1 DEF TypesInv, ReconcileTypeOK, BatchHasRows, LoopState, Polling
<1>3. TurnsInv
  BY DEF TurnsInv, OrderInv, DaemonNeverAhead, StoredNeverAhead,
         PendingIsAhead, NoneSkipped, CaughtUp
<1> QED BY <1>2, <1>3

\* What any step is, in the terms of the lemmas above.
LEMMA StepEffect ==
    ASSUME TypesInv, [ReconcileNext]_reconcileVars
    PROVE  \/ /\ NoFaultBefore
              /\ UNCHANGED <<cursor, batch, installed, stored>>
              /\ \/ Quiet
                 \/ \E p \in Placers : Selected(p)
                 \/ \E p \in Placers, r \in Runners : RowUpserted(p, r)
           \/ Working
           \/ \E r \in Runners : Poll(r) \/ Finished(r) \/ RestartRunner(r)
<1>1. CASE ControllerStep /\ UNCHANGED <<loopVars, daemonVars, restartVars>>
  BY <1>1, ControllerEffect
     DEF TypesInv, ReconcileTypeOK, loopVars, daemonVars
<1>2. CASE \/ UNCHANGED reconcileVars
           \/ \E r \in Runners :
                 RunnerStep(r) \/ RestartRunner(r) \/ RestartDaemon(r)
  BY <1>2, LoopEffect DEF TypesInv
<1> QED BY <1>1, <1>2 DEF ReconcileNext

\* Every step keeps the order of generations while placements take turns and
\* the clock is steady.
LEMMA TurnsKept ==
    /\ TypesInv /\ TypesInv' /\ TurnsInv /\ PlacementsTakeTurns
    /\ [ReconcileNext /\ ReadingsIncrease]_reconcileVars
    => TurnsInv'
<1> SUFFICES ASSUME TypesInv, TypesInv', TurnsInv, PlacementsTakeTurns,
                    [ReconcileNext /\ ReadingsIncrease]_reconcileVars
             PROVE  TurnsInv'
  OBVIOUS
<1>1. \A p \in Placers : Selected(p) => clock < clock'
  <2> SUFFICES ASSUME NEW p \in Placers, Selected(p)
               PROVE  clock < clock'
    OBVIOUS
  <2>1. placer[p].op = "select" /\ placer'[p].op = "upsert"
    BY DEF Selected
  <2>2. placer' # placer
    BY <2>1
  <2>3. ReadingsIncrease
    BY <2>2 DEF reconcileVars, controllerVars
  <2>4. clock' > clock
    BY <2>1, <2>3 DEF ReadingsIncrease
  <2>5. clock \in Nat /\ clock' \in Nat
    BY DEF TypesInv, ReconcileTypeOK, ControllerTypeOK
  <2> QED BY <2>4, <2>5
<1>2. [ReconcileNext]_reconcileVars
  OBVIOUS
<1> QED BY <1>1, <1>2, StepEffect, ControllerKeepsOrder, LoopKeepsOrder
        DEF TypesInv

-----------------------------------------------------------------------------
(* What a row says once its runner has caught up.                          *)

\* The row of s is in the batch at hand, or the runner has yet to poll it.
AtHand(s, r) ==
    [schedule |-> s, generation |-> rows[s][r].generation] \in batch[r]

IsLater(s, r) ==
    /\ cursor[r] < rows[s][r].generation
    /\ \A a \in batch[r] : a.generation < rows[s][r].generation

\* What state says of the row's own generation is true of the daemon, and will
\* be after it restarts: a version it refuses is then stored and not run.
Truly(s, r, state) ==
    /\ state = "applied" =>
          /\ stored[s][r] # Null
          /\ stored[s][r].generation = rows[s][r].generation
          /\ IF installed[s][r] = Null
               THEN stored[s][r].spec \in BadSpecs
               ELSE installed[s][r].generation = rows[s][r].generation
    /\ state = "removed" => installed[s][r] = Null /\ stored[s][r] = Null

\* The rows of runner r speak the truth, but for those it has still to finish;
\* so does what it is about to report, unless the row has become later.
SettledOf(r) ==
    /\ \A s \in Schedules : rows[s][r] # Null =>
          AtHand(s, r) \/ IsLater(s, r) \/ Truly(s, r, rows[s][r].state)
    /\ \A a \in batch[r] :
          \/ rows[a.schedule][r].generation = a.generation
          \/ IsLater(a.schedule, r)
    /\ step[r].at = "report" =>
          LET f == First(r) IN
          rows[f.schedule][r].generation = f.generation =>
              Truly(f.schedule, r, step[r].state)

SettledInv == faults = 0 => \A r \in Runners : SettledOf(r)

\* Nothing of runner r has changed.
Untouched(r) ==
    /\ step'[r] = step[r] /\ cursor'[r] = cursor[r] /\ batch'[r] = batch[r]
    /\ \A s \in Schedules :
          /\ rows'[s][r] = rows[s][r]
          /\ installed'[s][r] = installed[s][r]
          /\ stored'[s][r] = stored[s][r]

\* Whatever is before the cursor or out of the batch is settled.
LEMMA SettledSuffices == TypesInv /\ TurnsInv /\ SettledInv => SettledRowsAgree
<1> SUFFICES ASSUME TypesInv, TurnsInv, SettledInv, faults = 0,
                    NEW s \in Schedules, NEW r \in Runners, CaughtUp(s, r),
                    \A a \in batch[r] : a.schedule # s
             PROVE  Truly(s, r, rows[s][r].state)
  BY DEF SettledRowsAgree, Truly
<1>1. ~AtHand(s, r)
  BY DEF AtHand
<1>2. ReconcileTypeOK
  BY DEF TypesInv
<1>3. ~IsLater(s, r) /\ rows[s][r] # Null
  BY <1>2, NumberTypes DEF CaughtUp, IsLater
<1> QED BY <1>1, <1>3 DEF SettledInv, SettledOf

\* A runner that nothing happens to.
LEMMA UntouchedSettled ==
    ASSUME TypesInv, NEW r \in Runners, SettledOf(r), Untouched(r)
    PROVE  SettledOf(r)'
<1>1. First(r)' = First(r)
  BY DEF Untouched, First
<1>2. \A a \in batch[r] : a.schedule \in Schedules
  BY DEF TypesInv, ReconcileTypeOK, Polled
<1>3. batch[r] # {} => First(r).schedule \in Schedules
  BY FirstIsLeast DEF TypesInv
<1>4. step[r].at = "report" => batch[r] # {}
  BY DEF TypesInv, ReconcileTypeOK, Polling
<1>5. \A s \in Schedules :
        /\ AtHand(s, r)' <=> AtHand(s, r)
        /\ IsLater(s, r)' <=> IsLater(s, r)
        /\ \A state : Truly(s, r, state)' <=> Truly(s, r, state)
  BY DEF Untouched, AtHand, IsLater, Truly
<1> QED BY <1>1, <1>2, <1>3, <1>4, <1>5 DEF SettledOf, Untouched

\* What an accepted PUT makes of the daemon's two versions.
LEMMA PutEffect ==
    ASSUME ReconcileTypeOK, NEW s \in Schedules, NEW r \in Runners,
           NEW v \in Version, Put(s, r, v), ~Rejects(s, r, v)
    PROVE  /\ stored'[s][r] = v
           /\ installed'[s][r] = IF Known(s, r, v) THEN installed[s][r] ELSE v
           /\ \A t \in Schedules, q \in Runners : t # s \/ q # r =>
                 /\ installed'[t][q] = installed[t][q]
                 /\ stored'[t][q] = stored[t][q]
<1> DEFINE w == IF Known(s, r, v) THEN installed[s][r] ELSE v
<1>1. stored' = [stored EXCEPT ![s][r] = v]
  BY DEF Put
<1>2. installed' = [installed EXCEPT ![s][r] = w]
  BY DEF Put
<1> HIDE DEF w
<1>3. /\ installed'[s][r] = w
      /\ \A t \in Schedules, q \in Runners :
            t # s \/ q # r => installed'[t][q] = installed[t][q]
  BY <1>2 DEF ReconcileTypeOK
<1>4. /\ stored'[s][r] = v
      /\ \A t \in Schedules, q \in Runners :
            t # s \/ q # r => stored'[t][q] = stored[t][q]
  BY <1>1 DEF ReconcileTypeOK
<1> QED BY <1>3, <1>4 DEF w

\* What the invariants say of the first of a batch.
LEMMA FirstSettled ==
    ASSUME TypesInv, TurnsInv, NEW r \in Runners, batch[r] # {}, SettledOf(r)
    PROVE  LET f == First(r)
               s == f.schedule
           IN  /\ f \in batch[r] /\ s \in Schedules /\ f.generation \in Nat
               /\ rows[s][r] # Null
               /\ rows[s][r].generation \in Nat
               /\ \/ rows[s][r].generation = f.generation /\ AtHand(s, r)
                  \/ rows[s][r].generation > f.generation /\ IsLater(s, r)
<1> DEFINE f == First(r)
<1>1. ReconcileTypeOK /\ BatchHasRows
  BY DEF TypesInv
<1>2. f \in batch[r] /\ f.schedule \in Schedules /\ f.generation \in Nat
  BY <1>1, FirstIsLeast
<1>3. f = [schedule |-> f.schedule, generation |-> f.generation]
  BY <1>1, <1>2 DEF ReconcileTypeOK, Polled
<1> HIDE DEF f
<1>4. rows[f.schedule][r] # Null
  BY <1>1, <1>2 DEF BatchHasRows
<1>5. rows[f.schedule][r].generation \in Nat
  BY <1>1, <1>2, <1>4, NumberTypes
<1>6. \/ rows[f.schedule][r].generation = f.generation
      \/ IsLater(f.schedule, r)
  BY <1>2 DEF SettledOf
<1>7. rows[f.schedule][r].generation = f.generation => AtHand(f.schedule, r)
  BY <1>2, <1>3 DEF AtHand
<1>8. IsLater(f.schedule, r) => rows[f.schedule][r].generation > f.generation
  BY <1>2, <1>5 DEF IsLater
<1> QED BY <1>2, <1>4, <1>5, <1>6, <1>7, <1>8 DEF f

\* A placement writes a row: it is later than all its runner has seen.
LEMMA UpsertSettles ==
    ASSUME TypesInv, TurnsInv, SettledInv, faults = 0,
           UNCHANGED <<step, cursor, batch, installed, stored>>,
           NEW p \in Placers, NEW r \in Runners, RowUpserted(p, r)
    PROVE  \A q \in Runners : SettledOf(q)'
<1>1. ReconcileTypeOK /\ SettledOf(r)
  BY DEF TypesInv, SettledInv
<1>0. PICK t \in Schedules : t = placer[p].schedule
  BY <1>1, NumberTypes DEF RowUpserted
<1>2. ASSUME NEW q \in Runners, q # r
      PROVE  SettledOf(q)'
  <2>1. Untouched(q)
    BY <1>2 DEF RowUpserted, Untouched
  <2> QED BY <2>1, UntouchedSettled DEF SettledInv
<1>3. /\ rows'[t][r] # Null
      /\ cursor[r] < rows'[t][r].generation
      /\ \A a \in batch[r] : a.generation < rows'[t][r].generation
      /\ \A s \in Schedules : s # t => rows'[s][r] = rows[s][r]
  BY <1>0, <1>1, NumberTypes DEF RowUpserted, TurnsInv, OrderInv
<1>4. IsLater(t, r)'
  BY <1>3 DEF IsLater
<1>5. \A s \in Schedules : s # t =>
        /\ AtHand(s, r)' <=> AtHand(s, r)
        /\ IsLater(s, r)' <=> IsLater(s, r)
        /\ \A state : Truly(s, r, state)' <=> Truly(s, r, state)
  BY <1>3 DEF AtHand, IsLater, Truly
<1>6. \A s \in Schedules : rows'[s][r] # Null =>
        AtHand(s, r)' \/ IsLater(s, r)' \/ Truly(s, r, rows[s][r].state)'
  BY <1>1, <1>3, <1>4, <1>5 DEF SettledOf
<1>7. \A a \in batch'[r] :
        \/ rows'[a.schedule][r].generation = a.generation
        \/ IsLater(a.schedule, r)'
  <2>1. \A a \in batch[r] : a.schedule \in Schedules
    BY <1>1, NumberTypes
  <2> QED BY <1>1, <1>3, <1>4, <1>5, <2>1 DEF SettledOf
<1>8. First(r)' = First(r)
  BY DEF First
<1>9. ASSUME step[r].at = "report", NEW f \in Polled, f = First(r),
             rows'[f.schedule][r].generation = f.generation
      PROVE  Truly(f.schedule, r, step[r].state)'
  <2>1. batch[r] # {}
    BY <1>1, <1>9 DEF ReconcileTypeOK, Polling
  <2>2. f \in batch[r] /\ f.schedule \in Schedules /\ f.generation \in Nat
    BY <1>1, <1>9, <2>1, FirstIsLeast
  <2>3. f.schedule # t
    BY <1>3, <1>9, <2>2, NumberTypes, <1>1
  <2>4. Truly(f.schedule, r, step[r].state)
    BY <1>1, <1>3, <1>9, <2>2, <2>3 DEF SettledOf
  <2> QED BY <1>5, <2>2, <2>3, <2>4
<1>10. step[r].at = "report" => First(r) \in Polled
  <2>1. step[r].at = "report" => batch[r] # {}
    BY <1>1 DEF ReconcileTypeOK, Polling
  <2> QED BY <1>1, <2>1, FirstIsLeast DEF ReconcileTypeOK
<1>11. SettledOf(r)'
  BY <1>6, <1>7, <1>8, <1>9, <1>10 DEF SettledOf
<1> QED BY <1>2, <1>11

\* A poll takes all that is after the cursor.
LEMMA PollSettles ==
    ASSUME TypesInv, SettledInv, faults = 0, NEW r \in Runners, Poll(r)
    PROVE  \A q \in Runners : SettledOf(q)'
<1>1. ReconcileTypeOK /\ SettledOf(r)
  BY DEF TypesInv, SettledInv
<1>2. /\ UNCHANGED <<rows, cursor, installed, stored>>
      /\ batch' = [batch EXCEPT ![r] = Later(r)]
      /\ step' = [step EXCEPT ![r] = Fetching]
      /\ batch[r] = {}
  BY <1>1 DEF Poll, ReconcileTypeOK, controllerVars, daemonVars
<1>3. ASSUME NEW q \in Runners, q # r
      PROVE  SettledOf(q)'
  <2>1. Untouched(q)
    BY <1>1, <1>2, <1>3 DEF Untouched, ReconcileTypeOK
  <2> QED BY <2>1, UntouchedSettled DEF SettledInv
<1>4. batch'[r] = Later(r) /\ step'[r].at # "report"
  BY <1>1, <1>2 DEF ReconcileTypeOK, Fetching
<1>5. \A s \in Schedules : rows[s][r] # Null =>
        \/ rows[s][r].generation > cursor[r]
        \/ Truly(s, r, rows[s][r].state)
  BY <1>1, <1>2, NumberTypes DEF SettledOf, AtHand, IsLater
<1>6. \A s \in Schedules :
        rows[s][r] # Null /\ rows[s][r].generation > cursor[r]
          => AtHand(s, r)'
  BY <1>2, <1>4 DEF Later, AtHand
<1>7. \A s \in Schedules : \A state : Truly(s, r, state)' <=> Truly(s, r, state)
  BY <1>2 DEF Truly
<1>8. \A a \in batch'[r] : rows'[a.schedule][r].generation = a.generation
  BY <1>2, <1>4 DEF Later
<1>9. SettledOf(r)'
  BY <1>2, <1>4, <1>5, <1>6, <1>7, <1>8 DEF SettledOf
<1> QED BY <1>3, <1>9

\* The loop is at work on the first of its batch: what it is about to report
\* is true of the generation it was about, and nothing else has changed.
LEMMA WorkSettles ==
    ASSUME TypesInv, TurnsInv, SettledInv, faults = 0, NEW r \in Runners,
           batch[r] # {}, NEW f, f = First(r), NEW state,
           UNCHANGED <<rows, cursor, batch>>,
           \A q \in Runners \ {r} : step'[q] = step[q],
           \A s \in Schedules, q \in Runners :
              s # f.schedule \/ q # r =>
                 /\ installed'[s][q] = installed[s][q]
                 /\ stored'[s][q] = stored[s][q],
           step'[r].at = "report" => step'[r].state = state,
           /\ step'[r].at = "report"
           /\ rows[f.schedule][r].generation = f.generation
           => Truly(f.schedule, r, state)'
    PROVE  \A q \in Runners : SettledOf(q)'
<1>1. SettledOf(r)
  BY DEF SettledInv
<1>2. ASSUME NEW q \in Runners, q # r
      PROVE  SettledOf(q)'
  <2>1. Untouched(q)
    BY <1>2 DEF Untouched
  <2> QED BY <2>1, UntouchedSettled DEF SettledInv
<1>3. /\ f \in batch[r] /\ f.schedule \in Schedules
      /\ AtHand(f.schedule, r) \/ IsLater(f.schedule, r)
  BY <1>1, FirstSettled
<1>4. First(r)' = f
  BY DEF First
<1>5. \A s \in Schedules :
        (AtHand(s, r)' <=> AtHand(s, r)) /\ (IsLater(s, r)' <=> IsLater(s, r))
  BY DEF AtHand, IsLater
<1>6. \A s \in Schedules : s # f.schedule =>
        \A st : Truly(s, r, st)' <=> Truly(s, r, st)
  BY DEF Truly
<1>7. \A s \in Schedules : rows'[s][r] # Null =>
        AtHand(s, r)' \/ IsLater(s, r)' \/ Truly(s, r, rows[s][r].state)'
  BY <1>1, <1>3, <1>5, <1>6 DEF SettledOf
<1>8. \A a \in batch'[r] :
        \/ rows'[a.schedule][r].generation = a.generation
        \/ IsLater(a.schedule, r)'
  <2>1. \A a \in batch[r] : a.schedule \in Schedules
    BY NumberTypes DEF TypesInv
  <2> QED BY <1>1, <1>5, <2>1 DEF SettledOf
<1>9. SettledOf(r)'
  BY <1>4, <1>7, <1>8 DEF SettledOf
<1> QED BY <1>2, <1>9

\* A report is true of the row, or the row is later and will be polled again.
LEMMA ReportSettles ==
    ASSUME TypesInv, TurnsInv, SettledInv, faults = 0, NEW r \in Runners,
           Report(r)
    PROVE  \A q \in Runners : SettledOf(q)'
<1>1. ReconcileTypeOK /\ BatchHasRows /\ SettledOf(r)
  BY DEF TypesInv, SettledInv
<1>2. batch[r] # {} /\ step[r].at = "report"
  BY <1>1 DEF Report, ReconcileTypeOK, Polling
<1>3. PICK f \in batch[r] : f = First(r)
  BY <1>1, <1>2, FirstIsLeast
<1>0. PICK state : state = step[r].state
  OBVIOUS
<1> DEFINE s == f.schedule
<1>4. /\ s \in Schedules /\ f.generation \in Nat /\ rows[s][r] # Null
      /\ rows[s][r].generation \in Nat
      /\ \/ rows[s][r].generation = f.generation /\ AtHand(s, r)
         \/ rows[s][r].generation > f.generation /\ IsLater(s, r)
  BY <1>1, <1>2, <1>3, FirstSettled
<1>5. RowObserved(s, r, state)
  <2>1. step[r] \in LoopState
    BY <1>1 DEF ReconcileTypeOK
  <2>2. state \in AssignmentStates
    BY <1>0, <1>2, <2>1 DEF LoopState, Polling, Fetching, Removing
  <2>3. ControllerTypeOK /\ Observe(s, r, state)
    BY <1>0, <1>1, <1>3 DEF ReconcileTypeOK, Report
  <2> QED BY <1>4, <2>2, <2>3, ObserveEffect
<1>6. rows[s][r].generation = f.generation => Truly(s, r, state)
  BY <1>0, <1>1, <1>2, <1>3 DEF SettledOf
<1> HIDE DEF s
<1>7. /\ batch'[r] = batch[r] \ {f}
      /\ \/ cursor'[r] = cursor[r]
         \/ batch'[r] = {} /\ cursor'[r] = f.generation
      /\ step'[r].at # "report"
      /\ \A q \in Runners \ {r} :
            /\ batch'[q] = batch[q] /\ cursor'[q] = cursor[q]
            /\ step'[q] = step[q]
      /\ UNCHANGED <<installed, stored>>
  BY <1>1, <1>3 DEF Report, TurnToNext, Goto, ReconcileTypeOK, Polling,
                    Fetching, daemonVars
<1>8. ASSUME NEW q \in Runners, q # r
      PROVE  SettledOf(q)'
  <2>1. Untouched(q)
    BY <1>5, <1>7, <1>8 DEF Untouched, RowObserved
  <2> QED BY <2>1, UntouchedSettled DEF SettledInv
<1>9. \A t \in Schedules :
        /\ rows'[t][r] # Null <=> rows[t][r] # Null
        /\ rows[t][r] # Null =>
              rows'[t][r].generation = rows[t][r].generation
        /\ t # s => rows'[t][r] = rows[t][r]
  BY <1>4, <1>5 DEF RowObserved
<1>10. ASSUME NEW t \in Schedules, rows[t][r] # Null, IsLater(t, r)
       PROVE  IsLater(t, r)'
  <2>1. f.generation < rows[t][r].generation
    BY <1>3, <1>10 DEF IsLater
  <2> QED BY <1>7, <1>9, <1>10, <2>1 DEF IsLater
<1>11. ASSUME NEW t \in Schedules, rows[t][r] # Null
       PROVE  AtHand(t, r)' \/ IsLater(t, r)' \/ Truly(t, r, rows[t][r].state)'
  <2>1. CASE t = s
    <3>1. CASE rows[s][r].generation = f.generation
      <4>1. Truly(s, r, state)'
        BY <1>4, <1>6, <1>7, <1>9, <3>1 DEF Truly
      <4>2. rows'[s][r].state = state
        BY <1>5 DEF RowObserved
      <4> QED BY <2>1, <4>1, <4>2
    <3>2. CASE IsLater(s, r)
      BY <1>10, <1>11, <2>1, <3>2
    <3> QED BY <1>4, <3>1, <3>2
  <2>2. CASE t # s
    <3>1. CASE AtHand(t, r)
      BY <1>7, <1>9, <1>11, <2>2, <3>1 DEF AtHand, s
    <3>2. CASE IsLater(t, r)
      BY <1>10, <1>11, <3>2
    <3>3. CASE Truly(t, r, rows[t][r].state)
      BY <1>7, <1>9, <1>11, <2>2, <3>3 DEF Truly
    <3> QED BY <1>1, <1>11, <3>1, <3>2, <3>3 DEF SettledOf
  <2> QED BY <2>1, <2>2
<1>12. ASSUME NEW a \in batch'[r]
       PROVE  \/ rows'[a.schedule][r].generation = a.generation
              \/ IsLater(a.schedule, r)'
  <2>1. a \in batch[r] /\ a.schedule \in Schedules
    BY <1>1, <1>7, <1>12, NumberTypes
  <2>2. rows[a.schedule][r] # Null
    BY <1>1, <2>1 DEF BatchHasRows
  <2> QED BY <1>1, <1>9, <1>10, <2>1, <2>2 DEF SettledOf
<1>13. SettledOf(r)'
  BY <1>7, <1>9, <1>11, <1>12 DEF SettledOf
<1> QED BY <1>8, <1>13

\* Restarts: a runner will poll everything again, a daemon comes back with
\* what it has stored.
LEMMA RestartSettles ==
    ASSUME TypesInv, TurnsInv, SettledInv, faults = 0,
           NEW r \in Runners, RestartRunner(r) \/ RestartDaemon(r)
    PROVE  \A q \in Runners : SettledOf(q)'
<1>1. ReconcileTypeOK /\ SettledOf(r)
  BY DEF TypesInv, SettledInv
<1>2. CASE RestartRunner(r)
  <2>1. /\ UNCHANGED <<rows, installed, stored>>
        /\ batch'[r] = {} /\ cursor'[r] = 0 /\ step'[r].at # "report"
        /\ \A q \in Runners \ {r} :
              /\ batch'[q] = batch[q] /\ cursor'[q] = cursor[q]
              /\ step'[q] = step[q]
    BY <1>1, <1>2 DEF RestartRunner, ReconcileTypeOK, Polling, controllerVars,
                      daemonVars
  <2>2. \A q \in Runners \ {r} : SettledOf(q)'
    BY <2>1, UntouchedSettled DEF Untouched, SettledInv
  <2>3. \A s \in Schedules : rows'[s][r] # Null => IsLater(s, r)'
    BY <1>1, <2>1, NumberTypes DEF TurnsInv, OrderInv, IsLater
  <2>4. SettledOf(r)'
    BY <2>1, <2>3 DEF SettledOf
  <2> QED BY <2>2, <2>4
<1>3. CASE RestartDaemon(r)
  <2>1. UNCHANGED <<rows, stored, step, cursor, batch>>
    BY <1>3 DEF RestartDaemon, controllerVars, loopVars
  <2>2. \A s \in Schedules :
          /\ installed'[s][r] =
                IF stored[s][r] # Null /\ stored[s][r].spec \notin BadSpecs
                  THEN stored[s][r] ELSE Null
          /\ \A q \in Runners \ {r} : installed'[s][q] = installed[s][q]
    BY <1>1, <1>3 DEF RestartDaemon, ReconcileTypeOK
  <2>3. \A q \in Runners \ {r} : SettledOf(q)'
    BY <2>1, <2>2, UntouchedSettled DEF Untouched, SettledInv
  <2>4. First(r)' = First(r)
    BY <2>1 DEF First
  <2>5. \A s \in Schedules :
          /\ AtHand(s, r)' <=> AtHand(s, r)
          /\ IsLater(s, r)' <=> IsLater(s, r)
          /\ \A state : Truly(s, r, state) => Truly(s, r, state)'
    BY <2>1, <2>2 DEF AtHand, IsLater, Truly
  <2>6. /\ \A a \in batch[r] : a.schedule \in Schedules
        /\ step[r].at = "report" => First(r).schedule \in Schedules
    BY <1>1, NumberTypes, FirstIsLeast DEF ReconcileTypeOK, Polling
  <2>7. SettledOf(r)'
    BY <1>1, <2>1, <2>4, <2>5, <2>6 DEF SettledOf
  <2> QED BY <2>3, <2>7
<1> QED BY <1>2, <1>3

\* The calls on the schedule and the daemon, of which none fails.
LEMMA CallSettles ==
    ASSUME TypesInv, TurnsInv, SettledInv, faults = 0,
           NEW r \in Runners, Fetch(r) \/ Apply(r) \/ Delete(r)
    PROVE  \A q \in Runners : SettledOf(q)'
<1>1. ReconcileTypeOK /\ SettledOf(r)
  BY DEF TypesInv, SettledInv
<1>2. batch[r] # {}
  BY <1>1 DEF Fetch, Apply, Delete, ReconcileTypeOK, Polling, Fetching,
              Removing
<1>3. PICK f \in batch[r] : f = First(r)
  BY <1>1, <1>2, FirstIsLeast
<1>4. /\ f.schedule \in Schedules /\ f.generation \in Nat
      /\ rows[f.schedule][r] # Null
  BY <1>1, <1>2, <1>3, FirstSettled
<1>5. /\ UNCHANGED <<rows, cursor, batch>>
      /\ \A q \in Runners \ {r} : step'[q] = step[q]
  BY <1>1 DEF Fetch, Apply, Delete, Goto, ReconcileTypeOK, controllerVars
<1>6. CASE Fetch(r)
  <2>1. /\ step'[r].at = "report" => step'[r].state = "rejected"
        /\ UNCHANGED <<installed, stored>>
    BY <1>1, <1>6 DEF Fetch, Goto, ReconcileTypeOK, Applying, Removing,
                      Reporting, daemonVars
  <2>2. Truly(f.schedule, r, "rejected")'
    BY DEF Truly
  <2> QED BY <1>2, <1>3, <1>5, <2>1, <2>2, WorkSettles
<1>9. ASSUME Apply(r), Rejects(f.schedule, r, Offered(r))
      PROVE  \A q \in Runners : SettledOf(q)'
  <2>1. Put(f.schedule, r, Offered(r))
    BY <1>3, <1>9 DEF Apply
  <2>2. UNCHANGED <<installed, stored>>
    BY <1>9, <2>1 DEF Put, daemonVars
  <2>3. step'[r].state = "rejected"
    BY <1>1, <1>3, <1>9 DEF Apply, Goto, Reporting, ReconcileTypeOK
  <2>4. Truly(f.schedule, r, "rejected")'
    BY DEF Truly
  <2> QED BY <1>2, <1>3, <1>5, <2>2, <2>3, <2>4, WorkSettles
<1>7. ASSUME Apply(r), ~Rejects(f.schedule, r, Offered(r))
      PROVE  \A q \in Runners : SettledOf(q)'
  <2>1. Offered(r) \in Version /\ Offered(r).generation = f.generation
    <3>1. step[r] \in LoopState /\ step[r].at = "apply"
      BY <1>1, <1>7 DEF Apply, ReconcileTypeOK
    <3>2. step[r].spec \in Specs
      BY <3>1 DEF LoopState, Polling, Fetching, Removing
    <3> QED BY <1>3, <1>4, <3>2 DEF Offered, Version
  <2>2. PICK v \in Version : v = Offered(r)
    BY <2>1
  <2>3. ~Rejects(f.schedule, r, v) /\ Put(f.schedule, r, v)
    BY <1>3, <1>7, <2>2 DEF Apply
  <2>4. step'[r] = Reporting("applied")
    BY <1>1, <1>3, <1>7, <2>2, <2>3 DEF Apply, Goto, ReconcileTypeOK
  <2>5. /\ stored'[f.schedule][r] = v
        /\ installed'[f.schedule][r] =
              IF Known(f.schedule, r, v) THEN installed[f.schedule][r] ELSE v
        /\ \A s \in Schedules, q \in Runners : s # f.schedule \/ q # r =>
              /\ installed'[s][q] = installed[s][q]
              /\ stored'[s][q] = stored[s][q]
    BY <1>1, <1>4, <2>3, PutEffect
  <2>6. rows[f.schedule][r].generation = f.generation
          => Truly(f.schedule, r, "applied")'
    <3> SUFFICES ASSUME rows[f.schedule][r].generation = f.generation
                 PROVE  Truly(f.schedule, r, "applied")'
      OBVIOUS
    <3>1. v # Null /\ v.generation = f.generation
      BY <2>1, <2>2, ReconcileAssumption DEF Version
    <3>2. Known(f.schedule, r, v) =>
            /\ installed[f.schedule][r] # Null
            /\ installed[f.schedule][r].generation = f.generation
      <4> SUFFICES ASSUME Known(f.schedule, r, v)
                   PROVE  /\ installed[f.schedule][r] # Null
                          /\ installed[f.schedule][r].generation
                               = f.generation
        OBVIOUS
      <4>1. /\ installed[f.schedule][r] # Null
            /\ installed[f.schedule][r].generation >= f.generation
        BY <3>1 DEF Known
      <4>2. installed[f.schedule][r].generation <= f.generation
        BY <1>4, <4>1 DEF TurnsInv, DaemonNeverAhead
      <4>3. installed[f.schedule][r].generation \in Nat
        BY <1>1, <1>4, <4>1, NumberTypes
      <4> QED BY <1>4, <4>1, <4>2, <4>3
    <3> QED BY <1>5, <2>5, <3>1, <3>2 DEF Truly
  <2>7. step'[r].state = "applied"
    BY <2>4 DEF Reporting
  <2> QED BY <1>2, <1>3, <1>5, <2>5, <2>6, <2>7, WorkSettles
<1>8. CASE Delete(r)
  <2>1. Forget(f.schedule, r)
    BY <1>3, <1>8 DEF Delete
  <2>2. /\ installed'[f.schedule][r] = Null /\ stored'[f.schedule][r] = Null
        /\ \A s \in Schedules, q \in Runners : s # f.schedule \/ q # r =>
              /\ installed'[s][q] = installed[s][q]
              /\ stored'[s][q] = stored[s][q]
    BY <1>1, <1>4, <2>1 DEF Forget, ReconcileTypeOK
  <2>3. step'[r].state = "removed"
    BY <1>1, <1>8 DEF Delete, Goto, Reporting, ReconcileTypeOK
  <2>4. Truly(f.schedule, r, "removed")'
    BY <2>2 DEF Truly
  <2> QED BY <1>2, <1>3, <1>5, <2>2, <2>3, <2>4, WorkSettles
<1> QED BY <1>6, <1>7, <1>8, <1>9

\* Every step keeps rows true while placements take turns.
LEMMA SettledKept ==
    ASSUME TypesInv, TurnsInv, SettledInv,
           [ReconcileNext]_reconcileVars
    PROVE  SettledInv'
<1> SUFFICES ASSUME faults' = 0
             PROVE  \A q \in Runners : SettledOf(q)'
  BY DEF SettledInv
<1>1. ReconcileTypeOK /\ faults \in Nat
  BY NumberTypes DEF TypesInv
<1>2. CASE UNCHANGED <<rows, step, cursor, batch, installed, stored, faults>>
  BY <1>2, UntouchedSettled DEF Untouched, SettledInv
<1>3. CASE ControllerStep /\ UNCHANGED <<loopVars, daemonVars, restartVars>>
  <2>1. /\ faults = 0
        /\ \/ Quiet
           \/ \E p \in Placers : Selected(p)
           \/ \E p \in Placers, r \in Runners : RowUpserted(p, r)
    BY <1>1, <1>3, ControllerEffect DEF ReconcileTypeOK, NoFaultBefore
  <2>2. UNCHANGED <<step, cursor, batch, installed, stored>>
    BY <1>3 DEF loopVars, daemonVars
  <2>3. CASE \E p \in Placers, r \in Runners : RowUpserted(p, r)
    BY <2>1, <2>2, <2>3, UpsertSettles
  <2>4. CASE UNCHANGED rows
    BY <2>1, <2>2, <2>4, UntouchedSettled DEF Untouched, SettledInv
  <2> QED BY <2>1, <2>3, <2>4 DEF Quiet, Selected
<1>4. ASSUME NEW r \in Runners, RunnerStep(r)
      PROVE  \A q \in Runners : SettledOf(q)'
  <2>1. ~Fault
    BY <1>1 DEF Fault
  <2>2. CASE Poll(r)
    <3>1. faults = 0
      BY <2>2 DEF Poll, controllerVars
    <3> QED BY <2>2, <3>1, PollSettles
  <2>3. CASE Fetch(r) \/ Apply(r) \/ Delete(r)
    <3>1. faults = 0
      BY <2>3 DEF Fetch, Apply, Delete, controllerVars
    <3> QED BY <2>3, <3>1, CallSettles
  <2>4. CASE Report(r)
    <3>1. faults = 0
      BY <2>4 DEF Report
    <3> QED BY <2>4, <3>1, ReportSettles
  <2> QED BY <1>4, <2>1, <2>2, <2>3, <2>4
          DEF RunnerStep, FetchFails, ApplyFails, DeleteFails, ReportFails
<1>5. ASSUME NEW r \in Runners, RestartRunner(r) \/ RestartDaemon(r)
      PROVE  \A q \in Runners : SettledOf(q)'
  <2>1. faults = 0
    BY <1>5 DEF RestartRunner, RestartDaemon, controllerVars
  <2> QED BY <1>5, <2>1, RestartSettles
<1> QED BY <1>2, <1>3, <1>4, <1>5
        DEF ReconcileNext, reconcileVars, controllerVars, loopVars, daemonVars

\* Every variable of controller, runners and daemons has its type in every
\* reachable state.
THEOREM TypeCorrect == ReconcileSpec => []ReconcileTypeOK
<1>1. ReconcileInit => TypesInv
  BY InitHolds
<1>2. TypesInv /\ [ReconcileNext]_reconcileVars => TypesInv'
  BY TypesInductive DEF TypesInv
<1>3. TypesInv => ReconcileTypeOK
  BY DEF TypesInv
<1> QED BY <1>1, <1>2, <1>3, PTL DEF ReconcileSpec

\* While the clock is steady and placements take turns, no daemon runs a
\* generation ahead of its row, whatever calls are lost and whatever restarts.
THEOREM DaemonNeverAheadHolds ==
    SteadyReconcileSpec /\ []PlacementsTakeTurns => []DaemonNeverAhead
<1>1. ReconcileInit => TypesInv /\ TurnsInv
  BY InitHolds
<1>2. /\ TypesInv
      /\ [ReconcileNext /\ ReadingsIncrease]_reconcileVars
      => TypesInv'
  BY TypesInductive DEF TypesInv
<1>3. TurnsInv => DaemonNeverAhead
  BY DEF TurnsInv
<1> QED BY <1>1, <1>2, <1>3, TurnsKept, PTL DEF SteadyReconcileSpec

\* While the clock is steady, placements take turns and no call fails, no
\* runner's cursor passes a row that it has not handled.
THEOREM NoneSkippedHolds ==
    SteadyReconcileSpec /\ []PlacementsTakeTurns => []NoneSkipped
<1>1. ReconcileInit => TypesInv /\ TurnsInv
  BY InitHolds
<1>2. /\ TypesInv
      /\ [ReconcileNext /\ ReadingsIncrease]_reconcileVars
      => TypesInv'
  BY TypesInductive DEF TypesInv
<1>3. TurnsInv => NoneSkipped
  BY DEF TurnsInv
<1> QED BY <1>1, <1>2, <1>3, TurnsKept, PTL DEF SteadyReconcileSpec

\* While the clock is steady, placements take turns and no call fails, a row
\* whose runner has caught up says "applied" only of the generation the daemon
\* has stored, and runs unless it refuses the expression, and "removed" only of
\* what it does not run.
THEOREM SettledRowsAgreeHolds ==
    SteadyReconcileSpec /\ []PlacementsTakeTurns => []SettledRowsAgree
<1>1. ReconcileInit => TypesInv /\ TurnsInv /\ SettledInv
  <2>1. ReconcileInit => SettledInv
    BY DEF ReconcileInit, ControllerInit, Nothing, Polling, SettledInv,
           SettledOf
  <2> QED BY <2>1, InitHolds
<1>2. /\ TypesInv
      /\ [ReconcileNext /\ ReadingsIncrease]_reconcileVars
      => TypesInv'
  BY TypesInductive DEF TypesInv
<1>3. /\ TypesInv /\ TurnsInv /\ SettledInv
      /\ [ReconcileNext /\ ReadingsIncrease]_reconcileVars
      => SettledInv'
  BY SettledKept
<1> QED BY <1>1, <1>2, <1>3, TurnsKept, SettledSuffices, PTL DEF SteadyReconcileSpec
=============================================================================

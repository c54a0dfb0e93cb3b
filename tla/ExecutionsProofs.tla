-------------------------- MODULE ExecutionsProofs --------------------------
(***************************************************************************)
(* What is proved of executions, their output and the audit trail for any  *)
(* number of requests, statements that fail, chunks and pages.             *)
(*                                                                         *)
(* Types need that a batch in progress is not empty and that the audit     *)
(* trail is finite.  That accepted output stays follows from what a        *)
(* request has saved so far (SavedSoFar) and from where payloads come      *)
(* from (LogsWereSubmitted).  That a walk over the pages misses nothing    *)
(* follows from what is behind its cursor (WalkInv).                       *)
(***************************************************************************)
EXTENDS Executions, SequenceTheorems, FiniteSetTheorems, WellFoundedInduction,
        TLAPS

USE ExecutionsAssumption

-----------------------------------------------------------------------------
(* Types.                                                                  *)

EventSteps == {"create", "read", "update"}

\* A request that goes through a batch has not come to its end.
BatchesLeft ==
    \A h \in Handlers :
        request[h].at \in EventSteps \cup {"get", "save"} =>
            request[h].rest # <<>>

RequestsOK == request \in [Handlers -> Request] /\ BatchesLeft

\* The part of TypeOK that is about the rows of executions.
RowsOK ==
    /\ executions \in [Ids -> Row \cup {None}]
    /\ \A id \in Ids : executions[id] # None =>
          /\ executions[id].finished <=> isTerminal(executions[id].state)
          /\ executions[id].started => executions[id].state = "running"
          /\ executions[id].message = None => executions[id].state = "queued"

AuditEvent == [id: Nat, time: 0 .. MaxTime]

AuditOK == audit \subseteq AuditEvent /\ IsFiniteSet(audit)

WalkOK ==
    walk \in {NoWalk}
      \cup [at: {"page", "done"}, cursor: Nat \cup {None},
            start: SUBSET AuditEvent, seen: SUBSET AuditEvent, twice: BOOLEAN]

TypeInv ==
    /\ RowsOK
    /\ logs \subseteq LogChunk
    /\ AuditOK
    /\ RequestsOK
    /\ answered \subseteq Event
    /\ acked \subseteq Chunks /\ submitted \subseteq Chunks
    /\ WalkOK
    /\ now \in 0 .. MaxTime
    /\ requests \in 0 .. MaxRequests
    /\ failures \in 0 .. MaxFailures

\* The type invariant of Executions is a consequence.
LEMMA TypeInvIsTypeOK == TypeInv => TypeOK
BY DEF TypeInv, TypeOK, RowsOK, AuditOK, AuditEvent, RequestsOK, WalkOK, NoWalk

\* What follows the first of a batch.
LEMMA BatchTail ==
    ASSUME NEW S, NEW batch \in Seq(S), batch # <<>>
    PROVE  /\ Head(batch) \in S /\ Tail(batch) \in Seq(S)
           /\ Len(batch) > 1 => Tail(batch) # <<>>
<1>1. Head(batch) \in S /\ Tail(batch) \in Seq(S)
  BY HeadTailProperties
<1>2. Len(Tail(batch)) = Len(batch) - 1
  BY HeadTailProperties
<1>3. Len(batch) > 1 => Len(Tail(batch)) # 0
  BY <1>2, LenProperties
<1>4. Len(batch) > 1 => Tail(batch) # <<>>
  BY <1>3
<1> QED BY <1>1, <1>4

\* What a request of each kind has.
LEMMA RequestFields ==
    ASSUME NEW r \in Request
    PROVE  /\ r.at = "get" => r.rest \in Seq(Event) /\ r.all \in Seq(Event)
           /\ r.at \in EventSteps =>
                 /\ r.rest \in Seq(Event) /\ r.all \in Seq(Event)
                 /\ r.id \in Ids
           /\ r.at = "cancel" => r.id \in Ids
           /\ r.at = "audit" => r.time \in 0 .. MaxTime
           /\ r.at = "save" =>
                 /\ r.rest \in Seq(Chunks) /\ r.all \in Seq(Chunks)
                 /\ r = [at |-> "save", rest |-> r.rest, all |-> r.all]
<1> DEFINE Gets == [at: {"get"}, rest: Seq(Event), all: Seq(Event)]
           Steps == [at: EventSteps, rest: Seq(Event), all: Seq(Event), id: Ids]
           Saves == [at: {"save"}, rest: Seq(Chunks), all: Seq(Chunks)]
           Cancels == [at: {"cancel"}, id: Ids]
           Audits == [at: {"audit"}, time: 0 .. MaxTime]
<1>1. \/ r = Idle \/ r \in Gets \/ r \in Steps \/ r \in Saves
      \/ r \in Cancels \/ r \in Audits
  BY DEF Request, EventSteps
<1>2. CASE r = Idle
  BY <1>2 DEF Idle, EventSteps
<1>3. CASE r \in Gets
  BY <1>3 DEF EventSteps
<1>4. CASE r \in Steps
  BY <1>4 DEF EventSteps
<1>5. CASE r \in Saves
  BY <1>5 DEF EventSteps
<1>6. CASE r \in Cancels
  BY <1>6 DEF EventSteps
<1>7. CASE r \in Audits
  BY <1>7 DEF EventSteps
<1> QED BY <1>1, <1>2, <1>3, <1>4, <1>5, <1>6, <1>7

\* What the types say of a request that goes through a batch of events.
LEMMA EventFields ==
    ASSUME RequestsOK, NEW h \in Handlers,
           request[h].at \in EventSteps \cup {"get"}
    PROVE  /\ request[h].rest \in Seq(Event) /\ request[h].rest # <<>>
           /\ request[h].all \in Seq(Event)
           /\ Head(request[h].rest) \in Event
           /\ Tail(request[h].rest) \in Seq(Event)
           /\ Len(request[h].rest) > 1 => Tail(request[h].rest) # <<>>
           /\ request[h].at \in EventSteps => request[h].id \in Ids
<1>1. request[h] \in Request /\ request[h].rest # <<>>
  BY DEF RequestsOK, BatchesLeft
<1>2. /\ request[h].rest \in Seq(Event) /\ request[h].all \in Seq(Event)
      /\ request[h].at \in EventSteps => request[h].id \in Ids
  BY <1>1, RequestFields
<1> QED BY <1>1, <1>2, BatchTail

\* What they say of one that goes through a batch of chunks.
LEMMA ChunkFields ==
    ASSUME RequestsOK, NEW h \in Handlers, At(h, "save")
    PROVE  /\ request[h].rest \in Seq(Chunks) /\ request[h].rest # <<>>
           /\ request[h].all \in Seq(Chunks)
           /\ Head(request[h].rest) \in Chunks
           /\ Head(request[h].rest) \in LogChunk
           /\ Tail(request[h].rest) \in Seq(Chunks)
           /\ Len(request[h].rest) > 1 => Tail(request[h].rest) # <<>>
           /\ request[h] = [at |-> "save", rest |-> request[h].rest,
                            all |-> request[h].all]
<1>1. request[h] \in Request /\ request[h].rest # <<>>
  BY DEF RequestsOK, BatchesLeft, At
<1>2. /\ request[h].rest \in Seq(Chunks) /\ request[h].all \in Seq(Chunks)
      /\ request[h] = [at |-> "save", rest |-> request[h].rest,
                       all |-> request[h].all]
  BY <1>1, RequestFields DEF At
<1> QED BY <1>1, <1>2, BatchTail

\* What they say of the others.
LEMMA OtherFields ==
    ASSUME RequestsOK, NEW h \in Handlers
    PROVE  /\ At(h, "cancel") => request[h].id \in Ids
           /\ At(h, "audit") => request[h].time \in 0 .. MaxTime
BY RequestFields DEF RequestsOK, At

\* A request that becomes one of these keeps the types of all.
LEMMA BecomeTypes ==
    ASSUME RequestsOK, NEW h \in Handlers, NEW r \in Request, Become(h, r),
           r.at \in EventSteps \cup {"get", "save"} => r.rest # <<>>
    PROVE  RequestsOK'
BY DEF RequestsOK, BatchesLeft, Become

\* The loop over the events turns to the next one.
LEMMA NextEventTypes ==
    ASSUME RequestsOK, answered \subseteq Event, NEW h \in Handlers,
           request[h].at \in EventSteps \cup {"get"}, NextEvent(h)
    PROVE  RequestsOK' /\ answered' \subseteq Event
<1> DEFINE next == [at |-> "get", rest |-> Tail(request[h].rest),
                    all |-> request[h].all]
<1>1. CASE Len(request[h].rest) > 1
  <2>1. next \in Request /\ next.rest # <<>>
    BY <1>1, EventFields DEF Request
  <2>2. Become(h, next) /\ answered' = answered
    BY <1>1 DEF NextEvent
  <2> QED BY <2>1, <2>2, BecomeTypes
<1>2. CASE ~(Len(request[h].rest) > 1)
  <2>1. /\ Become(h, Idle)
        /\ answered' = answered \cup {request[h].all[i] :
                                        i \in DOMAIN request[h].all}
    BY <1>2 DEF NextEvent
  <2>2. \A i \in DOMAIN request[h].all : request[h].all[i] \in Event
    BY EventFields, ElementOfSeq
  <2>3. Idle \in Request /\ Idle.at \notin EventSteps \cup {"get", "save"}
    BY DEF Idle, Request, EventSteps
  <2> QED BY <2>1, <2>2, <2>3, BecomeTypes
<1> QED BY <1>1, <1>2

\* A handler turns to a statement about the execution id.
LEMMA HandleTypes ==
    ASSUME RequestsOK, NEW h \in Handlers, NEW id \in Ids,
           request[h].at \in EventSteps \cup {"get"},
           NEW step \in EventSteps, Handle(h, step, id)
    PROVE  RequestsOK'
<1> DEFINE next == [at |-> step, rest |-> request[h].rest,
                    all |-> request[h].all, id |-> id]
<1>1. next \in Request /\ next.rest # <<>>
  BY EventFields DEF Request, EventSteps
<1> QED BY <1>1, BecomeTypes DEF Handle

\* An UPDATE keeps what rows say of themselves.
LEMMA UpdateKeepsRows ==
    ASSUME RowsOK, NEW id \in Ids, NEW state \in States,
           NEW started \in BOOLEAN, NEW finished \in BOOLEAN,
           finished <=> isTerminal(state), started => state = "running",
           UpdateExecutionState(id, state, started, finished)
    PROVE  RowsOK'
<1>1. executions' =
        [executions EXCEPT ![id] =
            IF @ = None THEN None
            ELSE [@ EXCEPT !.state = state, !.started = started,
                           !.finished = finished, !.message = "set"]]
  BY DEF UpdateExecutionState
<1>2. \A i \in Ids : i # id => executions'[i] = executions[i]
  BY <1>1 DEF RowsOK
<1>3. CASE executions[id] = None
  <2>1. executions'[id] = None
    BY <1>1, <1>3 DEF RowsOK
  <2>2. executions' = executions
    BY <1>1, <1>3, <2>1 DEF RowsOK
  <2> QED BY <2>2 DEF RowsOK
<1>4. CASE executions[id] # None
  <2>1. executions[id] \in Row
    BY <1>4 DEF RowsOK
  <2>2. /\ executions'[id] \in Row
        /\ executions'[id].finished = finished
        /\ executions'[id].started = started
        /\ executions'[id].state = state
        /\ executions'[id].message = "set"
    BY <1>1, <1>4, <2>1 DEF RowsOK, Row
  <2>3. executions' \in [Ids -> Row \cup {None}]
    BY <1>1, <1>2, <2>2 DEF RowsOK
  <2>4. None # "set"
    OBVIOUS
  <2> QED BY <1>2, <2>2, <2>3, <2>4 DEF RowsOK
<1> QED BY <1>3, <1>4

\* The handlers' steps of events.
LEMMA EventTypes ==
    ASSUME TypeInv, NEW h \in Handlers,
           \/ \E events \in EventBatches : SubmitExecutionEvents(h, events)
           \/ GetExecution(h) \/ CreateExecution(h) \/ ReadBack(h)
           \/ UpdateEvent(h)
    PROVE  TypeInv'
<1> USE DEF TypeInv
<1>1. ASSUME NEW events \in EventBatches, SubmitExecutionEvents(h, events)
      PROVE  TypeInv'
  <2> DEFINE first == [at |-> "get", rest |-> events, all |-> events]
  <2>1. first \in Request /\ first.rest # <<>>
    BY DEF Request
  <2>2. Become(h, first) /\ requests' \in 0 .. MaxRequests
    BY <1>1 DEF SubmitExecutionEvents, Receive
  <2>3. RequestsOK'
    BY <2>1, <2>2, BecomeTypes
  <2> HIDE DEF first
  <2> QED BY <1>1, <2>2, <2>3
          DEF SubmitExecutionEvents, Receive, rowVars, RowsOK, AuditOK, WalkOK
<1>2. CASE GetExecution(h)
  <2> DEFINE id == Head(request[h].rest).execution
  <2>1. request[h].at = "get"
    BY <1>2 DEF GetExecution, At
  <2>2. id \in Ids
    BY <2>1, EventFields DEF Event
  <2>3. \E step \in EventSteps : Handle(h, step, id)
    BY <1>2 DEF GetExecution, EventSteps
  <2>4. RequestsOK'
    BY <2>1, <2>2, <2>3, HandleTypes
  <2>5. failures' \in 0 .. MaxFailures
    BY <1>2 DEF GetExecution, Fails
  <2> HIDE DEF id
  <2> QED BY <1>2, <2>4, <2>5
          DEF GetExecution, rowVars, clientVars, RowsOK, AuditOK, WalkOK
<1>3. CASE CreateExecution(h)
  <2> DEFINE assignment == Head(request[h].rest).assignment
  <2>1. request[h].at = "create"
    BY <1>3 DEF CreateExecution, At
  <2>2. request[h].at \in EventSteps
    BY <2>1 DEF EventSteps
  <2>3. failures' \in 0 .. MaxFailures
    BY <1>3 DEF CreateExecution, Fails
  <2>4. /\ UNCHANGED <<logs, audit, acked, submitted, walk, now, requests>>
        /\ \/ NextEvent(h) /\ UNCHANGED executions
           \/ \E row \in Rows :
                 /\ assignment \in Assignments
                 /\ executions' =
                       [executions EXCEPT ![row] = NewRow(assignment)]
                 /\ Handle(h, "read", row) /\ UNCHANGED answered
    BY <1>3 DEF CreateExecution
  <2>5. CASE NextEvent(h) /\ UNCHANGED executions
    <3>1. RequestsOK' /\ answered' \subseteq Event
      BY <2>2, <2>5, NextEventTypes
    <3> QED BY <2>3, <2>4, <2>5, <3>1 DEF RowsOK, AuditOK, WalkOK
  <2>6. ASSUME NEW row \in Rows, assignment \in Assignments,
               executions' = [executions EXCEPT ![row] = NewRow(assignment)],
               Handle(h, "read", row), UNCHANGED answered
        PROVE  TypeInv'
    <3>1. row \in Ids /\ "read" \in EventSteps
      BY DEF Ids, EventSteps
    <3>2. RequestsOK'
      BY <2>2, <2>6, <3>1, HandleTypes
    <3>3. NewRow(assignment) \in Row /\ ~isTerminal(NewRow(assignment).state)
      BY <2>6 DEF NewRow, Row, States, isTerminal
    <3>4. RowsOK'
      BY <2>6, <3>1, <3>3 DEF RowsOK, NewRow
    <3> HIDE DEF assignment
    <3> QED BY <2>3, <2>4, <2>6, <3>2, <3>4 DEF AuditOK, WalkOK
  <2> QED BY <2>4, <2>5, <2>6
<1>4. CASE ReadBack(h)
  <2>1. request[h].at \in EventSteps
    BY <1>4 DEF ReadBack, At, EventSteps
  <2>2. failures' \in 0 .. MaxFailures
    BY <1>4 DEF ReadBack, Fails
  <2>3. \/ NextEvent(h)
        \/ Handle(h, "update", request[h].id) /\ UNCHANGED answered
    BY <1>4 DEF ReadBack
  <2>4. RequestsOK' /\ answered' \subseteq Event
    <3>1. CASE NextEvent(h)
      BY <2>1, <3>1, NextEventTypes
    <3>2. CASE Handle(h, "update", request[h].id) /\ UNCHANGED answered
      <4>1. request[h].id \in Ids /\ "update" \in EventSteps
        BY <2>1, EventFields DEF EventSteps
      <4> QED BY <2>1, <3>2, <4>1, HandleTypes
    <3> QED BY <2>3, <3>1, <3>2
  <2> QED BY <1>4, <2>2, <2>4
          DEF ReadBack, rowVars, RowsOK, AuditOK, WalkOK
<1>5. CASE UpdateEvent(h)
  <2> DEFINE state == Head(request[h].rest).state
  <2>1. request[h].at \in EventSteps
    BY <1>5 DEF UpdateEvent, At, EventSteps
  <2>2. failures' \in 0 .. MaxFailures
    BY <1>5 DEF UpdateEvent, Fails
  <2>3. RequestsOK' /\ answered' \subseteq Event
    BY <1>5, <2>1, NextEventTypes DEF UpdateEvent
  <2>4. request[h].id \in Ids /\ state \in States
    BY <2>1, EventFields DEF Event
  <2>5. \/ UpdateExecutionState(request[h].id, state, state = "running",
                                isTerminal(state))
        \/ UNCHANGED executions
    BY <1>5 DEF UpdateEvent
  <2>6. RowsOK'
    <3>1. isTerminal(state) \in BOOLEAN /\ (state = "running") \in BOOLEAN
      BY DEF isTerminal
    <3>2. CASE UpdateExecutionState(request[h].id, state, state = "running",
                                    isTerminal(state))
      BY <2>4, <3>1, <3>2, UpdateKeepsRows
    <3>3. CASE UNCHANGED executions
      BY <3>3 DEF RowsOK
    <3> QED BY <2>5, <3>2, <3>3
  <2> HIDE DEF state
  <2> QED BY <1>5, <2>2, <2>3, <2>6 DEF UpdateEvent, AuditOK, WalkOK
<1> QED BY <1>1, <1>2, <1>3, <1>4, <1>5

\* The steps of a cancellation.
LEMMA CancelTypes ==
    ASSUME TypeInv, NEW h \in Handlers,
           \/ \E id \in Ids : CancelExecution(h, id)
           \/ Cancel(h) \/ Audit(h)
    PROVE  TypeInv'
<1> USE DEF TypeInv
<1>0. Idle \in Request /\ Idle.at \notin EventSteps \cup {"get", "save"}
  BY DEF Idle, Request, EventSteps
<1>1. ASSUME NEW id \in Ids, CancelExecution(h, id)
      PROVE  TypeInv'
  <2> DEFINE first == [at |-> "cancel", id |-> id]
  <2>1. first \in Request /\ first.at \notin EventSteps \cup {"get", "save"}
    BY DEF Request, EventSteps
  <2>2. Become(h, first) /\ requests' \in 0 .. MaxRequests
    BY <1>1 DEF CancelExecution, Receive
  <2>3. RequestsOK'
    BY <2>1, <2>2, BecomeTypes
  <2> HIDE DEF first
  <2> QED BY <1>1, <2>2, <2>3
          DEF CancelExecution, Receive, rowVars, RowsOK, AuditOK, WalkOK
<1>2. CASE Cancel(h)
  <2> DEFINE next == [at |-> "audit", time |-> now]
  <2>1. next \in Request /\ next.at \notin EventSteps \cup {"get", "save"}
    BY DEF Request, EventSteps
  <2>2. /\ failures' \in 0 .. MaxFailures
        /\ Become(h, next) \/ Become(h, Idle)
        /\ \/ UpdateExecutionState(request[h].id, "canceled", FALSE, TRUE)
           \/ UNCHANGED executions
    <3>1. failures' \in 0 .. MaxFailures
      <4>1. UNCHANGED failures \/ Fails
        BY <1>2, Zenon DEF Cancel
      <4> QED BY <4>1 DEF Fails
    <3>2. Become(h, next) \/ Become(h, Idle)
      BY <1>2 DEF Cancel
    <3>3. \/ UpdateExecutionState(request[h].id, "canceled", FALSE, TRUE)
          \/ UNCHANGED executions
      BY <1>2 DEF Cancel
    <3> HIDE DEF next
    <3> QED BY <3>1, <3>2, <3>3
  <2> HIDE DEF next
  <2>3. RequestsOK'
    BY <1>0, <2>1, <2>2, BecomeTypes
  <2>4. RowsOK'
    <3>1. CASE UpdateExecutionState(request[h].id, "canceled", FALSE, TRUE)
      <4>1. request[h].id \in Ids
        BY <1>2, OtherFields DEF Cancel
      <4>2. "canceled" \in States /\ isTerminal("canceled")
        BY DEF States, isTerminal
      <4> QED BY <3>1, <4>1, <4>2, UpdateKeepsRows
    <3>2. CASE UNCHANGED executions
      BY <3>2 DEF RowsOK
    <3> QED BY <2>2, <3>1, <3>2
  <2> QED BY <1>2, <2>2, <2>3, <2>4 DEF Cancel, clientVars, AuditOK, WalkOK
<1>3. CASE Audit(h)
  <2>1. failures' \in 0 .. MaxFailures /\ Become(h, Idle)
    BY <1>3 DEF Audit, Fails
  <2>2. RequestsOK'
    BY <1>0, <2>1, BecomeTypes
  <2> DEFINE event == [id |-> Cardinality(audit), time |-> request[h].time]
  <2>3. audit' = audit \cup {event} \/ audit' = audit
    BY <1>3 DEF Audit
  <2>4. event \in AuditEvent
    BY <1>3, OtherFields, FS_CardinalityType DEF Audit, AuditOK, AuditEvent
  <2> HIDE DEF event
  <2>5. AuditOK'
    BY <2>3, <2>4, FS_AddElement DEF AuditOK
  <2> QED BY <1>3, <2>1, <2>2, <2>5 DEF Audit, clientVars, RowsOK, WalkOK
<1> QED BY <1>1, <1>2, <1>3

-----------------------------------------------------------------------------
(* Saving a chunk.                                                         *)

\* Of a chunk that is saved: everything keeps its place, its own is taken,
\* and nothing else is new.
LEMMA UpsertedProperties ==
    ASSUME logs \subseteq LogChunk, NEW c \in LogChunk
    PROVE  /\ Upserted(c) \subseteq LogChunk
           /\ \A d \in logs : \E e \in Upserted(c) : SamePlace(d, e)
           /\ \E e \in Upserted(c) : SamePlace(c, e)
           /\ \A e \in Upserted(c) :
                 e \in logs \/ (SamePlace(c, e) /\ e.payload = c.payload)
<1>1. CASE ~\E d \in logs : SamePlace(c, d)
  <2>1. Upserted(c) = logs \cup {c}
    BY <1>1 DEF Upserted
  <2> QED BY <2>1 DEF SamePlace
<1>2. CASE \E d \in logs : SamePlace(c, d)
  <2> DEFINE new(d) == [d EXCEPT !.payload = c.payload]
  <2>1. Upserted(c) = {IF SamePlace(c, d) THEN new(d) ELSE d : d \in logs}
    BY <1>2 DEF Upserted
  <2>2. \A d \in LogChunk :
           /\ new(d) \in LogChunk /\ SamePlace(d, new(d))
           /\ new(d).payload = c.payload
           /\ SamePlace(c, d) => SamePlace(c, new(d))
    BY DEF LogChunk, SamePlace
  <2>3. \A d \in logs : SamePlace(d, d)
    BY DEF SamePlace
  <2> HIDE DEF new
  <2>4. \A d \in logs : \E e \in Upserted(c) : SamePlace(d, e)
    BY <2>1, <2>2, <2>3
  <2>5. \E e \in Upserted(c) : SamePlace(c, e)
    BY <1>2, <2>1, <2>2
  <2>6. \A e \in Upserted(c) :
           e \in logs \/ (SamePlace(c, e) /\ e.payload = c.payload)
    BY <2>1, <2>2
  <2>7. Upserted(c) \subseteq LogChunk
    BY <2>1, <2>2
  <2> QED BY <2>4, <2>5, <2>6, <2>7
<1> QED BY <1>1, <1>2

\* What a step that saves a chunk does.
LEMMA SaveEffect ==
    ASSUME TypeInv, NEW h \in Handlers, SaveLogChunk(h)
    PROVE  LET r == request[h]
               c == Head(r.rest)
           IN  \/ /\ logs' = Upserted(c)
                  /\ Len(r.rest) > 1
                  /\ Become(h, [at |-> "save", rest |-> Tail(r.rest),
                                all |-> r.all])
                  /\ UNCHANGED acked
               \/ /\ logs' = Upserted(c)
                  /\ Len(r.rest) = 1
                  /\ Become(h, Idle)
                  /\ acked' = acked \cup {r.all[i] : i \in DOMAIN r.all}
               \/ Become(h, Idle) /\ UNCHANGED <<logs, acked>>
<1> DEFINE r == request[h]
           next == [r EXCEPT !.rest = Tail(@)]
<1>1. RequestsOK /\ At(h, "save")
  BY DEF TypeInv, SaveLogChunk
<1>2. r = [at |-> "save", rest |-> r.rest, all |-> r.all]
  BY <1>1, ChunkFields
<1>3. next = [at |-> "save", rest |-> Tail(r.rest), all |-> r.all]
  <2> DEFINE one == [at: {"save"}, rest: {Tail(r.rest)}, all: {r.all}]
  <2>1. r \in [at: {"save"}, rest: {r.rest}, all: {r.all}]
    BY <1>2
  <2>2. next \in one
    BY <2>1
  <2>3. \A x \in one : x = [at |-> "save", rest |-> Tail(r.rest), all |-> r.all]
    OBVIOUS
  <2> QED BY <2>2, <2>3
<1>4. \/ /\ logs' = Upserted(Head(r.rest))
         /\ \/ Len(r.rest) > 1 /\ Become(h, next) /\ UNCHANGED acked
            \/ /\ Len(r.rest) = 1
               /\ Become(h, Idle)
               /\ acked' = acked \cup {r.all[i] : i \in DOMAIN r.all}
      \/ Become(h, Idle) /\ UNCHANGED <<logs, acked>>
  BY DEF SaveLogChunk
<1> HIDE DEF next
<1> QED BY <1>3, <1>4

\* The steps of output.
LEMMA OutputTypes ==
    ASSUME TypeInv, NEW h \in Handlers,
           \/ \E chunks \in ChunkBatches : SubmitLogChunks(h, chunks)
           \/ SaveLogChunk(h)
    PROVE  TypeInv'
<1> USE DEF TypeInv
<1>1. ASSUME NEW chunks \in ChunkBatches, SubmitLogChunks(h, chunks)
      PROVE  TypeInv'
  <2> DEFINE first == [at |-> "save", rest |-> chunks, all |-> chunks]
  <2>1. first \in Request /\ first.rest # <<>>
    BY DEF Request
  <2>2. Become(h, first) /\ requests' \in 0 .. MaxRequests
    BY <1>1 DEF SubmitLogChunks, Receive
  <2>3. RequestsOK'
    BY <2>1, <2>2, BecomeTypes
  <2>4. \A i \in DOMAIN chunks : chunks[i] \in Chunks
    BY ElementOfSeq
  <2>5. submitted' \subseteq Chunks
    BY <1>1, <2>4 DEF SubmitLogChunks
  <2> HIDE DEF first
  <2> QED BY <1>1, <2>2, <2>3, <2>5
          DEF SubmitLogChunks, Receive, rowVars, RowsOK, AuditOK, WalkOK
<1>2. CASE SaveLogChunk(h)
  <2> DEFINE r == request[h]
             c == Head(r.rest)
             next == [at |-> "save", rest |-> Tail(r.rest), all |-> r.all]
  <2>1. At(h, "save")
    BY <1>2 DEF SaveLogChunk
  <2>2. /\ next \in Request /\ c \in LogChunk
        /\ Len(r.rest) > 1 => next.rest # <<>>
    BY <2>1, ChunkFields DEF Request
  <2>3. /\ Idle \in Request
        /\ Idle.at \notin EventSteps \cup {"get", "save"}
    BY DEF Idle, Request, EventSteps
  <2>4. \A i \in DOMAIN r.all : r.all[i] \in Chunks
    <3>1. r.all \in Seq(Chunks)
      BY <2>1, ChunkFields
    <3> QED BY <3>1, LenProperties
  <2>5. /\ \/ Len(r.rest) > 1 /\ Become(h, next)
           \/ Become(h, Idle)
        /\ \/ UNCHANGED acked
           \/ acked' = acked \cup {r.all[i] : i \in DOMAIN r.all}
        /\ logs' = Upserted(c) \/ UNCHANGED logs
    BY <1>2, SaveEffect
  <2> HIDE DEF next
  <2>6. RequestsOK'
    BY <2>2, <2>3, <2>5, BecomeTypes
  <2>7. acked' \subseteq Chunks
    BY <2>4, <2>5
  <2>8. logs' \subseteq LogChunk
    BY <2>2, <2>5, UpsertedProperties
  <2>9. failures' \in 0 .. MaxFailures
    BY <1>2 DEF SaveLogChunk, Fails
  <2> QED BY <1>2, <2>6, <2>7, <2>8, <2>9
          DEF SaveLogChunk, RowsOK, AuditOK, WalkOK
<1> QED BY <1>1, <1>2

-----------------------------------------------------------------------------
(* A page.                                                                 *)

\* A nonempty set of natural numbers has a least element, and Min is it.
LEMMA MinIsLeast ==
    ASSUME NEW S \in SUBSET Nat, S # {}
    PROVE  Min(S) \in S /\ \A m \in S : Min(S) <= m
<1>1. \E n \in S : \A m \in S : <<m, n>> \notin OpToRel(<, Nat)
  BY NatLessThanWellFounded, WFMin
<1>2. \A m, n \in Nat : <<m, n>> \notin OpToRel(<, Nat) => n <= m
  BY DEF OpToRel
<1>3. \E n \in S : \A m \in S : n <= m
  BY <1>1, <1>2
<1> QED BY <1>3 DEF Min

\* A page has only what comes after the cursor.  One that is not full has
\* all of it; one that is full has an event, and nothing it leaves out is
\* later than anything in it.
LEMMA PageProperties ==
    ASSUME TypeInv, NEW cursor, NEW page \in Pages(cursor)
    PROVE  /\ page \subseteq Older(cursor) /\ page \subseteq audit
           /\ Cardinality(page) # Limit => page = Older(cursor)
           /\ Cardinality(page) = Limit => page # {}
           /\ \A e \in page, f \in Older(cursor) \ page : e.time >= f.time
<1> DEFINE older == Older(cursor)
<1>1. /\ page \subseteq older
      /\ Cardinality(page) = Min({Limit, Cardinality(older)})
      /\ \A e \in page, f \in older \ page : e.time >= f.time
  BY DEF Pages
<1>2. older \subseteq audit
  BY DEF Older
<1> HIDE DEF older
<1>3. IsFiniteSet(older) /\ Cardinality(older) \in Nat
  BY <1>2, FS_Subset, FS_CardinalityType DEF TypeInv, AuditOK
<1>4. Cardinality(page) \in {Limit, Cardinality(older)}
  BY <1>1, <1>3, MinIsLeast
<1>5. Cardinality(page) # Limit => page = older
  BY <1>1, <1>3, <1>4, FS_Subset
<1>6. Cardinality(page) = Limit => page # {}
  BY FS_EmptySet
<1> QED BY <1>1, <1>2, <1>5, <1>6 DEF older

\* The cursor that a page leaves behind.
LEMMA CursorProperties ==
    ASSUME TypeInv, NEW page \in SUBSET audit, page # {}
    PROVE  LET cursor == Min({e.time : e \in page}) IN
           /\ cursor \in Nat
           /\ \E e \in page : e.time = cursor
           /\ \A e \in page : e.time >= cursor
<1> DEFINE times == {e.time : e \in page}
<1>1. times \in SUBSET Nat /\ times # {}
  BY DEF TypeInv, AuditOK, AuditEvent
<1>2. Min(times) \in times /\ \A m \in times : Min(times) <= m
  BY <1>1, MinIsLeast
<1> QED BY <1>1, <1>2

\* The steps of whoever reads the pages.
LEMMA WalkTypes ==
    ASSUME TypeInv, StartWalk \/ ReadPage
    PROVE  TypeInv'
<1>1. WalkOK'
  <2>1. CASE StartWalk
    BY <2>1 DEF StartWalk, TypeInv, AuditOK, WalkOK
  <2>2. CASE ReadPage
    <3>1. PICK page \in Pages(walk.cursor) :
            LET full == Cardinality(page) = Limit IN
            walk' = [walk EXCEPT
                       !.at = IF full THEN "page" ELSE "done",
                       !.cursor = IF full THEN Min({e.time : e \in page})
                                  ELSE @,
                       !.seen = @ \cup page,
                       !.twice = @ \/ page \cap walk.seen # {}]
      BY <2>2 DEF ReadPage
    <3> DEFINE cursor == Min({e.time : e \in page})
    <3>2. Cardinality(page) = Limit => cursor \in Nat
      BY PageProperties, CursorProperties
    <3>3. page \in SUBSET AuditEvent
      BY PageProperties DEF TypeInv, AuditOK
    <3>4. walk \in [at: {"page", "done"}, cursor: Nat \cup {None},
                    start: SUBSET AuditEvent, seen: SUBSET AuditEvent,
                    twice: BOOLEAN]
      <4>1. walk # NoWalk
        <5>1. walk.at = "page"
          BY <2>2 DEF ReadPage
        <5> QED BY <5>1 DEF NoWalk
      <4> QED BY <4>1 DEF TypeInv, WalkOK
    <3> HIDE DEF cursor
    <3> QED BY <3>1, <3>2, <3>3, <3>4 DEF WalkOK, cursor
  <2> QED BY <2>1, <2>2
<1> QED BY <1>1 DEF StartWalk, ReadPage, TypeInv, rowVars, clientVars,
                    RowsOK, AuditOK, RequestsOK, BatchesLeft

\* Inductive step of type correctness.
LEMMA TypesInductive ==
    ASSUME TypeInv, [Next]_vars
    PROVE  TypeInv'
<1>1. ASSUME NEW h \in Handlers, HandlerStep(h)
      PROVE  TypeInv'
  BY <1>1, EventTypes, CancelTypes, OutputTypes DEF HandlerStep
<1>2. CASE StartWalk \/ ReadPage
  BY <1>2, WalkTypes
<1>3. CASE Tick
  BY <1>3 DEF Tick, TypeInv, rowVars, clientVars, RowsOK, AuditOK, WalkOK,
              RequestsOK, BatchesLeft
<1>4. CASE UNCHANGED vars
  BY <1>4 DEF vars, TypeInv, RowsOK, AuditOK, WalkOK, RequestsOK, BatchesLeft
<1> QED BY <1>1, <1>2, <1>3, <1>4 DEF Next

\* The initial state.
LEMMA InitTypes == Init => TypeInv
<1> SUFFICES ASSUME Init PROVE TypeInv
  OBVIOUS
<1>1. RequestsOK
  BY DEF Init, RequestsOK, BatchesLeft, Request, Idle, EventSteps
<1>2. RowsOK /\ AuditOK /\ WalkOK
  BY FS_EmptySet DEF Init, RowsOK, AuditOK, WalkOK, NoWalk
<1> QED BY <1>1, <1>2 DEF Init, TypeInv

\* Types hold in every state.
LEMMA TypesHold == Spec => []TypeInv
BY InitTypes, TypesInductive, PTL DEF Spec

\* Type correctness: every row, request and page is of its type, an
\* execution has a time of finishing exactly in a final state, and one of
\* starting at most while it runs.
THEOREM TypeCorrect == Spec => []TypeOK
BY TypesHold, TypeInvIsTypeOK, PTL

-----------------------------------------------------------------------------
(* Output that was accepted stays.                                         *)

\* What request r has gone through of its chunks is among rows, the rest is
\* what it has still to save, and all of it is among chunks.
Progress(r, rows, chunks) ==
    LET done == Len(r.all) - Len(r.rest) IN
    /\ Len(r.rest) <= Len(r.all)
    /\ \A i \in 1 .. Len(r.rest) : r.rest[i] = r.all[done + i]
    /\ \A i \in 1 .. done : \E d \in rows : SamePlace(r.all[i], d)
    /\ \A i \in 1 .. Len(r.all) : r.all[i] \in chunks

SavedSoFar ==
    \A h \in Handlers :
        request[h].at = "save" => Progress(request[h], logs, submitted)

\* Every payload was submitted for the place where it is.
LogsWereSubmitted ==
    \A d \in logs :
        \E s \in submitted : SamePlace(d, s) /\ d.payload = s.payload

AckedHavePlaces == \A c \in acked : \E d \in logs : SamePlace(c, d)

OutputInv == SavedSoFar /\ LogsWereSubmitted /\ AckedHavePlaces

\* It gives the property.
LEMMA OutputInvSuffices == OutputInv => AckedChunksStay
BY DEF OutputInv, LogsWereSubmitted, AckedHavePlaces, AckedChunksStay, SamePlace

\* The other steps of handlers do not touch output.
LEMMA OutputUntouched ==
    ASSUME TypeInv, NEW h \in Handlers,
           \/ \E events \in EventBatches : SubmitExecutionEvents(h, events)
           \/ GetExecution(h) \/ CreateExecution(h) \/ ReadBack(h)
           \/ UpdateEvent(h)
           \/ \E id \in Ids : CancelExecution(h, id)
           \/ Cancel(h) \/ Audit(h)
    PROVE  /\ UNCHANGED <<logs, acked, submitted>>
           /\ \E r : Become(h, r) /\ r.at # "save"
<1>1. NextEvent(h) => \E r : Become(h, r) /\ r.at # "save"
  <2> DEFINE next == [at |-> "get", rest |-> Tail(request[h].rest),
                      all |-> request[h].all]
  <2>1. next.at # "save" /\ Idle.at # "save"
    BY DEF Idle
  <2>2. NextEvent(h) => Become(h, next) \/ Become(h, Idle)
    BY DEF NextEvent
  <2> HIDE DEF next
  <2> QED BY <2>1, <2>2
<1>2. ASSUME NEW step \in EventSteps, NEW id, Handle(h, step, id)
      PROVE  \E r : Become(h, r) /\ r.at # "save"
  <2> DEFINE next == [at |-> step, rest |-> request[h].rest,
                      all |-> request[h].all, id |-> id]
  <2>1. next.at # "save"
    BY DEF EventSteps
  <2>2. Become(h, next)
    BY <1>2 DEF Handle
  <2> HIDE DEF next
  <2> QED BY <2>1, <2>2
<1>3. {"create", "read", "update"} \subseteq EventSteps
  BY DEF EventSteps
<1>4. ASSUME NEW events \in EventBatches, SubmitExecutionEvents(h, events)
      PROVE  /\ UNCHANGED <<logs, acked, submitted>>
             /\ \E r : Become(h, r) /\ r.at # "save"
  <2> DEFINE first == [at |-> "get", rest |-> events, all |-> events]
  <2>1. Become(h, first) /\ UNCHANGED <<logs, acked, submitted>>
    BY <1>4 DEF SubmitExecutionEvents, Receive, rowVars
  <2>2. first.at # "save"
    OBVIOUS
  <2> HIDE DEF first
  <2> QED BY <2>1, <2>2
<1>5. CASE GetExecution(h)
  BY <1>2, <1>3, <1>5 DEF GetExecution, rowVars, clientVars
<1>6. CASE CreateExecution(h)
  BY <1>1, <1>2, <1>3, <1>6 DEF CreateExecution
<1>7. CASE ReadBack(h)
  BY <1>1, <1>2, <1>3, <1>7 DEF ReadBack, rowVars
<1>8. CASE UpdateEvent(h)
  BY <1>1, <1>8 DEF UpdateEvent
<1>9. ASSUME NEW id \in Ids, CancelExecution(h, id)
      PROVE  /\ UNCHANGED <<logs, acked, submitted>>
             /\ \E r : Become(h, r) /\ r.at # "save"
  <2> DEFINE first == [at |-> "cancel", id |-> id]
  <2>1. Become(h, first) /\ UNCHANGED <<logs, acked, submitted>>
    BY <1>9 DEF CancelExecution, Receive, rowVars
  <2>2. first.at # "save"
    OBVIOUS
  <2> HIDE DEF first
  <2> QED BY <2>1, <2>2
<1>10. CASE Cancel(h)
  <2> DEFINE next == [at |-> "audit", time |-> now]
  <2>1. /\ Become(h, next) \/ Become(h, Idle)
        /\ UNCHANGED <<logs, acked, submitted>>
    BY <1>10 DEF Cancel, clientVars
  <2>2. next.at # "save" /\ Idle.at # "save"
    BY DEF Idle
  <2> HIDE DEF next
  <2> QED BY <2>1, <2>2
<1>11. CASE Audit(h)
  <2>1. Become(h, Idle) /\ UNCHANGED <<logs, acked, submitted>>
    BY <1>11 DEF Audit, clientVars
  <2> QED BY <2>1 DEF Idle
<1> QED BY <1>4, <1>5, <1>6, <1>7, <1>8, <1>9, <1>10, <1>11

\* What a request has saved stays saved while others go on.
LEMMA OthersKeepOutput ==
    ASSUME TypeInv, OutputInv, NEW h \in Handlers, NEW r, Become(h, r),
           \A d \in logs : \E e \in logs' : SamePlace(d, e),
           submitted \subseteq submitted'
    PROVE  /\ \A i \in Handlers \ {h} :
                 request'[i].at = "save" =>
                     Progress(request'[i], logs', submitted')
           /\ \A c \in acked : \E d \in logs' : SamePlace(c, d)
           /\ request'[h] = r
<1>1. request' = [request EXCEPT ![h] = r] /\ request \in [Handlers -> Request]
  BY DEF Become, TypeInv, RequestsOK
<1>2. \A c : (\E d \in logs : SamePlace(c, d))
               => \E d \in logs' : SamePlace(c, d)
  BY DEF SamePlace
<1>3. \A i \in Handlers \ {h} : request'[i] = request[i]
  BY <1>1
<1> QED BY <1>1, <1>2, <1>3
        DEF OutputInv, SavedSoFar, Progress, AckedHavePlaces

\* A request of output comes in.
LEMMA SubmitKeepsOutput ==
    ASSUME TypeInv, OutputInv, NEW h \in Handlers, NEW chunks \in ChunkBatches,
           SubmitLogChunks(h, chunks)
    PROVE  OutputInv'
<1> DEFINE first == [at |-> "save", rest |-> chunks, all |-> chunks]
<1>1. /\ Become(h, first) /\ UNCHANGED <<logs, acked>>
      /\ submitted' = submitted \cup {chunks[i] : i \in DOMAIN chunks}
  BY DEF SubmitLogChunks, Receive, rowVars
<1>2. Len(chunks) \in Nat /\ DOMAIN chunks = 1 .. Len(chunks)
  BY LenProperties
<1>3. first.at = "save" /\ first.rest = chunks /\ first.all = chunks
  OBVIOUS
<1> HIDE DEF first
<1>4. \A d \in logs : \E e \in logs' : SamePlace(d, e)
  BY <1>1 DEF SamePlace
<1>5. request'[h] = first
  BY <1>1, <1>4, OthersKeepOutput
<1>6. SavedSoFar'
  <2>1. \A i \in 1 .. Len(chunks) : chunks[i] \in submitted'
    BY <1>1, <1>2
  <2>2. /\ Len(chunks) - Len(chunks) = 0 /\ Len(chunks) <= Len(chunks)
        /\ \A i \in 1 .. Len(chunks) : 0 + i = i
        /\ 1 .. 0 = {}
    BY <1>2
  <2>3. Progress(first, logs', submitted')
    BY <1>3, <2>1, <2>2 DEF Progress
  <2> QED BY <1>1, <1>4, <1>5, <2>3, OthersKeepOutput DEF SavedSoFar
<1>7. LogsWereSubmitted' /\ AckedHavePlaces'
  BY <1>1, <1>4, OthersKeepOutput
     DEF OutputInv, LogsWereSubmitted, AckedHavePlaces
<1> QED BY <1>6, <1>7 DEF OutputInv

\* A chunk is saved or refused.
LEMMA SaveKeepsOutput ==
    ASSUME TypeInv, OutputInv, NEW h \in Handlers, SaveLogChunk(h)
    PROVE  OutputInv'
<1> DEFINE r == request[h]
           c == Head(r.rest)
           done == Len(r.all) - Len(r.rest)
           next == [at |-> "save", rest |-> Tail(r.rest), all |-> r.all]
<1>1. At(h, "save") /\ UNCHANGED submitted
  BY DEF SaveLogChunk
<1>2. RequestsOK /\ logs \subseteq LogChunk
  BY DEF TypeInv
<1>3. /\ r.rest \in Seq(Chunks) /\ r.rest # <<>> /\ r.all \in Seq(Chunks)
      /\ c \in LogChunk
  BY <1>1, <1>2, ChunkFields
<1>4. /\ Len(r.rest) <= Len(r.all)
      /\ \A i \in 1 .. Len(r.rest) : r.rest[i] = r.all[done + i]
      /\ \A i \in 1 .. done : \E d \in logs : SamePlace(r.all[i], d)
      /\ \A i \in 1 .. Len(r.all) : r.all[i] \in submitted
  BY <1>1 DEF OutputInv, SavedSoFar, Progress, At
<1>5. /\ Len(r.rest) \in Nat \ {0} /\ Len(r.all) \in Nat
      /\ DOMAIN r.all = 1 .. Len(r.all)
      /\ Len(Tail(r.rest)) = Len(r.rest) - 1
      /\ \A i \in 1 .. Len(Tail(r.rest)) : Tail(r.rest)[i] = r.rest[i + 1]
      /\ c = r.rest[1]
  BY <1>3, EmptySeq, LenProperties, HeadTailProperties
<1> HIDE DEF r, c
<1>6. c = r.all[done + 1] /\ c \in submitted
  <2>1. 1 \in 1 .. Len(r.rest) /\ done + 1 \in 1 .. Len(r.all)
    <3>1. \A m \in Nat, n \in Nat \ {0} :
            n <= m => 1 \in 1 .. n /\ (m - n) + 1 \in 1 .. m
      OBVIOUS
    <3>2. Len(r.rest) \in Nat \ {0} /\ Len(r.all) \in Nat
      BY <1>5
    <3> QED BY <1>4, <3>1, <3>2, Zenon
  <2> QED BY <1>4, <1>5, <2>1
<1>7. /\ next.at = "save" /\ next.rest = Tail(r.rest) /\ next.all = r.all
      /\ Idle.at # "save"
  BY DEF Idle
<1>8. \/ /\ logs' = Upserted(c)
         /\ Len(r.rest) > 1 /\ Become(h, next) /\ UNCHANGED acked
      \/ /\ logs' = Upserted(c)
         /\ Len(r.rest) = 1 /\ Become(h, Idle)
         /\ acked' = acked \cup {r.all[i] : i \in DOMAIN r.all}
      \/ Become(h, Idle) /\ UNCHANGED <<logs, acked>>
  BY SaveEffect DEF r, c
<1> HIDE DEF next
<1>9. \A d \in logs : \E e \in logs' : SamePlace(d, e)
  BY <1>2, <1>3, <1>8, UpsertedProperties DEF SamePlace
<1>10. LogsWereSubmitted'
  <2>1. \A e \in logs' :
          e \in logs \/ (SamePlace(c, e) /\ e.payload = c.payload)
    BY <1>2, <1>3, <1>8, UpsertedProperties
  <2> QED BY <1>1, <1>6, <2>1
          DEF OutputInv, LogsWereSubmitted, SamePlace
<1>11. logs' = Upserted(c)
         => \A i \in 1 .. done + 1 : \E d \in logs' : SamePlace(r.all[i], d)
  <2>1. logs' = Upserted(c) => \E d \in logs' : SamePlace(c, d)
    BY <1>2, <1>3, UpsertedProperties
  <2>2. \A i \in 1 .. done : \E d \in logs' : SamePlace(r.all[i], d)
    BY <1>4, <1>9 DEF SamePlace
  <2>3. \A i \in 1 .. done + 1 : i \in 1 .. done \/ i = done + 1
    BY <1>4, <1>5
  <2> QED BY <1>6, <2>1, <2>2, <2>3
<1>12. CASE logs' = Upserted(c) /\ Len(r.rest) > 1 /\ Become(h, next)
             /\ UNCHANGED acked
  <2>1. /\ request'[h] = next
        /\ \A i \in Handlers \ {h} :
              request'[i].at = "save" =>
                  Progress(request'[i], logs', submitted')
        /\ AckedHavePlaces'
    BY <1>1, <1>9, <1>12, OthersKeepOutput DEF AckedHavePlaces
  <2>2. Len(next.all) - Len(next.rest) = done + 1
    <3>1. \A m, n \in Nat : m - (n - 1) = (m - n) + 1
      OBVIOUS
    <3>2. Len(r.rest) \in Nat /\ Len(r.all) \in Nat
      BY <1>5
    <3>3. Len(next.all) - Len(next.rest) = Len(r.all) - (Len(r.rest) - 1)
      BY <1>5, <1>7, Zenon
    <3> QED BY <3>1, <3>2, <3>3, Zenon
  <2>3. \A i \in 1 .. Len(next.rest) : next.rest[i] = next.all[done + 1 + i]
    <3> SUFFICES ASSUME NEW i \in 1 .. Len(next.rest)
                 PROVE  next.rest[i] = next.all[done + 1 + i]
      OBVIOUS
    <3>1. i \in 1 .. Len(r.rest) - 1
      BY <1>5, <1>7
    <3>2. i + 1 \in 1 .. Len(r.rest) /\ done + (i + 1) = done + 1 + i
      <4> DEFINE n == Len(r.rest)
      <4>1. n \in Nat /\ done \in Int
        BY <1>5
      <4>2. i \in 1 .. n - 1
        BY <3>1
      <4> HIDE DEF n, done
      <4>3. i + 1 \in 1 .. n /\ done + (i + 1) = done + 1 + i
        BY <4>1, <4>2
      <4> QED BY <4>3 DEF n
    <3> QED BY <1>4, <1>5, <1>7, <3>2
  <2>4. Len(next.rest) <= Len(next.all)
    BY <1>4, <1>5, <1>7
  <2>5. \A i \in 1 .. Len(next.all) : next.all[i] \in submitted'
    BY <1>1, <1>4, <1>7
  <2>6. \A i \in 1 .. done + 1 : \E d \in logs' : SamePlace(next.all[i], d)
    BY <1>7, <1>11, <1>12
  <2> HIDE DEF done
  <2>7. SavedSoFar'
    <3>1. Progress(next, logs', submitted')
      BY <2>2, <2>3, <2>4, <2>5, <2>6 DEF Progress
    <3> QED BY <2>1, <3>1 DEF SavedSoFar
  <2> QED BY <1>10, <2>1, <2>7 DEF OutputInv
<1>13. CASE logs' = Upserted(c) /\ Len(r.rest) = 1 /\ Become(h, Idle)
             /\ acked' = acked \cup {r.all[i] : i \in DOMAIN r.all}
  <2>1. SavedSoFar'
    BY <1>1, <1>7, <1>9, <1>13, OthersKeepOutput DEF SavedSoFar
  <2>2. \A x \in acked : \E d \in logs' : SamePlace(x, d)
    BY <1>1, <1>9, <1>13, OthersKeepOutput
  <2>3. \A i \in DOMAIN r.all : i \in 1 .. done + 1
    BY <1>5, <1>13
  <2>4. AckedHavePlaces'
    BY <1>11, <1>13, <2>2, <2>3 DEF AckedHavePlaces
  <2> QED BY <1>10, <2>1, <2>4 DEF OutputInv
<1>14. CASE Become(h, Idle) /\ UNCHANGED <<logs, acked>>
  <2>1. SavedSoFar' /\ AckedHavePlaces'
    BY <1>1, <1>7, <1>9, <1>14, OthersKeepOutput
       DEF SavedSoFar, AckedHavePlaces
  <2> QED BY <1>10, <2>1 DEF OutputInv
<1> QED BY <1>8, <1>12, <1>13, <1>14

\* Inductive step: no step loses output.
LEMMA OutputInductive ==
    ASSUME TypeInv, OutputInv, [Next]_vars
    PROVE  OutputInv'
<1>1. ASSUME NEW h \in Handlers, NEW r, Become(h, r), r.at # "save",
             UNCHANGED <<logs, acked, submitted>>
      PROVE  OutputInv'
  <2>1. \A d \in logs : \E e \in logs' : SamePlace(d, e)
    BY <1>1 DEF SamePlace
  <2>2. SavedSoFar' /\ AckedHavePlaces'
    BY <1>1, <2>1, OthersKeepOutput DEF SavedSoFar, AckedHavePlaces
  <2> QED BY <1>1, <2>2 DEF OutputInv, LogsWereSubmitted
<1>2. ASSUME NEW h \in Handlers, HandlerStep(h)
      PROVE  OutputInv'
  <2>1. CASE \E chunks \in ChunkBatches : SubmitLogChunks(h, chunks)
    BY <2>1, SubmitKeepsOutput
  <2>2. CASE SaveLogChunk(h)
    BY <2>2, SaveKeepsOutput
  <2>3. CASE \/ \E events \in EventBatches : SubmitExecutionEvents(h, events)
             \/ GetExecution(h) \/ CreateExecution(h) \/ ReadBack(h)
             \/ UpdateEvent(h)
             \/ \E id \in Ids : CancelExecution(h, id)
             \/ Cancel(h) \/ Audit(h)
    BY <1>1, <2>3, OutputUntouched
  <2> QED BY <1>2, <2>1, <2>2, <2>3 DEF HandlerStep
<1>3. CASE UNCHANGED <<logs, acked, submitted, request>>
  BY <1>3 DEF OutputInv, SavedSoFar, Progress, LogsWereSubmitted,
              AckedHavePlaces
<1> QED BY <1>2, <1>3 DEF Next, Tick, StartWalk, ReadPage, vars, rowVars,
                          clientVars

\* Output that was accepted is kept, whatever is resent or fails: its place
\* holds a payload that was submitted for it (SaveLogChunks,
\* store.go:619-632).
THEOREM AckedChunksStayHolds == Spec => []AckedChunksStay
<1>1. Init => OutputInv
  BY DEF Init, OutputInv, SavedSoFar, LogsWereSubmitted, AckedHavePlaces, Idle
<1>2. TypeInv /\ OutputInv /\ [Next]_vars => OutputInv'
  BY OutputInductive
<1> QED BY <1>1, <1>2, TypesHold, OutputInvSuffices, PTL DEF Spec

-----------------------------------------------------------------------------
(* A walk misses nothing and reads nothing twice.                          *)

\* No other event has the time of event e.
Alone(e) == \A f \in audit \ {e} : f.time # e.time

\* A walk has read nothing from the cursor on down, and everything else that
\* was there when it began, unless another event has the same time.
WalkInv ==
    walk.at # "idle" =>
        /\ walk.start \subseteq audit
        /\ ~walk.twice
        /\ walk.at = "page" =>
              /\ walk.cursor = None => walk.seen = {}
              /\ walk.cursor # None =>
                    /\ \A e \in walk.seen : e.time >= walk.cursor
                    /\ \A e \in walk.start :
                          Alone(e) /\ e.time >= walk.cursor => e \in walk.seen
        /\ walk.at = "done" =>
              \A e \in walk.start : Alone(e) => e \in walk.seen

\* It gives the property.
LEMMA WalkInvSuffices == TypeInv /\ WalkInv => WalkComplete
BY DEF TypeInv, WalkOK, NoWalk, WalkInv, WalkComplete, Alone

\* New events neither make one alone nor disturb what a walk has read.
LEMMA AuditGrowsWalkInv ==
    ASSUME TypeInv, WalkInv, audit \subseteq audit', UNCHANGED walk
    PROVE  WalkInv'
<1>1. \A e : Alone(e)' => Alone(e)
  BY DEF Alone
<1> QED BY <1>1 DEF WalkInv

\* A walk begins in front of everything.
LEMMA StartWalkInv ==
    ASSUME TypeInv, StartWalk
    PROVE  WalkInv'
BY DEF StartWalk, rowVars, WalkInv, TypeInv, AuditOK

\* A page moves the cursor over what it has read.
LEMMA ReadPageWalkInv ==
    ASSUME TypeInv, WalkInv, ReadPage
    PROVE  WalkInv'
<1>1. walk.at = "page" /\ UNCHANGED audit
  BY DEF ReadPage, rowVars
<1>2. PICK page \in Pages(walk.cursor) :
        LET full == Cardinality(page) = Limit IN
        walk' = [walk EXCEPT
                   !.at = IF full THEN "page" ELSE "done",
                   !.cursor = IF full THEN Min({e.time : e \in page}) ELSE @,
                   !.seen = @ \cup page,
                   !.twice = @ \/ page \cap walk.seen # {}]
  BY DEF ReadPage
<1> DEFINE full == Cardinality(page) = Limit
           cursor == Min({e.time : e \in page})
<1>3. walk \in [at: {"page", "done"}, cursor: Nat \cup {None},
                start: SUBSET AuditEvent, seen: SUBSET AuditEvent,
                twice: BOOLEAN]
  BY <1>1 DEF TypeInv, WalkOK, NoWalk
<1>4. /\ walk'.at = IF full THEN "page" ELSE "done"
      /\ walk'.cursor = IF full THEN cursor ELSE walk.cursor
      /\ walk'.seen = walk.seen \cup page
      /\ walk'.twice = (walk.twice \/ page \cap walk.seen # {})
      /\ walk'.start = walk.start
  BY <1>2, <1>3
<1>5. /\ page \subseteq Older(walk.cursor) /\ page \subseteq audit
      /\ ~full => page = Older(walk.cursor)
      /\ full => page # {}
      /\ \A e \in page, f \in Older(walk.cursor) \ page : e.time >= f.time
  BY PageProperties
<1>6. full => /\ cursor \in Nat
              /\ \E e \in page : e.time = cursor
              /\ \A e \in page : e.time >= cursor
  BY <1>5, CursorProperties
<1> HIDE DEF full, cursor
<1>7. /\ walk.start \subseteq audit /\ ~walk.twice
      /\ walk.cursor = None => walk.seen = {}
      /\ walk.cursor # None =>
            /\ \A e \in walk.seen : e.time >= walk.cursor
            /\ \A e \in walk.start :
                  Alone(e) /\ e.time >= walk.cursor => e \in walk.seen
  BY <1>1 DEF WalkInv
<1>8. /\ \A e \in audit : e.time \in Nat
      /\ \A e \in walk.seen : e.time \in Nat
      /\ walk.cursor # None => walk.cursor \in Nat
      /\ None \notin Nat
  BY <1>3 DEF TypeInv, AuditOK, AuditEvent
<1>9. Older(walk.cursor) =
        {e \in audit : walk.cursor = None \/ e.time < walk.cursor}
  BY DEF Older
<1>10. page \cap walk.seen = {}
  BY <1>5, <1>7, <1>8, <1>9
<1>11. ~walk'.twice
  BY <1>4, <1>7, <1>10
<1>12. ASSUME NEW e \in walk.start, Alone(e), ~full
       PROVE  e \in walk'.seen
  <2>1. e \in Older(walk.cursor) => e \in page
    BY <1>5, <1>12
  <2>2. e \notin Older(walk.cursor) => e \in walk.seen
    BY <1>7, <1>8, <1>9, <1>12
  <2> QED BY <1>4, <2>1, <2>2
<1>13. ASSUME NEW e \in walk.start, Alone(e), full, e.time >= cursor
       PROVE  e \in walk'.seen
  <2>1. CASE e \notin Older(walk.cursor)
    BY <1>4, <1>7, <1>8, <1>9, <1>13, <2>1
  <2>2. CASE e \in Older(walk.cursor)
    <3> SUFFICES ASSUME e \notin page
                 PROVE  FALSE
      BY <1>4
    <3>1. PICK f \in page : f.time = cursor
      BY <1>6, <1>13
    <3>2. f.time >= e.time /\ f # e /\ f \in audit
      BY <1>5, <2>2
    <3>3. e.time \in Nat /\ f.time \in Nat
      BY <1>5, <1>7, <1>8
    <3>4. f.time = e.time
      BY <1>13, <3>1, <3>2, <3>3
    <3> QED BY <1>13, <3>2, <3>4 DEF Alone
  <2> QED BY <2>1, <2>2
<1>14. ASSUME NEW e \in walk'.seen, full
       PROVE  e.time >= cursor
  <2>1. CASE e \in page
    BY <1>6, <1>14, <2>1
  <2>2. CASE e \in walk.seen
    <3>1. PICK f \in page : f.time = cursor
      BY <1>6, <1>14
    <3> QED BY <1>5, <1>7, <1>8, <1>9, <2>2, <3>1
  <2> QED BY <1>4, <1>14, <2>1, <2>2
<1>15. \A e : Alone(e)' <=> Alone(e)
  BY <1>1 DEF Alone
<1>16. walk'.start \subseteq audit'
  BY <1>1, <1>4, <1>7
<1>17. CASE full
  <2>1. walk'.at = "page" /\ walk'.cursor = cursor /\ cursor # None
    BY <1>4, <1>6, <1>8, <1>17
  <2> QED BY <1>4, <1>11, <1>13, <1>14, <1>15, <1>16, <1>17, <2>1 DEF WalkInv
<1>18. CASE ~full
  <2>1. walk'.at = "done"
    BY <1>4, <1>18
  <2> QED BY <1>4, <1>11, <1>12, <1>15, <1>16, <1>18, <2>1 DEF WalkInv
<1> QED BY <1>17, <1>18

\* Inductive step: whatever is recorded meanwhile.
LEMMA WalkInductive ==
    ASSUME TypeInv, WalkInv, [Next]_vars
    PROVE  WalkInv'
<1>1. CASE StartWalk
  BY <1>1, StartWalkInv
<1>2. CASE ReadPage
  BY <1>2, ReadPageWalkInv
<1>3. ASSUME NEW h \in Handlers, HandlerStep(h)
      PROVE  audit \subseteq audit' /\ UNCHANGED walk
  <2>1. CASE Audit(h)
    BY <2>1 DEF Audit
  <2>2. CASE ~Audit(h)
    BY <1>3, <2>2 DEF HandlerStep, SubmitExecutionEvents, GetExecution,
         CreateExecution, ReadBack, UpdateEvent, CancelExecution, Cancel,
         SubmitLogChunks, SaveLogChunk, Receive, rowVars
  <2> QED BY <2>1, <2>2
<1>4. CASE Tick \/ UNCHANGED vars
  BY <1>4, AuditGrowsWalkInv DEF Tick, rowVars, vars
<1> QED BY <1>1, <1>2, <1>3, <1>4, AuditGrowsWalkInv DEF Next

\* Who follows the cursors to the end has read every event that was there
\* when it began, unless another has the same time, and none twice, whatever
\* is recorded meanwhile (ListAuditEvents, store.go:668-702).
THEOREM WalkCompleteHolds == Spec => []WalkComplete
<1>1. Init => WalkInv
  BY DEF Init, WalkInv, NoWalk
<1>2. TypeInv /\ WalkInv /\ [Next]_vars => WalkInv'
  BY WalkInductive
<1> QED BY <1>1, <1>2, TypesHold, WalkInvSuffices, PTL DEF Spec

=============================================================================

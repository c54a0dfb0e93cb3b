----------------------------- MODULE Executions -----------------------------
(***************************************************************************)
(* What the controller keeps of executions: their rows, the chunks of      *)
(* their output and the audit trail (internal/controller/api/api.go,       *)
(* internal/controller/store/store.go).                                    *)
(*                                                                         *)
(* Every statement of the database is a step, so requests interleave       *)
(* between statements, and each may fail.  A row of an execution gets a    *)
(* fresh identifier that no answer ever tells; whoever names one has read  *)
(* it from the database.                                                   *)
(***************************************************************************)
EXTENDS Naturals, Sequences, FiniteSets, FiniteSetsExt

CONSTANTS
    Handlers,      \* the requests that may be in progress at once
    Rows,          \* the identifiers uuid.New gives to rows of executions
    Foreign,       \* those that daemons give to their executions
    Assignments,   \* the assignments in the database
    Unknown,       \* an assignment that is not
    Chunks,        \* chunks of output that are submitted
    EventBatches,  \* the events that one request submits, in sequence
    ChunkBatches,  \* the chunks that one request submits, in sequence; an
                   \* empty batch of either changes nothing and is left out
    None,
    Limit,         \* the page size of a list
    MaxRequests,   \* bound: how many requests are made
    MaxFailures,   \* bound: how many statements fail
    MaxTime        \* bound: how far the clock goes

Ids == Rows \cup Foreign

States == {"queued", "running", "succeeded", "failed", "timed_out", "canceled"}

isTerminal(state) == state \in {"succeeded", "failed", "timed_out", "canceled"}

Event == [execution: Ids, assignment: Assignments \cup {Unknown}, state: States]

\* A chunk of output; its place is its stream and its sequence number.
LogChunk == [id: Nat, execution: Ids, place: Nat, payload: Nat]

ASSUME ExecutionsAssumption ==
    /\ Rows \cap Foreign = {}
    /\ None \notin Ids \cup Nat \cup {"set"}
    /\ Unknown \notin Assignments
    /\ Chunks \subseteq LogChunk
    /\ EventBatches \subseteq Seq(Event) \ {<<>>}
    /\ ChunkBatches \subseteq Seq(Chunks) \ {<<>>}
    /\ Limit \in Nat \ {0}
    /\ MaxRequests \in Nat
    /\ MaxFailures \in Nat
    /\ MaxTime \in Nat

VARIABLES
    executions,  \* the rows of table executions,
    logs,        \* of table log_chunks,
    audit,       \* and of table audit_events
    request,     \* what each handler does
    answered,    \* the events of requests that were answered with ok
    acked,       \* and the chunks
    submitted,   \* the chunks of all requests
    walk,        \* a client that reads the audit trail page by page
    now, requests, failures

rowVars == <<executions, logs, audit>>
clientVars == <<answered, acked, submitted>>
vars == <<executions, logs, audit, request, answered, acked, submitted, walk,
          now, requests, failures>>

Idle == [at |-> "idle"]
NoWalk == [at |-> "idle"]

Init ==
    /\ executions = [id \in Ids |-> None]
    /\ logs = {}
    /\ audit = {}
    /\ request = [h \in Handlers |-> Idle]
    /\ answered = {}
    /\ acked = {}
    /\ submitted = {}
    /\ walk = NoWalk
    /\ now = 0
    /\ requests = 0
    /\ failures = 0

At(h, step) == request[h].at = step
Become(h, r) == request' = [request EXCEPT ![h] = r]
Fails == failures < MaxFailures /\ failures' = failures + 1

\* A request comes in.
Receive(h, r) ==
    /\ At(h, "idle")
    /\ requests < MaxRequests
    /\ requests' = requests + 1
    /\ Become(h, r)
    /\ UNCHANGED <<rowVars, answered, acked, walk, now, failures>>

-----------------------------------------------------------------------------
(* Events of executions.                                                   *)

SubmitExecutionEvents(h, events) ==
    /\ Receive(h, [at |-> "get", rest |-> events, all |-> events])
    /\ UNCHANGED submitted

\* The columns of error_message can only be read once they are written.
Readable(id) == executions[id] # None /\ executions[id].message # None

\* The loop turns to the next event, and the request is answered after the
\* last, whatever became of each.
NextEvent(h) ==
    LET r == request[h] IN
    IF Len(r.rest) > 1
    THEN /\ Become(h, [at |-> "get", rest |-> Tail(r.rest), all |-> r.all])
         /\ UNCHANGED answered
    ELSE /\ Become(h, Idle)
         /\ answered' = answered \cup {r.all[i] : i \in DOMAIN r.all}

Handle(h, step, id) ==
    Become(h, [at |-> step, rest |-> request[h].rest, all |-> request[h].all,
               id |-> id])

\* GetExecution, of which any error means that there is no such execution.
GetExecution(h) ==
    /\ At(h, "get")
    /\ LET id == Head(request[h].rest).execution IN
       \/ Readable(id) /\ Handle(h, "update", id) /\ UNCHANGED failures
       \/ ~Readable(id) /\ Handle(h, "create", id) /\ UNCHANGED failures
       \/ Fails /\ Handle(h, "create", id)
    /\ UNCHANGED <<rowVars, clientVars, walk, now, requests>>

NewRow(assignment) ==
    [assignment |-> assignment, state |-> "queued", started |-> FALSE,
     finished |-> FALSE, message |-> None]

\* CreateExecution, which inserts a row under an identifier of its own,
CreateExecution(h) ==
    /\ At(h, "create")
    /\ LET assignment == Head(request[h].rest).assignment IN
       \/ /\ assignment \in Assignments
          /\ \E row \in {r \in Rows : executions[r] = None} :
                /\ executions' = [executions EXCEPT ![row] = NewRow(assignment)]
                /\ Handle(h, "read", row)
          /\ UNCHANGED <<answered, failures>>
       \/ /\ assignment \notin Assignments
          /\ NextEvent(h)
          /\ UNCHANGED <<executions, failures>>
       \/ Fails /\ NextEvent(h) /\ UNCHANGED executions
    /\ UNCHANGED <<logs, audit, acked, submitted, walk, now, requests>>

\* and reads that row.
ReadBack(h) ==
    /\ At(h, "read")
    /\ \/ /\ Readable(request[h].id)
          /\ Handle(h, "update", request[h].id)
          /\ UNCHANGED <<answered, failures>>
       \/ ~Readable(request[h].id) /\ NextEvent(h) /\ UNCHANGED failures
       \/ Fails /\ NextEvent(h)
    /\ UNCHANGED <<rowVars, acked, submitted, walk, now, requests>>

\* UPDATE executions ... WHERE id = ..., whatever the row held.
UpdateExecutionState(id, state, started, finished) ==
    executions' =
        [executions EXCEPT ![id] =
            IF @ = None THEN None
            ELSE [@ EXCEPT !.state = state, !.started = started,
                           !.finished = finished, !.message = "set"]]

\* Mutant of UpdateEvent: only what succeeded or failed has finished.
UpdateEventUnfinished(h) ==
    /\ At(h, "update")
    /\ LET state == Head(request[h].rest).state IN
       UpdateExecutionState(request[h].id, state, state = "running",
                            state \in {"succeeded", "failed"})
    /\ NextEvent(h)
    /\ UNCHANGED <<logs, audit, acked, submitted, walk, now, requests,
                   failures>>

\* The event is written over the execution.
UpdateEvent(h) ==
    /\ At(h, "update")
    /\ LET state == Head(request[h].rest).state IN
       \/ /\ UpdateExecutionState(request[h].id, state, state = "running",
                                  isTerminal(state))
          /\ UNCHANGED failures
       \/ Fails /\ UNCHANGED executions
    /\ NextEvent(h)
    /\ UNCHANGED <<logs, audit, acked, submitted, walk, now, requests>>

-----------------------------------------------------------------------------
(* Cancellation and the audit trail.                                       *)

CancelExecution(h, id) ==
    /\ Receive(h, [at |-> "cancel", id |-> id])
    /\ UNCHANGED submitted

\* A failure is answered with 500, and is not audited; an execution that is
\* not there is canceled like any other.
Cancel(h) ==
    /\ At(h, "cancel")
    /\ \/ /\ UpdateExecutionState(request[h].id, "canceled", FALSE, TRUE)
          /\ Become(h, [at |-> "audit", time |-> now])
          /\ UNCHANGED failures
       \/ Fails /\ Become(h, Idle) /\ UNCHANGED executions
    /\ UNCHANGED <<logs, audit, clientVars, walk, now, requests>>

\* INSERT INTO audit_events, whose failure nobody looks at.
Audit(h) ==
    /\ At(h, "audit")
    /\ \/ /\ audit' = audit \cup {[id |-> Cardinality(audit),
                                   time |-> request[h].time]}
          /\ UNCHANGED failures
       \/ Fails /\ UNCHANGED audit
    /\ Become(h, Idle)
    /\ UNCHANGED <<executions, logs, clientVars, walk, now, requests>>

Tick ==
    /\ now < MaxTime
    /\ now' = now + 1
    /\ UNCHANGED <<rowVars, request, clientVars, walk, requests, failures>>

-----------------------------------------------------------------------------
(* Output.                                                                 *)

SubmitLogChunks(h, chunks) ==
    /\ Receive(h, [at |-> "save", rest |-> chunks, all |-> chunks])
    /\ submitted' = submitted \cup {chunks[i] : i \in DOMAIN chunks}

\* UNIQUE(execution_id, stream, sequence).
SamePlace(c, d) == c.execution = d.execution /\ c.place = d.place

\* Why the INSERT of a chunk fails: there is no such execution, or its
\* identifier is that of a chunk at another place and its own place is free; if
\* that is taken, the row there is updated and the identifier is not looked at.
Rejected(c) ==
    \/ executions[c.execution] = None
    \/ /\ \E d \in logs : d.id = c.id
       /\ ~\E d \in logs : SamePlace(c, d)

\* INSERT ... ON CONFLICT DO UPDATE SET payload.
Upserted(c) ==
    IF \E d \in logs : SamePlace(c, d)
    THEN {IF SamePlace(c, d) THEN [d EXCEPT !.payload = c.payload] ELSE d :
            d \in logs}
    ELSE logs \cup {c}

\* Mutant of SaveLogChunk: a chunk that is rejected is skipped.
SaveLogChunkOrSkip(h) ==
    /\ At(h, "save")
    /\ LET r == request[h]
           c == Head(r.rest)
       IN
       /\ logs' = IF Rejected(c) THEN logs ELSE Upserted(c)
       /\ \/ /\ Len(r.rest) > 1
             /\ Become(h, [r EXCEPT !.rest = Tail(@)])
             /\ UNCHANGED acked
          \/ /\ Len(r.rest) = 1
             /\ Become(h, Idle)
             /\ acked' = acked \cup {r.all[i] : i \in DOMAIN r.all}
    /\ UNCHANGED <<executions, audit, answered, submitted, walk, now, requests,
                   failures>>

\* SaveLogChunks stops at the first chunk that fails, those before it stay.
SaveLogChunk(h) ==
    /\ At(h, "save")
    /\ LET r == request[h]
           c == Head(r.rest)
       IN
       \/ /\ ~Rejected(c)
          /\ logs' = Upserted(c)
          /\ \/ /\ Len(r.rest) > 1
                /\ Become(h, [r EXCEPT !.rest = Tail(@)])
                /\ UNCHANGED acked
             \/ /\ Len(r.rest) = 1
                /\ Become(h, Idle)
                /\ acked' = acked \cup {r.all[i] : i \in DOMAIN r.all}
          /\ UNCHANGED failures
       \/ /\ \/ Rejected(c) /\ UNCHANGED failures
             \/ Fails
          /\ Become(h, Idle)
          /\ UNCHANGED <<logs, acked>>
    /\ UNCHANGED <<executions, audit, answered, submitted, walk, now, requests>>

-----------------------------------------------------------------------------
(* Reading a list page by page.                                            *)

\* Mutant of Older: a page begins with the time the one before ended with.
OlderOrSame(cursor) == {e \in audit : cursor = None \/ e.time <= cursor}

\* What comes after the cursor; an empty cursor is in front of everything.
Older(cursor) == {e \in audit : cursor = None \/ e.time < cursor}

\* ORDER BY created_at DESC LIMIT: equal times come in any order.
Pages(cursor) ==
    {page \in SUBSET Older(cursor) :
        /\ Cardinality(page) = Min({Limit, Cardinality(Older(cursor))})
        /\ \A e \in page, f \in Older(cursor) \ page : e.time >= f.time}

StartWalk ==
    /\ walk.at = "idle"
    /\ walk' = [at |-> "page", cursor |-> None, start |-> audit, seen |-> {},
                twice |-> FALSE]
    /\ UNCHANGED <<rowVars, request, clientVars, now, requests, failures>>

\* The next cursor is the time of the last event of a full page.
ReadPage ==
    /\ walk.at = "page"
    /\ \E page \in Pages(walk.cursor) :
          LET full == Cardinality(page) = Limit IN
          walk' = [walk EXCEPT
                     !.at = IF full THEN "page" ELSE "done",
                     !.cursor = IF full THEN Min({e.time : e \in page}) ELSE @,
                     !.seen = @ \cup page,
                     !.twice = @ \/ page \cap walk.seen # {}]
    /\ UNCHANGED <<rowVars, request, clientVars, now, requests, failures>>

-----------------------------------------------------------------------------
HandlerStep(h) ==
    \/ \E events \in EventBatches : SubmitExecutionEvents(h, events)
    \/ GetExecution(h) \/ CreateExecution(h) \/ ReadBack(h) \/ UpdateEvent(h)
    \/ \E id \in Ids : CancelExecution(h, id)
    \/ Cancel(h) \/ Audit(h)
    \/ \E chunks \in ChunkBatches : SubmitLogChunks(h, chunks)
    \/ SaveLogChunk(h)

Next ==
    \/ \E h \in Handlers : HandlerStep(h)
    \/ Tick \/ StartWalk \/ ReadPage

Spec == Init /\ [][Next]_vars

-----------------------------------------------------------------------------
(* Properties.                                                             *)

Row == [assignment: Assignments, state: States, started: BOOLEAN,
        finished: BOOLEAN, message: {None, "set"}]

Request ==
    {Idle} \cup [at: {"get"}, rest: Seq(Event), all: Seq(Event)]
           \cup [at: {"create", "read", "update"}, rest: Seq(Event),
                 all: Seq(Event), id: Ids]
           \cup [at: {"cancel"}, id: Ids]
           \cup [at: {"audit"}, time: 0 .. MaxTime]
           \cup [at: {"save"}, rest: Seq(Chunks), all: Seq(Chunks)]

\* Every variable has its type; an execution has a time of finishing exactly
\* in a final state, one of starting at most while it runs, and only a row
\* that no event or cancellation has reached cannot be read.
TypeOK ==
    /\ executions \in [Ids -> Row \cup {None}]
    /\ \A id \in Ids : executions[id] # None =>
          /\ executions[id].finished <=> isTerminal(executions[id].state)
          /\ executions[id].started => executions[id].state = "running"
          /\ executions[id].message = None => executions[id].state = "queued"
    /\ logs \subseteq LogChunk
    /\ audit \subseteq [id: Nat, time: 0 .. MaxTime]
    /\ request \in [Handlers -> Request]
    /\ answered \subseteq Event
    /\ acked \subseteq Chunks /\ submitted \subseteq Chunks
    /\ walk.at \in {"idle", "page", "done"}
    /\ now \in 0 .. MaxTime
    /\ requests \in 0 .. MaxRequests
    /\ failures \in 0 .. MaxFailures

\* Output that was accepted is kept, whatever is resent, in whatever order,
\* and whatever fails: its place holds a payload that was submitted for it
\* ("persists log chunks idempotently", store.go:619-632).
AckedChunksStay ==
    \A c \in acked :
        \E d \in logs, s \in submitted :
            SamePlace(c, d) /\ SamePlace(c, s) /\ d.payload = s.payload

\* A client that follows the cursors to the end has read every event that
\* was there when it began, unless another has the same time, and has read
\* none twice, whatever was recorded meanwhile (ListAuditEvents,
\* store.go:668-702; the other lists are read in the same way).
WalkComplete ==
    /\ walk.at # "idle" => ~walk.twice
    /\ walk.at = "done" =>
          \A e \in walk.start :
              (\A f \in audit \ {e} : f.time # e.time) => e \in walk.seen

\* "Create execution placeholder if it does not exist" (api.go:197): an event
\* of an assignment that was accepted has an execution.
EventsMakeExecutions ==
    \A e \in answered :
        e.assignment \in Assignments => executions[e.execution] # None

=============================================================================

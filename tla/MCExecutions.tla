---------------------------- MODULE MCExecutions ----------------------------
(* An instance of Executions: two requests at a time, up to two rows.       *)
EXTENDS Executions

CONSTANTS x, r1, r2, a

Ev(id, assignment, state) ==
    [execution |-> id, assignment |-> assignment, state |-> state]

\* The daemon reports a run in one request; an event arrives late for a row
\* that somebody knows of; one names an assignment that is gone.
MCEventBatches ==
    {<<Ev(x, a, "running"), Ev(x, a, "succeeded")>>,
     <<Ev(r1, a, "timed_out")>>, <<Ev(r1, a, "running")>>,
     <<Ev(x, Unknown, "failed")>>}

Chunk(id, execution, place, payload) ==
    [id |-> id, execution |-> execution, place |-> place, payload |-> payload]

MCChunks ==
    {Chunk(1, r1, 1, 1), Chunk(1, r1, 1, 2), Chunk(1, r1, 2, 1),
     Chunk(2, r1, 2, 1), Chunk(3, x, 1, 1)}

\* Two chunks of a row, then the first again with more in it; one whose
\* identifier is taken; and one of an execution that has no row.
MCChunkBatches ==
    {<<Chunk(1, r1, 1, 1), Chunk(2, r1, 2, 1)>>, <<Chunk(1, r1, 1, 2)>>,
     <<Chunk(2, r1, 2, 1), Chunk(3, x, 1, 1)>>, <<Chunk(1, r1, 2, 1)>>}

=============================================================================

---------------------------- MODULE MCScheduler ----------------------------
(***************************************************************************)
(* Small instances of Scheduler: the requests a model run may Add.         *)
(***************************************************************************)
EXTENDS Scheduler

CONSTANTS i1, i2, good, bad

Req(id, gen, on, cron) ==
    [id |-> id, generation |-> gen, enabled |-> on, cron |-> cron]

\* One id in three generations: the second in two versions, one of them
\* disabled, the third with an expression that is refused; and another id.
MCRequests == {Req(i1, 1, TRUE, good), Req(i1, 2, FALSE, good),
               Req(i1, 2, TRUE, good), Req(i1, 3, TRUE, bad),
               Req(i2, 1, TRUE, good)}

MCResults == {[state |-> "succeeded", out |-> Streams],
              [state |-> "failed", out |-> {"stderr"}],
              [state |-> "timed_out", out |-> {}]}
=============================================================================

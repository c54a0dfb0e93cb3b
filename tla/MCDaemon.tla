------------------------------ MODULE MCDaemon ------------------------------
(***************************************************************************)
(* Small instances of Daemon.                                              *)
(***************************************************************************)
EXTENDS Daemon

CONSTANTS i1, good, bad

Req(gen, on, cron) ==
    [id |-> i1, generation |-> gen, enabled |-> on, cron |-> cron]

\* Two enabled generations of one assignment.
MCValidRequests == {Req(1, TRUE, good), Req(2, TRUE, good)}

\* An assignment, a version that is refused, one that disables it and one that
\* enables it again.
MCVersions == {Req(1, TRUE, good), Req(2, TRUE, bad), Req(3, FALSE, good),
               Req(4, TRUE, good)}

\* One result with output on both streams, and one with output on stderr only.
MCOneResult == {[state |-> "timed_out", out |-> Streams]}
MCResults == MCOneResult \cup {[state |-> "failed", out |-> {"stderr"}]}
=============================================================================

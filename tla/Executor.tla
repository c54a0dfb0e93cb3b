------------------------------- MODULE Executor -------------------------------
(***************************************************************************)
(* One call of Run of internal/daemon/executor: a command is started as    *)
(* the leader of a process group of its own, its output is copied into a   *)
(* BoundedWriter, and Run waits for it or for its deadline, whichever      *)
(* comes first.  The scheduler then reads the result (evaluateState).      *)
(*                                                                         *)
(* Run's goroutine, the goroutine it leaves in cmd.Wait, and those of      *)
(* os/exec that copy the output and watch the context go on side by side,  *)
(* and so do the processes: the leader may start children, which may leave *)
(* the group and may hold its output open.  One pipe stands for the two    *)
(* (stdout and stderr); of a byte only its number is kept.  The context is *)
(* the scheduler's, which has a deadline and is not cancelled before Run   *)
(* returns.                                                                *)
(***************************************************************************)
EXTENDS Naturals, Sequences

CONSTANTS
    Leader,     \* the process of the command
    Children,   \* the processes that it may start
    Limit,      \* logLimit
    MaxOutput   \* bound: how many bytes the processes print

ASSUME ExecutorAssumption ==
    /\ Leader \notin Children
    /\ Limit \in Nat \ {0}
    /\ MaxOutput \in Nat

Processes == Children \cup {Leader}

VARIABLES
    main,       \* where Run is, and after it the scheduler
    waiter,     \* where the goroutine in cmd.Wait is
    watcher,    \* what the goroutine of os/exec that watches the context did
    expired,    \* ctx.Err() # nil
    status,     \* what became of the leader
    reaped,     \* it has been waited for
    born,       \* the processes started so far,
    alive,      \* those of them that run,
    group,      \* those in the leader's group
    holders,    \* and those that hold the write end of the pipe
    printed,    \* how many bytes went into the pipe
    copied,     \* how many of them the BoundedWriter was given
    buf, full,  \* its fields
    state       \* Result.State

goVars == <<main, waiter, watcher, expired>>
processVars == <<status, reaped, born, alive, group, holders, printed>>
writerVars == <<copied, buf, full>>
vars == <<goVars, processVars, writerVars, state>>

Init ==
    /\ main = "start"
    /\ waiter = "none"
    /\ watcher = "none"
    /\ expired = FALSE
    /\ status = "none"
    /\ reaped = FALSE
    /\ born = {}
    /\ alive = {}
    /\ group = {}
    /\ holders = {}
    /\ printed = 0
    /\ copied = 0
    /\ buf = <<>>
    /\ full = FALSE
    /\ state = "none"

-----------------------------------------------------------------------------
(* The processes.                                                          *)

\* Process p starts c: in its own group or a new one, with its output or not.
Fork(p, c) ==
    /\ p \in alive
    /\ c \notin born
    /\ born' = born \cup {c}
    /\ alive' = alive \cup {c}
    /\ group' \in {group} \cup IF p \in group THEN {group \cup {c}} ELSE {}
    /\ holders' \in
           {holders} \cup IF p \in holders THEN {holders \cup {c}} ELSE {}
    /\ UNCHANGED <<goVars, status, reaped, printed, writerVars, state>>

Emit(p) ==
    /\ p \in holders
    /\ printed < MaxOutput
    /\ printed' = printed + 1
    /\ UNCHANGED <<goVars, status, reaped, born, alive, group, holders,
                   writerVars, state>>

\* The processes ps end, with the given status if the leader is among them.
End(ps, leaderStatus) ==
    /\ alive' = alive \ ps
    /\ holders' = holders \ ps
    /\ status' = IF Leader \in ps \cap alive THEN leaderStatus ELSE status

Exit(p) ==
    /\ p \in alive
    /\ \E s \in {"zero", "nonzero"} : End({p}, s)
    /\ UNCHANGED <<goVars, reaped, born, group, printed, writerVars, state>>

ProcessStep ==
    \E p \in Processes : Emit(p) \/ Exit(p) \/ \E c \in Children : Fork(p, c)

-----------------------------------------------------------------------------
(* BoundedWriter.                                                          *)

\* The last n elements of s.
LastOf(s, n) == SubSeq(s, Len(s) - n + 1, Len(s))

\* Mutant of Write: the bytes that no longer fit are kept.
WriteUncut(p) ==
    \/ Len(p) >= Limit /\ buf' = LastOf(p, Limit) /\ full' = TRUE
    \/ Len(p) < Limit /\ buf' = buf \o p
         /\ full' = (full \/ Len(buf) + Len(p) > Limit)

\* Mutant of Write: a write that pushes others out replaces them all.
WriteOver(p) ==
    \/ Len(p) >= Limit /\ buf' = LastOf(p, Limit) /\ full' = TRUE
    \/ /\ Len(p) < Limit
       /\ buf' = IF Len(buf) + Len(p) <= Limit THEN buf \o p ELSE p
       /\ full' = (full \/ Len(buf) + Len(p) > Limit)

Write(p) ==
    \/ /\ Len(p) >= Limit
       /\ buf' = LastOf(p, Limit)
       /\ full' = TRUE
    \/ /\ Len(p) < Limit
       /\ Len(buf) + Len(p) <= Limit
       /\ buf' = buf \o p
       /\ UNCHANGED full
    \/ /\ Len(p) < Limit
       /\ Len(buf) + Len(p) > Limit
       /\ LET over == Len(buf) + Len(p) - Limit IN
             buf' = SubSeq(buf, over + 1, Len(buf)) \o p
       /\ full' = TRUE

\* What Run returns as the output: the buffer, after a marker if it is not all.
Bytes == [truncated |-> full, tail |-> buf]

\* Mutant of Copy: it stops once the writer is full.
CopyIfRoom ==
    /\ waiter # "none"
    /\ Len(buf) < Limit
    /\ \E n \in 1 .. (printed - copied) :
          /\ copied' = copied + n
          /\ Write([i \in 1 .. n |-> copied + i])
    /\ UNCHANGED <<goVars, processVars, state>>

\* The copying goroutine reads what there is in one read or several.
Copy ==
    /\ waiter # "none"
    /\ \E n \in 1 .. (printed - copied) :
          /\ copied' = copied + n
          /\ Write([i \in 1 .. n |-> copied + i])
    /\ UNCHANGED <<goVars, processVars, state>>

-----------------------------------------------------------------------------
(* os/exec.                                                                *)

\* The watching goroutine kills the leader alone; Wait learns that it did.
Watch ==
    /\ watcher = "watching"
    /\ expired
    /\ watcher' = IF reaped THEN "late" ELSE "killed"
    /\ End(IF reaped THEN {} ELSE {Leader}, "killed")
    /\ UNCHANGED <<main, waiter, expired, reaped, born, group, printed,
                   writerVars, state>>

\* Wait reaps the leader,
Reap ==
    /\ waiter = "reaping"
    /\ Leader \notin alive
    /\ reaped' = TRUE
    /\ waiter' = "unwatching"
    /\ UNCHANGED <<main, watcher, expired, status, born, alive, group, holders,
                   printed, writerVars, state>>

\* stops the watching goroutine if it has not fired,
Unwatch ==
    /\ waiter = "unwatching"
    /\ waiter' = "copying"
    /\ watcher' = IF watcher = "watching" THEN "stopped" ELSE watcher
    /\ UNCHANGED <<main, expired, processVars, writerVars, state>>

\* and waits for the end of the output: until nobody holds the pipe.
EndOfOutput ==
    /\ waiter = "copying"
    /\ holders = {}
    /\ copied = printed
    /\ waiter' = "done"
    /\ UNCHANGED <<main, watcher, expired, processVars, writerVars, state>>

-----------------------------------------------------------------------------
(* Run.                                                                    *)

Start ==
    /\ main = "start"
    /\ main' = "select"
    /\ waiter' = "reaping"
    /\ watcher' = "watching"
    /\ status' = "running"
    /\ born' = {Leader}
    /\ alive' = {Leader}
    /\ group' = {Leader}
    /\ holders' = {Leader}
    /\ UNCHANGED <<expired, reaped, printed, writerVars, state>>

\* An empty command, or one that cannot be started.
StartFails ==
    /\ main = "start"
    /\ main' = "returned"
    /\ state' = "failed"
    /\ UNCHANGED <<waiter, watcher, expired, processVars, writerVars>>

SelectDone ==
    /\ main = "select"
    /\ waiter = "done"
    /\ main' = "returned"
    /\ state' = IF status = "zero" /\ watcher # "killed"
                  THEN "succeeded" ELSE "failed"
    /\ UNCHANGED <<waiter, watcher, expired, processVars, writerVars>>

SelectExpired ==
    /\ main = "select"
    /\ expired
    /\ main' = "kill"
    /\ UNCHANGED <<waiter, watcher, expired, processVars, writerVars, state>>

\* killProcessTree: Getpgid knows no process that has been reaped, and then
\* Process.Kill does nothing either.
KillProcessTree ==
    /\ main = "kill"
    /\ End(IF reaped THEN {} ELSE group, "killed")
    /\ main' = "drain"
    /\ UNCHANGED <<waiter, watcher, expired, reaped, born, group, printed,
                   writerVars, state>>

\* Mutant of Drain: Run does not wait for the goroutine in cmd.Wait.
DrainAtOnce ==
    /\ main = "drain"
    /\ main' = "returned"
    /\ state' = "timed_out"
    /\ UNCHANGED <<waiter, watcher, expired, processVars, writerVars>>

Drain ==
    /\ main = "drain"
    /\ waiter = "done"
    /\ main' = "returned"
    /\ state' = "timed_out"
    /\ UNCHANGED <<waiter, watcher, expired, processVars, writerVars>>

\* Mutant of EvaluateState: the state is that of the result.
EvaluateNothing ==
    /\ main = "returned"
    /\ main' = "evaluated"
    /\ UNCHANGED <<waiter, watcher, expired, processVars, writerVars, state>>

EvaluateState ==
    /\ main = "returned"
    /\ main' = "evaluated"
    /\ state' = IF state = "failed" /\ expired THEN "timed_out" ELSE state
    /\ UNCHANGED <<waiter, watcher, expired, processVars, writerVars>>

Expire ==
    /\ main # "evaluated"
    /\ ~expired
    /\ expired' = TRUE
    /\ UNCHANGED <<main, waiter, watcher, processVars, writerVars, state>>

-----------------------------------------------------------------------------
MainStep ==
    \/ Start \/ StartFails
    \/ SelectDone \/ SelectExpired
    \/ KillProcessTree
    \/ Drain
    \/ EvaluateState

WaiterStep == Reap \/ Unwatch \/ EndOfOutput

Next == MainStep \/ WaiterStep \/ Watch \/ Copy \/ Expire \/ ProcessStep

\* The goroutines go on and the timer fires; a process may run for ever.
Fairness ==
    /\ WF_vars(MainStep)
    /\ WF_vars(WaiterStep)
    /\ WF_vars(Watch)
    /\ WF_vars(Copy)
    /\ WF_vars(Expire)

Spec == Init /\ [][Next]_vars /\ Fairness

-----------------------------------------------------------------------------
(* Properties.                                                             *)

\* Every variable has its type: the buffer never grows beyond the limit, and
\* only processes that run hold the pipe.
TypeOK ==
    /\ main \in {"start", "select", "kill", "drain", "returned", "evaluated"}
    /\ waiter \in {"none", "reaping", "unwatching", "copying", "done"}
    /\ watcher \in {"none", "watching", "killed", "late", "stopped"}
    /\ expired \in BOOLEAN
    /\ status \in {"none", "running", "zero", "nonzero", "killed"}
    /\ reaped \in BOOLEAN
    /\ born \subseteq Processes
    /\ alive \subseteq born
    /\ group \subseteq born
    /\ holders \subseteq alive
    /\ printed \in 0 .. MaxOutput
    /\ copied \in 0 .. printed
    /\ buf \in Seq(1 .. MaxOutput)
    /\ Len(buf) <= Limit
    /\ full \in BOOLEAN
    /\ state \in {"none", "succeeded", "failed", "timed_out"}

\* However the output is cut into reads, the buffer holds the last bytes of
\* it, in order and without a gap, and says so when bytes were dropped before
\* them (executor.go:16: "keeping the most recent bytes").
CapturesTail ==
    LET kept == Bytes.tail IN
    /\ Len(kept) = IF copied < Limit THEN copied ELSE Limit
    /\ \A i \in 1 .. Len(kept) : kept[i] = copied - Len(kept) + i
    /\ copied > Limit => Bytes.truncated

\* When Run has returned, all that was printed is captured and nobody is left
\* who could print more, after a timeout too.
ReturnsWhole ==
    main \in {"returned", "evaluated"} => holders = {} /\ copied = printed

\* A command that its deadline killed is recorded as timed out, never as
\* failed or succeeded, whichever goroutine notices the deadline first.
KilledIsTimedOut ==
    main = "evaluated" /\ status = "killed" => state = "timed_out"

\* Once the deadline has passed and no child holds the output, Run returns,
\* even if the leader would run for ever.
TimeoutEndsLeader ==
    <>[](expired /\ holders \subseteq {Leader}) => <>(main = "evaluated")
=============================================================================

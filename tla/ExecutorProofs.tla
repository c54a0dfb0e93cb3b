--------------------------- MODULE ExecutorProofs ---------------------------
(* Theorems of Executor: what one call of Run captures and reports.        *)
EXTENDS Executor, SequenceTheorems, TLAPS

-----------------------------------------------------------------------------
(* The inductive invariant.                                                *)

\* Before the command is started, and if it cannot be, there is nothing.
NothingYet ==
    waiter = "none" =>
        /\ main \in {"start", "returned", "evaluated"}
        /\ watcher = "none" /\ status = "none"
        /\ alive = {} /\ printed = 0

\* Wait reaps the leader when it has ended, and it stays so.
ReapedHasEnded ==
    /\ reaped <=> waiter \in {"unwatching", "copying", "done"}
    /\ reaped => Leader \notin alive

\* Run and the goroutine in cmd.Wait agree: Run returns after Wait, and Wait
\* after all who could print are gone and all they printed is copied.
WaitComesFirst ==
    /\ main = "start" => waiter = "none"
    /\ main \in {"returned", "evaluated"} => waiter \in {"none", "done"}
    /\ waiter = "done" => holders = {} /\ copied = printed

\* Nothing is killed before the deadline, and what was killed has failed.
KillsAreLate ==
    /\ main \in {"kill", "drain"} \/ status = "killed" => expired
    /\ main = "returned" /\ status = "killed" =>
          state \in {"failed", "timed_out"}

\* What is invariant of the processes and the goroutines,
RunInv ==
    /\ TypeOK
    /\ NothingYet
    /\ ReapedHasEnded
    /\ WaitComesFirst
    /\ KillsAreLate
    /\ KilledIsTimedOut

\* and of the writer.
IInv == RunInv /\ CapturesTail

-----------------------------------------------------------------------------
(* The bounded writer.                                                     *)

\* The last elements of a sequence.
LEMMA LastOfProperties ==
    ASSUME NEW S, NEW s \in Seq(S), NEW n \in 1 .. Len(s)
    PROVE  /\ LastOf(s, n) \in Seq(S)
           /\ Len(LastOf(s, n)) = n
           /\ \A i \in 1 .. n : LastOf(s, n)[i] = s[Len(s) - n + i]
<1> DEFINE m == Len(s) - n + 1
<1>1. Len(s) \in Nat /\ m \in 1 .. Len(s)
    BY LenProperties
<1>2. \A i \in m .. Len(s) : s[i] \in S
    BY <1>1, ElementOfSeq
<1>3. /\ SubSeq(s, m, Len(s)) \in Seq(S)
      /\ Len(SubSeq(s, m, Len(s))) =
            IF m <= Len(s) THEN Len(s) - m + 1 ELSE 0
      /\ \A i \in 1 .. Len(s) - m + 1 : SubSeq(s, m, Len(s))[i] = s[m + i - 1]
    <2> HIDE DEF m
    <2> QED
        BY <1>1, <1>2, SubSeqProperties
<1> QED
    BY <1>1, <1>3 DEF LastOf

\* What the writer keeps of the first k bytes.
Tails(b, k) ==
    /\ Len(b) = IF k < Limit THEN k ELSE Limit
    /\ \A i \in 1 .. Len(b) : b[i] = k - Len(b) + i

\* A write of the next n bytes keeps the last bytes of all, in order, and
\* notes when others were dropped.
LEMMA WriteKeepsTail ==
    ASSUME buf \in Seq(1 .. MaxOutput), full \in BOOLEAN,
           NEW k \in Nat, NEW n \in Nat \ {0}, k + n <= MaxOutput,
           Tails(buf, k), k > Limit => full,
           NEW p \in Seq(1 .. MaxOutput), Len(p) = n,
           \A i \in 1 .. n : p[i] = k + i,
           Write(p)
    PROVE  /\ buf' \in Seq(1 .. MaxOutput)
           /\ full' \in BOOLEAN
           /\ Tails(buf', k + n)
           /\ k + n > Limit => full'
<1>1. Limit \in Nat \ {0} /\ MaxOutput \in Nat /\ Len(buf) \in Nat
    BY ExecutorAssumption, LenProperties
<1>2. CASE n >= Limit /\ buf' = LastOf(p, Limit) /\ full' = TRUE
    <2>1. /\ LastOf(p, Limit) \in Seq(1 .. MaxOutput)
          /\ Len(LastOf(p, Limit)) = Limit
          /\ \A i \in 1 .. Limit : LastOf(p, Limit)[i] = p[n - Limit + i]
        BY <1>1, <1>2, Limit \in 1 .. Len(p), LastOfProperties
    <2>2. \A i \in 1 .. Limit : buf'[i] = k + n - Limit + i
        BY <1>1, <1>2, <2>1
    <2> QED
        BY <1>1, <1>2, <2>1, <2>2 DEF Tails
<1>3. CASE Len(buf) + n <= Limit /\ buf' = buf \o p /\ UNCHANGED full
    <2>1. /\ buf' \in Seq(1 .. MaxOutput)
          /\ Len(buf') = Len(buf) + n
          /\ \A i \in 1 .. Len(buf) + n :
                buf'[i] = IF i <= Len(buf) THEN buf[i] ELSE p[i - Len(buf)]
        BY <1>3, ConcatProperties
    <2>2. k < Limit /\ Len(buf) = k /\ k + n <= Limit
        BY <1>1, <1>3 DEF Tails
    <2>3. \A i \in 1 .. k + n : buf'[i] = i
        BY <1>1, <2>1, <2>2 DEF Tails
    <2> QED
        BY <1>1, <1>3, <2>1, <2>2, <2>3 DEF Tails
<1>4. CASE /\ n < Limit
           /\ Len(buf) + n > Limit
           /\ buf' = SubSeq(buf, Len(buf) + n - Limit + 1, Len(buf)) \o p
           /\ full' = TRUE
    <2> DEFINE over == Len(buf) + n - Limit
               rest == SubSeq(buf, over + 1, Len(buf))
    <2>1. /\ over \in Nat /\ over + 1 \in Int
          /\ over < Len(buf)
          /\ Len(buf) <= Limit
        BY <1>1, <1>4 DEF Tails
    <2>2. /\ rest \in Seq(1 .. MaxOutput)
          /\ Len(rest) = Len(buf) - over
          /\ \A i \in 1 .. Len(buf) - over : rest[i] = buf[over + i]
        <3>1. \A i \in over + 1 .. Len(buf) : buf[i] \in 1 .. MaxOutput
            BY <1>1, <2>1, ElementOfSeq
        <3>2. /\ rest \in Seq(1 .. MaxOutput)
              /\ Len(rest) = IF over + 1 <= Len(buf)
                               THEN Len(buf) - (over + 1) + 1 ELSE 0
              /\ \A i \in 1 .. Len(buf) - (over + 1) + 1 :
                    rest[i] = buf[over + 1 + i - 1]
            <4> HIDE DEF over
            <4> QED
                BY <1>1, <2>1, <3>1, SubSeqProperties
        <3> HIDE DEF over, rest
        <3> QED
            BY <1>1, <2>1, <3>2
    <2>3. /\ buf' \in Seq(1 .. MaxOutput)
          /\ Len(buf') = Len(rest) + n
          /\ \A i \in 1 .. Len(rest) + n :
                buf'[i] = IF i <= Len(rest) THEN rest[i] ELSE p[i - Len(rest)]
        <3>1. buf' = rest \o p
            BY <1>4
        <3> HIDE DEF rest
        <3> QED
            BY <2>2, <3>1, ConcatProperties
    <2>4. Len(rest) + n = Limit /\ k + n > Limit
        <3>1. Len(rest) = Limit - n
            <4> HIDE DEF rest
            <4> QED
                BY <1>1, <2>1, <2>2
        <3>2. k + n > Limit
            BY <1>1, <1>4 DEF Tails
        <3> HIDE DEF rest
        <3> QED
            BY <1>1, <3>1, <3>2
    <2> HIDE DEF rest, over
    <2>5. \A i \in 1 .. Limit : buf'[i] = k + n - Limit + i
        <3> TAKE i \in 1 .. Limit
        <3> DEFINE m == Len(rest)
        <3>0. /\ m \in Nat /\ m + n = Limit /\ m = Len(buf) - over
              /\ i \in 1 .. m + n
              /\ over = Len(buf) + n - Limit
            BY <1>1, <2>1, <2>2, <2>4 DEF over
        <3> HIDE DEF m
        <3>1. CASE i <= m
            <4>1. buf'[i] = rest[i] /\ rest[i] = buf[over + i]
                BY <2>2, <2>3, <3>0, <3>1 DEF m
            <4>2. over + i \in 1 .. Len(buf)
                BY <1>1, <2>1, <3>0, <3>1
            <4>3. buf[over + i] = k - Len(buf) + (over + i)
                BY <4>2 DEF Tails
            <4> QED
                BY <1>1, <2>1, <3>0, <4>1, <4>3
        <3>2. CASE i > m
            <4>1. buf'[i] = p[i - m]
                BY <2>3, <3>0, <3>2 DEF m
            <4>2. i - m \in 1 .. n
                BY <1>1, <3>0, <3>2
            <4>3. p[i - m] = k + (i - m)
                BY <4>2
            <4>4. k + (i - m) = k + n - Limit + i
                BY <1>1, <3>0
            <4> QED
                BY <4>1, <4>3, <4>4
        <3> QED
            BY <1>1, <3>0, <3>1, <3>2
    <2>6. Len(buf') = Limit
        BY <2>3, <2>4
    <2>7. Tails(buf', k + n)
        BY <1>1, <2>4, <2>5, <2>6 DEF Tails
    <2> QED
        BY <1>4, <2>3, <2>7
<1> QED
    BY <1>2, <1>3, <1>4 DEF Write

-----------------------------------------------------------------------------
(* The steps.                                                              *)

\* Before Run is called, nothing has been printed, copied or returned.
LEMMA InitHolds == Init => IInv
<1> SUFFICES ASSUME Init PROVE IInv
    OBVIOUS
<1>1. /\ <<>> \in Seq(1 .. MaxOutput) /\ Len(<<>>) = 0
      /\ Limit \in Nat \ {0} /\ MaxOutput \in Nat
    BY ExecutorAssumption, EmptySeq
<1>2. TypeOK
    <2>1. buf \in Seq(1 .. MaxOutput) /\ Len(buf) <= Limit
        BY <1>1 DEF Init
    <2>2. /\ main = "start" /\ waiter = "none" /\ watcher = "none"
          /\ expired = FALSE /\ status = "none" /\ reaped = FALSE
          /\ born = {} /\ alive = {} /\ group = {} /\ holders = {}
          /\ printed = 0 /\ copied = 0 /\ full = FALSE /\ state = "none"
        BY DEF Init
    <2>3. printed \in 0 .. MaxOutput /\ copied \in 0 .. printed
        BY <1>1, <2>2
    <2>4. born \subseteq Processes /\ alive \subseteq born
            /\ group \subseteq born /\ holders \subseteq alive
        BY <2>2
    <2>5. expired \in BOOLEAN /\ reaped \in BOOLEAN /\ full \in BOOLEAN
        BY <2>2
    <2> QED
        BY <2>1, <2>2, <2>3, <2>4, <2>5 DEF TypeOK
<1>3. CapturesTail
    BY <1>1 DEF Init, CapturesTail, Bytes
<1> QED
    BY <1>2, <1>3 DEF Init, IInv, RunInv, NothingYet, ReapedHasEnded,
        WaitComesFirst,
        KillsAreLate, KilledIsTimedOut

\* The steps but Copy leave the writer alone.
LEMMA CaptureUnchanged ==
    ASSUME CapturesTail, UNCHANGED writerVars
    PROVE  CapturesTail'
BY DEF CapturesTail, Bytes, writerVars

\* A read from the pipe, and the write of what was read into the buffer.
LEMMA CopyHolds ==
    ASSUME IInv, Copy
    PROVE  IInv'
<1> USE DEF IInv, RunInv
<1>1. PICK n \in 1 .. (printed - copied) :
          /\ copied' = copied + n
          /\ Write([i \in 1 .. n |-> copied + i])
    BY DEF Copy
<1> DEFINE p == [i \in 1 .. n |-> copied + i]
<1>2. /\ MaxOutput \in Nat /\ Limit \in Nat \ {0}
      /\ printed \in Nat /\ copied \in Nat /\ n \in Nat \ {0}
      /\ copied + n <= printed /\ printed <= MaxOutput
    BY ExecutorAssumption DEF TypeOK
<1>3. p \in Seq(1 .. MaxOutput) /\ Len(p) = n
    BY <1>2
<1>4. \A i \in 1 .. n : p[i] = copied + i
    BY <1>2
<1>5. Tails(buf, copied) /\ (copied > Limit => full)
    BY DEF CapturesTail, Bytes, Tails
<1>6. /\ buf' \in Seq(1 .. MaxOutput)
      /\ full' \in BOOLEAN
      /\ Tails(buf', copied + n)
      /\ copied + n > Limit => full'
    <2> HIDE DEF p
    <2>1. buf \in Seq(1 .. MaxOutput) /\ full \in BOOLEAN
        BY DEF TypeOK
    <2>2. Write(p)
        BY <1>1 DEF p
    <2>3. copied + n <= MaxOutput
        BY <1>2
    <2> QED
        BY <1>2, <1>3, <1>4, <1>5, <2>1, <2>2, <2>3, WriteKeepsTail
<1> HIDE DEF p
<1>7. CapturesTail'
    BY <1>1, <1>6 DEF CapturesTail, Bytes, Tails
<1>8. Len(buf') <= Limit
    BY <1>2, <1>6 DEF Tails
<1>9. TypeOK'
    BY <1>1, <1>2, <1>6, <1>8 DEF TypeOK, Copy, goVars, processVars
<1>10. waiter \notin {"none", "done"}
    BY <1>2 DEF Copy, WaitComesFirst
<1>11. NothingYet' /\ ReapedHasEnded' /\ WaitComesFirst' /\ KillsAreLate'
            /\ KilledIsTimedOut'
    BY <1>10 DEF Copy, goVars, processVars, NothingYet, ReapedHasEnded,
        WaitComesFirst, KillsAreLate, KilledIsTimedOut
<1> QED
    BY <1>7, <1>9, <1>11

\* Run's own steps.
LEMMA MainHolds ==
    ASSUME RunInv, MainStep
    PROVE  RunInv' /\ UNCHANGED writerVars
<1> USE DEF RunInv, TypeOK, NothingYet, ReapedHasEnded, WaitComesFirst,
        KillsAreLate, KilledIsTimedOut, processVars, writerVars, Processes
<1>1. CASE Start
    BY <1>1 DEF Start
<1>2. CASE StartFails
    BY <1>2 DEF StartFails
<1>3. CASE SelectDone
    BY <1>3 DEF SelectDone
<1>4. CASE SelectExpired
    BY <1>4 DEF SelectExpired
<1>5. CASE KillProcessTree
    BY <1>5 DEF KillProcessTree, End
<1>6. CASE Drain
    BY <1>6 DEF Drain
<1>7. CASE EvaluateState
    BY <1>7 DEF EvaluateState
<1> QED
    BY <1>1, <1>2, <1>3, <1>4, <1>5, <1>6, <1>7 DEF MainStep

\* The steps of os/exec and of the clock.
LEMMA LibraryHolds ==
    ASSUME RunInv, WaiterStep \/ Watch \/ Expire
    PROVE  RunInv' /\ UNCHANGED writerVars
<1> USE DEF RunInv, TypeOK, NothingYet, ReapedHasEnded, WaitComesFirst,
        KillsAreLate, KilledIsTimedOut, processVars, writerVars, Processes
<1>1. CASE Reap
    BY <1>1 DEF Reap
<1>2. CASE Unwatch
    BY <1>2 DEF Unwatch
<1>3. CASE EndOfOutput
    BY <1>3 DEF EndOfOutput
<1>4. CASE Watch
    BY <1>4 DEF Watch, End
<1>5. CASE Expire
    BY <1>5 DEF Expire
<1> QED
    BY <1>1, <1>2, <1>3, <1>4, <1>5 DEF WaiterStep

\* The steps of the processes.
LEMMA ProcessHolds ==
    ASSUME RunInv, ProcessStep
    PROVE  RunInv' /\ UNCHANGED writerVars
<1> USE ExecutorAssumption
    DEF RunInv, TypeOK, NothingYet, ReapedHasEnded, WaitComesFirst,
        KillsAreLate, KilledIsTimedOut, goVars, writerVars, Processes
<1>1. ASSUME NEW p \in Processes, Emit(p)
      PROVE  RunInv' /\ UNCHANGED writerVars
    BY <1>1 DEF Emit
<1>2. ASSUME NEW p \in Processes, Exit(p)
      PROVE  RunInv' /\ UNCHANGED writerVars
    BY <1>2 DEF Exit, End
<1>3. ASSUME NEW p \in Processes, NEW c \in Children, Fork(p, c)
      PROVE  RunInv' /\ UNCHANGED writerVars
    BY <1>3 DEF Fork
<1> QED
    BY <1>1, <1>2, <1>3 DEF ProcessStep

\* Every step keeps the invariant.
LEMMA NextHolds == IInv /\ [Next]_vars => IInv'
<1> SUFFICES ASSUME IInv, [Next]_vars PROVE IInv'
    OBVIOUS
<1>1. CASE Copy
    BY <1>1, CopyHolds
<1>2. CASE MainStep \/ WaiterStep \/ Watch \/ Expire \/ ProcessStep
    <2>1. RunInv' /\ UNCHANGED writerVars
        BY <1>2, MainHolds, LibraryHolds, ProcessHolds DEF IInv
    <2> QED
        BY <2>1, CaptureUnchanged DEF IInv
<1>3. CASE UNCHANGED vars
    BY <1>3 DEF vars, goVars, processVars, writerVars, IInv, RunInv, TypeOK,
        NothingYet, ReapedHasEnded, WaitComesFirst, KillsAreLate,
        KilledIsTimedOut, CapturesTail, Bytes
<1> QED
    BY <1>1, <1>2, <1>3 DEF Next

\* The invariant holds in every reachable state of a call of Run.
THEOREM IInvHolds == Spec => []IInv
<1> QED
    BY InitHolds, NextHolds, PTL DEF Spec

-----------------------------------------------------------------------------
(* The theorems.                                                           *)

\* The variables keep their types: the buffer stays within its limit, and
\* only processes that run can hold the pipe.
THEOREM TypeCorrect == Spec => []TypeOK
<1>1. IInv => TypeOK
    BY DEF IInv, RunInv
<1> QED
    BY <1>1, IInvHolds, PTL

\* Whatever the limit and however the output is cut into reads, the buffer
\* holds the last bytes of it (Write, executor.go:27).
THEOREM CapturesTailHolds == Spec => []CapturesTail
<1>1. IInv => CapturesTail
    BY DEF IInv
<1> QED
    BY <1>1, IInvHolds, PTL

\* However many processes a command starts, Run returns only when none of
\* them can print any more and all is captured (executor.go:96-103).
THEOREM ReturnsWholeHolds == Spec => []ReturnsWhole
<1>1. IInv => ReturnsWhole
    BY DEF IInv, RunInv, TypeOK, NothingYet, WaitComesFirst, ReturnsWhole
<1> QED
    BY <1>1, IInvHolds, PTL

\* What the deadline killed is recorded as timed out, in every order in which
\* the goroutines notice it (evaluateState, scheduler.go).
THEOREM KilledIsTimedOutHolds == Spec => []KilledIsTimedOut
<1>1. IInv => KilledIsTimedOut
    BY DEF IInv, RunInv
<1> QED
    BY <1>1, IInvHolds, PTL
=============================================================================

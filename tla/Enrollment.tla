------------------------------ MODULE Enrollment ------------------------------
(***************************************************************************)
(* How a host becomes a runner and stays one: enrollment tokens, the       *)
(* transaction that enrolls (internal/controller/store EnrollRunner),      *)
(* `monocronctl runner join' and the credentials it saves on the host,     *)
(* heartbeats, and the runner states that users set.                       *)
(*                                                                         *)
(* Statements of the database are atomic and a row that a transaction read *)
(* FOR UPDATE is locked until it ends.  A join goes on in steps, and so    *)
(* does the handler of a heartbeat; all hosts and users act side by side,  *)
(* and several hosts may be given one token.  Access tokens are told apart *)
(* by their runner alone, and versions and labels are left out: module     *)
(* Controller has the labels.                                              *)
(***************************************************************************)
EXTENDS Naturals, FiniteSets

CONSTANTS
    Tokens,     \* enrollment tokens
    Hosts,      \* machines that join
    Runners,    \* identifiers for rows of table runners
    Null,
    MaxFaults,  \* bound: how many calls and saves fail
    MaxEdits    \* bound: how many requests users make about runners

VARIABLES
    tokens,     \* table enrollment_tokens
    runners,    \* table runners: state and last_heartbeat, or Null
    join,       \* the join that goes on at each host
    saved,      \* the runner in its state file
    process,    \* the runner its monocron-runner works for
    beat,       \* the heartbeat of the host that the controller works on
    faults, edits

tableVars == <<tokens, runners>>
hostVars == <<join, saved, process>>
vars == <<tableVars, hostVars, beat, faults, edits>>

\* A token has a row, which may be past expires_at, and is consumed_by.
TokenRow == [expired: BOOLEAN, by: Runners \cup {Null}]
RunnerStates == {"pending", "live", "draining", "revoked"}
RunnerRow == [state: RunnerStates, beaten: BOOLEAN]

ASSUME EnrollmentAssumption ==
    /\ Null \notin Runners \cup TokenRow \cup RunnerRow
    /\ MaxFaults \in Nat
    /\ MaxEdits \in Nat

NoJoin == [at |-> "idle"]
NoBeat == [at |-> "idle"]

Init ==
    /\ tokens = [t \in Tokens |-> Null]
    /\ runners = [r \in Runners |-> Null]
    /\ join = [h \in Hosts |-> NoJoin]
    /\ saved = [h \in Hosts |-> Null]
    /\ process = [h \in Hosts |-> Null]
    /\ beat = [h \in Hosts |-> NoBeat]
    /\ faults = 0
    /\ edits = 0

Fault == faults < MaxFaults /\ faults' = faults + 1

-----------------------------------------------------------------------------
(* Tokens.                                                                 *)

CreateEnrollmentToken(t) ==
    /\ tokens[t] = Null
    /\ tokens' = [tokens EXCEPT ![t] = [expired |-> FALSE, by |-> Null]]
    /\ UNCHANGED <<runners, hostVars, beat, faults, edits>>

Expire(t) ==
    /\ tokens[t] # Null
    /\ ~tokens[t].expired
    /\ tokens' = [tokens EXCEPT ![t] = [expired |-> TRUE, by |-> @.by]]
    /\ UNCHANGED <<runners, hostVars, beat, faults, edits>>

-----------------------------------------------------------------------------
(* monocronctl runner join, and its request at the controller.             *)

Goto(h, next) == join' = [join EXCEPT ![h] = next]

\* The credentials that TokenStore.Load finds; Null if there are none, or none
\* that can be read.
Load(h) == saved[h]

\* With --force a host may join again; without, only if it has no state file.
Join(h, t, force) ==
    /\ join[h] = NoJoin
    /\ force \/ Load(h) = Null
    /\ Goto(h, [at |-> "select", token |-> t])
    /\ UNCHANGED <<tableVars, saved, process, beat, faults, edits>>

Locked(t) == \E g \in Hosts : join[g].at = "commit" /\ join[g].token = t

\* The token is refused if it is unknown, consumed or expired.
Valid(t) == tokens[t] # Null /\ tokens[t].by = Null /\ ~tokens[t].expired

\* Mutant of Select: the row is read without a lock.
SelectUnlocked(h) ==
    /\ join[h].at = "select"
    /\ Goto(h, IF Valid(join[h].token)
                 THEN [at |-> "commit", token |-> join[h].token] ELSE NoJoin)
    /\ UNCHANGED <<tableVars, saved, process, beat, faults, edits>>

\* Mutant of Select: a consumed token is answered with its runner once more.
SelectAgain(h) ==
    /\ join[h].at = "select"
    /\ LET t == join[h].token IN
          /\ ~Locked(t)
          /\ Goto(h, IF Valid(t) THEN [at |-> "commit", token |-> t]
                     ELSE IF tokens[t] # Null /\ tokens[t].by # Null
                     THEN [at |-> "save", runner |-> tokens[t].by] ELSE NoJoin)
    /\ UNCHANGED <<tableVars, saved, process, beat, faults, edits>>

\* SELECT ... FOR UPDATE of the token, and the checks after it.
Select(h) ==
    /\ join[h].at = "select"
    /\ LET t == join[h].token IN
          /\ ~Locked(t)
          /\ \/ Valid(t) /\ Goto(h, [at |-> "commit", token |-> t])
             \/ ~Valid(t) /\ Goto(h, NoJoin)
    /\ UNCHANGED <<tableVars, saved, process, beat, faults, edits>>

\* Mutant of Commit: the token is consumed before there is a runner.
CommitTokenOnly(h) ==
    /\ join[h].at = "commit"
    /\ \E r \in Runners :
          /\ runners[r] = Null
          /\ tokens' = [tokens EXCEPT ![join[h].token].by = r]
          /\ Goto(h, [at |-> "save", runner |-> r])
    /\ UNCHANGED <<runners, saved, process, beat, faults, edits>>

\* The new runner and the consumption of the token are committed together.
Commit(h) ==
    /\ join[h].at = "commit"
    /\ \E r \in Runners :
          /\ runners[r] = Null
          /\ runners' = [runners EXCEPT
                ![r] = [state |-> "pending", beaten |-> FALSE]]
          /\ tokens' = [tokens EXCEPT
                ![join[h].token] = [expired |-> @.expired, by |-> r]]
          /\ Goto(h, [at |-> "save", runner |-> r])
    /\ UNCHANGED <<saved, process, beat, faults, edits>>

\* The request or one of its statements fails: the transaction is rolled back.
EnrollFails(h) ==
    /\ join[h].at \in {"select", "commit"}
    /\ Fault
    /\ Goto(h, NoJoin)
    /\ UNCHANGED <<tableVars, saved, process, beat, edits>>

Save(h) ==
    /\ join[h].at = "save"
    /\ saved' = [saved EXCEPT ![h] = join[h].runner]
    /\ Goto(h, NoJoin)
    /\ UNCHANGED <<tableVars, process, beat, faults, edits>>

\* The answer is lost, or the file cannot be written: what it had may be lost.
SaveFails(h) ==
    /\ join[h].at = "save"
    /\ Fault
    /\ saved' \in {saved, [saved EXCEPT ![h] = Null]}
    /\ Goto(h, NoJoin)
    /\ UNCHANGED <<tableVars, process, beat, edits>>

-----------------------------------------------------------------------------
(* monocron-runner: it reads the state file when it starts, and beats.     *)

StartProcess(h) ==
    /\ process[h] = Null
    /\ Load(h) # Null
    /\ process' = [process EXCEPT ![h] = Load(h)]
    /\ UNCHANGED <<tableVars, join, saved, beat, faults, edits>>

StopProcess(h) ==
    /\ process[h] # Null
    /\ process' = [process EXCEPT ![h] = Null]
    /\ UNCHANGED <<tableVars, join, saved, beat, faults, edits>>

\* requireRunnerAuth: the access token must be that of a runner not revoked.
Authorize(h) ==
    /\ process[h] # Null
    /\ beat[h] = NoBeat
    /\ runners[process[h]].state # "revoked"
    /\ beat' = [beat EXCEPT ![h] = [at |-> "update", runner |-> process[h]]]
    /\ UNCHANGED <<tableVars, hostVars, faults, edits>>

UpdateRunnerHeartbeat(h) ==
    /\ beat[h].at = "update"
    /\ runners' = [runners EXCEPT
          ![beat[h].runner] = [state |-> @.state, beaten |-> TRUE]]
    /\ beat' = [beat EXCEPT ![h] = [at |-> "activate", runner |-> @.runner]]
    /\ UNCHANGED <<tokens, hostVars, faults, edits>>

\* Mutant of ActivateRunner: any runner that beats is live.
ActivateAny(h) ==
    /\ beat[h].at = "activate"
    /\ runners' = [runners EXCEPT ![beat[h].runner].state = "live"]
    /\ beat' = [beat EXCEPT ![h] = NoBeat]
    /\ UNCHANGED <<tokens, hostVars, faults, edits>>

\* Mutant of ActivateRunner: only runners that were offline.
ActivateOffline(h) ==
    /\ beat[h].at = "activate"
    /\ beat' = [beat EXCEPT ![h] = NoBeat]
    /\ UNCHANGED <<tableVars, hostVars, faults, edits>>

\* Nothing in the code makes a runner "offline", the other state it accepts.
ActivateRunner(h) ==
    /\ beat[h].at = "activate"
    /\ runners' = [runners EXCEPT ![beat[h].runner] =
          [state |-> IF @.state = "pending" THEN "live" ELSE @.state,
           beaten |-> @.beaten]]
    /\ beat' = [beat EXCEPT ![h] = NoBeat]
    /\ UNCHANGED <<tokens, hostVars, faults, edits>>

\* A statement of the heartbeat fails, which ends it either way.
BeatFails(h) ==
    /\ beat[h].at \in {"update", "activate"}
    /\ Fault
    /\ beat' = [beat EXCEPT ![h] = NoBeat]
    /\ UNCHANGED <<tableVars, hostVars, edits>>

-----------------------------------------------------------------------------
(* Users.                                                                  *)

\* UpdateRunnerState, whatever the state was.
SetState(r, state) ==
    /\ edits < MaxEdits
    /\ edits' = edits + 1
    /\ runners[r] # Null
    /\ runners' = [runners EXCEPT
          ![r] = [state |-> state, beaten |-> @.beaten]]
    /\ UNCHANGED <<tokens, hostVars, beat, faults>>

Drain(r) == SetState(r, "draining")
Revoke(r) == SetState(r, "revoked")

-----------------------------------------------------------------------------
BeatStep(h) == Authorize(h) \/ UpdateRunnerHeartbeat(h) \/ ActivateRunner(h)

JoinStep(h) ==
    \/ \E t \in Tokens, force \in BOOLEAN : Join(h, t, force)
    \/ Select(h) \/ Commit(h) \/ EnrollFails(h)
    \/ Save(h) \/ SaveFails(h)

Next ==
    \/ \E t \in Tokens : CreateEnrollmentToken(t) \/ Expire(t)
    \/ \E h \in Hosts : \/ JoinStep(h)
                        \/ StartProcess(h) \/ StopProcess(h)
                        \/ BeatStep(h) \/ BeatFails(h)
    \/ \E r \in Runners : Drain(r) \/ Revoke(r)

Spec == Init /\ [][Next]_vars

\* The heartbeat ticker goes on, and the controller answers.
FairSpec == Spec /\ \A h \in Hosts : WF_vars(BeatStep(h))

-----------------------------------------------------------------------------
(* Properties.                                                             *)

JoinState ==
    {NoJoin} \cup [at: {"select", "commit"}, token: Tokens]
             \cup [at: {"save"}, runner: Runners]
BeatState == {NoBeat} \cup [at: {"update", "activate"}, runner: Runners]

\* Every variable has its type, and nobody works for a runner without a row.
TypeOK ==
    /\ tokens \in [Tokens -> TokenRow \cup {Null}]
    /\ runners \in [Runners -> RunnerRow \cup {Null}]
    /\ join \in [Hosts -> JoinState]
    /\ beat \in [Hosts -> BeatState]
    /\ saved \in [Hosts -> Runners \cup {Null}]
    /\ process \in [Hosts -> Runners \cup {Null}]
    /\ \A h \in Hosts : process[h] # Null => runners[process[h]] # Null
    /\ faults \in 0 .. MaxFaults
    /\ edits \in 0 .. MaxEdits

\* A token makes one runner at most, though hosts race for it and requests
\* fail: each row of runners is the one that some token was consumed by
\* (store.go:273: EnrollRunner "consumes an enrollment token and creates a
\* runner in one transaction").
OneRunnerPerToken ==
    \A r \in Runners : runners[r] # Null =>
        \E t \in Tokens : tokens[t] # Null /\ tokens[t].by = r

\* The credentials of a runner reach one host only, in a join, in its state
\* file or in its process.
HoldsCredentials(h, r) ==
    \/ join[h].at = "save" /\ join[h].runner = r
    \/ saved[h] = r
    \/ process[h] = r

CredentialsAreUnshared ==
    \A r \in Runners, g, h \in Hosts :
        HoldsCredentials(g, r) /\ HoldsCredentials(h, r) => g = h

\* A runner is live only after a heartbeat of it was recorded (api.go:140:
\* "once they have successfully heartbeated").
LiveHasBeaten ==
    \A r \in Runners :
        runners[r] # Null /\ runners[r].state = "live" => runners[r].beaten

\* What users decide is not undone by a heartbeat that was let in before: a
\* runner that was drained or revoked stays so until a user says otherwise.
NoRevival ==
    [][\A r \in Runners :
          runners[r] # Null /\ runners[r].state \in {"draining", "revoked"} =>
              runners'[r].state \in {"draining", "revoked"}]_vars

\* A host that goes on working for a runner makes it live for good, though the
\* statement that does it may fail after the one that records the heartbeat
\* (api.go:135-143), unless users have drained or revoked the runner: nothing
\* takes that back.
RunnersComeAlive ==
    \A h \in Hosts, r \in Runners :
        <>[](process[h] = r) =>
            \/ <>[](runners[r] # Null /\ runners[r].state = "live")
            \/ <>(runners[r] # Null /\ runners[r].state \in
                      {"draining", "revoked"})
=============================================================================

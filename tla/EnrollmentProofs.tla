-------------------------- MODULE EnrollmentProofs --------------------------
(***************************************************************************)
(* What is proved of enrollment for any number of tokens, hosts, runners,  *)
(* failures and requests of users.  The inductive invariant adds to the    *)
(* properties what they rest on: a token that is about to be consumed is   *)
(* locked by one host and still free, and whoever holds a runner's         *)
(* identifier holds that of a runner that exists.                          *)
(***************************************************************************)
EXTENDS Enrollment, TLAPS

-----------------------------------------------------------------------------
(* The inductive invariant.                                                *)

\* A join that is about to commit has found its token free, and is the only
\* one that has.
LockedIsFree ==
    \A h \in Hosts : join[h].at = "commit" =>
        /\ tokens[join[h].token] # Null
        /\ tokens[join[h].token].by = Null
        /\ \A g \in Hosts :
              /\ join[g].at = "commit"
              /\ join[g].token = join[h].token
              => g = h

\* Only runners that exist are held or beat.
HeldExists ==
    \A h \in Hosts :
        /\ join[h].at = "save" => runners[join[h].runner] # Null
        /\ saved[h] # Null => runners[saved[h]] # Null
        /\ process[h] # Null => runners[process[h]] # Null
        /\ beat[h].at \in {"update", "activate"} =>
              runners[beat[h].runner] # Null

\* A heartbeat that is about to activate its runner has been recorded.
ActivatedHasBeaten ==
    \A h \in Hosts : beat[h].at = "activate" => runners[beat[h].runner].beaten

IInv ==
    /\ TypeOK
    /\ LockedIsFree
    /\ HeldExists
    /\ OneRunnerPerToken
    /\ CredentialsAreUnshared
    /\ ActivatedHasBeaten
    /\ LiveHasBeaten

\* What a step keeps of the states that users have set.
UserStatesKept ==
    \A r \in Runners :
        runners[r] # Null /\ runners[r].state \in {"draining", "revoked"} =>
            runners'[r].state \in {"draining", "revoked"}

\* The initial states satisfy the invariant.
LEMMA InitHolds == Init => IInv
BY EnrollmentAssumption
   DEF Init, IInv, TypeOK, LockedIsFree, HeldExists, OneRunnerPerToken,
       CredentialsAreUnshared, HoldsCredentials, ActivatedHasBeaten,
       LiveHasBeaten, NoJoin, NoBeat, JoinState, BeatState

-----------------------------------------------------------------------------
(* The steps.                                                              *)

\* What the types say of the fields of a row, a join and a heartbeat.
LEMMA Fields ==
    ASSUME TypeOK
    PROVE  /\ \A t \in Tokens : tokens[t] # Null =>
                 /\ tokens[t] \in TokenRow
                 /\ tokens[t].by \in Runners \cup {Null}
           /\ \A r \in Runners : runners[r] # Null =>
                 /\ runners[r] \in RunnerRow
                 /\ runners[r].state \in RunnerStates
                 /\ runners[r].beaten \in BOOLEAN
           /\ \A h \in Hosts :
                 /\ join[h].at \in {"select", "commit"} =>
                       join[h].token \in Tokens
                 /\ join[h].at = "save" => join[h].runner \in Runners
                 /\ beat[h].at \in {"update", "activate"} =>
                       beat[h].runner \in Runners
<1>1. \A t \in Tokens : tokens[t] # Null =>
         tokens[t] \in TokenRow /\ tokens[t].by \in Runners \cup {Null}
  BY DEF TypeOK, TokenRow
<1>2. \A r \in Runners : runners[r] # Null =>
         /\ runners[r] \in RunnerRow
         /\ runners[r].state \in RunnerStates
         /\ runners[r].beaten \in BOOLEAN
  BY DEF TypeOK, RunnerRow
<1>3. \A h \in Hosts :
         /\ join[h].at \in {"select", "commit"} => join[h].token \in Tokens
         /\ join[h].at = "save" => join[h].runner \in Runners
  BY DEF TypeOK, JoinState, NoJoin
<1>4. \A h \in Hosts :
         beat[h].at \in {"update", "activate"} => beat[h].runner \in Runners
  BY DEF TypeOK, BeatState, NoBeat
<1> QED BY <1>1, <1>2, <1>3, <1>4

\* Every step keeps the invariant, and what users have set: one case for each
\* action.  Where an action rewrites a row, the step <2>0 says what of the row
\* the properties can tell has changed.
LEMMA NextHolds == IInv /\ [Next]_vars => IInv' /\ UserStatesKept
<1> SUFFICES ASSUME IInv, [Next]_vars PROVE IInv' /\ UserStatesKept
  OBVIOUS
<1>0. TypeOK
  BY DEF IInv
<1> USE EnrollmentAssumption, <1>0, Fields
    DEF tableVars, hostVars, NoJoin, NoBeat, TokenRow, RunnerRow, RunnerStates
<1>1. ASSUME NEW t \in Tokens, CreateEnrollmentToken(t)
      PROVE  IInv' /\ UserStatesKept
  <2> USE <1>1 DEF CreateEnrollmentToken
  <2>1. TypeOK'
    BY DEF IInv, HeldExists, TypeOK, JoinState, BeatState
  <2>2. /\ LockedIsFree' /\ HeldExists'
        /\ OneRunnerPerToken' /\ CredentialsAreUnshared'
        /\ ActivatedHasBeaten' /\ LiveHasBeaten'
        /\ UserStatesKept
    BY DEF IInv, TypeOK, LockedIsFree, HeldExists, OneRunnerPerToken,
           CredentialsAreUnshared, HoldsCredentials, ActivatedHasBeaten,
           LiveHasBeaten, UserStatesKept
  <2> QED BY <2>1, <2>2 DEF IInv
<1>2. ASSUME NEW t \in Tokens, Expire(t)
      PROVE  IInv' /\ UserStatesKept
  <2> USE <1>2 DEF Expire
  <2>1. TypeOK'
    BY DEF IInv, HeldExists, TypeOK, JoinState, BeatState
  <2>0. \A u \in Tokens :
           /\ tokens'[u] # Null <=> tokens[u] # Null
           /\ tokens[u] # Null => tokens'[u].by = tokens[u].by
    <3> SUFFICES ASSUME NEW u \in Tokens
                 PROVE  /\ tokens'[u] # Null <=> tokens[u] # Null
                        /\ tokens[u] # Null => tokens'[u].by = tokens[u].by
      OBVIOUS
    <3>1. CASE u = t
      <4>1. tokens'[t] = [expired |-> TRUE, by |-> tokens[t].by]
        BY DEF TypeOK
      <4>2. tokens'[t] \in TokenRow
        BY <4>1
      <4>3. tokens'[t] # Null
        BY <4>2
      <4>4. tokens'[t].by = tokens[t].by
        BY <4>1
      <4> QED BY <3>1, <4>3, <4>4
    <3>2. CASE u # t
      BY <3>2 DEF TypeOK
    <3> QED BY <3>1, <3>2
  <2>2. LockedIsFree'
    BY <2>0 DEF IInv, LockedIsFree, TypeOK
  <2>3. HeldExists'
    BY <2>0 DEF IInv, HeldExists, TypeOK
  <2>4. OneRunnerPerToken'
    BY <2>0 DEF IInv, LockedIsFree, OneRunnerPerToken, TypeOK
  <2>5. CredentialsAreUnshared'
    BY <2>0 DEF IInv, HeldExists, CredentialsAreUnshared, HoldsCredentials,
                TypeOK
  <2>6. ActivatedHasBeaten' /\ LiveHasBeaten'
    BY <2>0 DEF IInv, HeldExists, ActivatedHasBeaten, LiveHasBeaten, TypeOK
  <2>7. UserStatesKept
    BY <2>0 DEF IInv, UserStatesKept, TypeOK
  <2> QED BY <2>1, <2>2, <2>3, <2>4, <2>5, <2>6, <2>7 DEF IInv
<1>3. ASSUME NEW h \in Hosts, NEW t \in Tokens, NEW force \in BOOLEAN,
           Join(h, t, force)
      PROVE  IInv' /\ UserStatesKept
  <2> USE <1>3 DEF Join, Goto
  <2>1. TypeOK'
    BY DEF IInv, HeldExists, TypeOK, JoinState, BeatState
  <2>2. /\ LockedIsFree' /\ HeldExists'
        /\ OneRunnerPerToken' /\ CredentialsAreUnshared'
        /\ ActivatedHasBeaten' /\ LiveHasBeaten'
        /\ UserStatesKept
    BY DEF IInv, TypeOK, LockedIsFree, HeldExists, OneRunnerPerToken,
           CredentialsAreUnshared, HoldsCredentials, ActivatedHasBeaten,
           LiveHasBeaten, UserStatesKept
  <2> QED BY <2>1, <2>2 DEF IInv
<1>4. ASSUME NEW h \in Hosts, Select(h)
      PROVE  IInv' /\ UserStatesKept
  <2> USE <1>4 DEF Select, Locked, Valid, Goto
  <2>1. TypeOK'
    BY DEF IInv, HeldExists, TypeOK, JoinState, BeatState
  <2>2. LockedIsFree'
    BY DEF IInv, LockedIsFree, TypeOK
  <2>3. HeldExists'
    BY DEF IInv, HeldExists, TypeOK
  <2>4. OneRunnerPerToken' /\ CredentialsAreUnshared'
    BY DEF IInv, TypeOK, OneRunnerPerToken, CredentialsAreUnshared,
           HoldsCredentials
  <2>5. ActivatedHasBeaten' /\ LiveHasBeaten' /\ UserStatesKept
    BY DEF IInv, ActivatedHasBeaten, LiveHasBeaten, UserStatesKept
  <2> QED BY <2>1, <2>2, <2>3, <2>4, <2>5 DEF IInv
<1>5. ASSUME NEW h \in Hosts, Commit(h)
      PROVE  IInv' /\ UserStatesKept
  <2>0. /\ join[h].at = "commit"
        /\ join[h].token \in Tokens
        /\ tokens[join[h].token] # Null
        /\ tokens[join[h].token].by = Null
        /\ \A g \in Hosts \ {h} :
              ~(join[g].at = "commit" /\ join[g].token = join[h].token)
    BY <1>5 DEF Commit, IInv, LockedIsFree
  <2> PICK r \in Runners :
          /\ runners[r] = Null
          /\ runners' = [runners EXCEPT
                ![r] = [state |-> "pending", beaten |-> FALSE]]
          /\ tokens' = [tokens EXCEPT
                ![join[h].token] = [expired |-> @.expired, by |-> r]]
          /\ join' = [join EXCEPT ![h] = [at |-> "save", runner |-> r]]
          /\ UNCHANGED <<saved, process, beat, faults, edits>>
    BY <1>5 DEF Commit, Goto
  <2>a. /\ runners'[r] = [state |-> "pending", beaten |-> FALSE]
        /\ runners'[r] # Null
        /\ \A q \in Runners \ {r} : runners'[q] = runners[q]
    <3>1. [state |-> "pending", beaten |-> FALSE] \in RunnerRow
      OBVIOUS
    <3>2. /\ runners'[r] = [state |-> "pending", beaten |-> FALSE]
          /\ \A q \in Runners \ {r} : runners'[q] = runners[q]
      BY DEF TypeOK
    <3>3. runners'[r] # Null
      BY <3>1, <3>2
    <3> QED BY <3>2, <3>3
  <2>b. /\ tokens'[join[h].token] # Null
        /\ tokens'[join[h].token].by = r
        /\ \A u \in Tokens \ {join[h].token} : tokens'[u] = tokens[u]
    <3>1. tokens'[join[h].token]
             = [expired |-> tokens[join[h].token].expired, by |-> r]
      BY <2>0 DEF TypeOK
    <3>2. tokens'[join[h].token] \in TokenRow
      BY <2>0, <3>1
    <3> QED BY <2>0, <3>1, <3>2 DEF TypeOK
  <2>c. /\ join'[h] = [at |-> "save", runner |-> r]
        /\ \A g \in Hosts \ {h} : join'[g] = join[g]
    BY DEF TypeOK
  <2>1. TypeOK'
    <3>1. runners' \in [Runners -> RunnerRow \cup {Null}]
      BY DEF TypeOK
    <3>2. tokens' \in [Tokens -> TokenRow \cup {Null}]
      BY <2>0 DEF TypeOK
    <3>3. join' \in [Hosts -> JoinState]
      BY DEF TypeOK, JoinState
    <3>4. \A g \in Hosts : process'[g] # Null => runners'[process'[g]] # Null
      BY <2>a DEF TypeOK
    <3> QED BY <3>1, <3>2, <3>3, <3>4 DEF TypeOK
  <2>2. LockedIsFree'
    BY <2>0, <2>b, <2>c DEF IInv, LockedIsFree
  <2>3. HeldExists'
    BY <2>a, <2>c DEF IInv, HeldExists, TypeOK
  <2>4. OneRunnerPerToken'
    <3> SUFFICES ASSUME NEW q \in Runners, runners'[q] # Null
                 PROVE  \E t \in Tokens :
                           tokens'[t] # Null /\ tokens'[t].by = q
      BY DEF OneRunnerPerToken
    <3>1. CASE q = r
      BY <2>0, <2>b, <3>1
    <3>2. CASE q # r
      BY <2>0, <2>a, <2>b, <3>2 DEF IInv, OneRunnerPerToken
    <3> QED BY <3>1, <3>2
  <2>5. CredentialsAreUnshared'
    BY <2>c DEF IInv, HeldExists, CredentialsAreUnshared, HoldsCredentials
  <2>6. ActivatedHasBeaten' /\ LiveHasBeaten'
    BY <2>a DEF IInv, HeldExists, ActivatedHasBeaten, LiveHasBeaten
  <2>7. UserStatesKept
    BY <2>a DEF IInv, UserStatesKept
  <2> QED BY <2>1, <2>2, <2>3, <2>4, <2>5, <2>6, <2>7 DEF IInv
<1>6. ASSUME NEW h \in Hosts, EnrollFails(h)
      PROVE  IInv' /\ UserStatesKept
  <2> USE <1>6 DEF EnrollFails, Goto, Fault
  <2>1. TypeOK'
    BY DEF IInv, HeldExists, TypeOK, JoinState, BeatState
  <2>2. /\ LockedIsFree' /\ HeldExists'
        /\ OneRunnerPerToken' /\ CredentialsAreUnshared'
        /\ ActivatedHasBeaten' /\ LiveHasBeaten'
        /\ UserStatesKept
    BY DEF IInv, TypeOK, LockedIsFree, HeldExists, OneRunnerPerToken,
           CredentialsAreUnshared, HoldsCredentials, ActivatedHasBeaten,
           LiveHasBeaten, UserStatesKept
  <2> QED BY <2>1, <2>2 DEF IInv
<1>7. ASSUME NEW h \in Hosts, Save(h)
      PROVE  IInv' /\ UserStatesKept
  <2> USE <1>7 DEF Save, Goto
  <2>1. TypeOK'
    BY DEF IInv, HeldExists, TypeOK, JoinState, BeatState
  <2>2. /\ LockedIsFree' /\ HeldExists'
        /\ OneRunnerPerToken' /\ CredentialsAreUnshared'
        /\ ActivatedHasBeaten' /\ LiveHasBeaten'
        /\ UserStatesKept
    BY DEF IInv, TypeOK, LockedIsFree, HeldExists, OneRunnerPerToken,
           CredentialsAreUnshared, HoldsCredentials, ActivatedHasBeaten,
           LiveHasBeaten, UserStatesKept
  <2> QED BY <2>1, <2>2 DEF IInv
<1>8. ASSUME NEW h \in Hosts, SaveFails(h)
      PROVE  IInv' /\ UserStatesKept
  <2> USE <1>8 DEF SaveFails, Goto, Fault
  <2>1. TypeOK'
    BY DEF IInv, HeldExists, TypeOK, JoinState, BeatState
  <2>2. /\ LockedIsFree' /\ HeldExists'
        /\ OneRunnerPerToken' /\ CredentialsAreUnshared'
        /\ ActivatedHasBeaten' /\ LiveHasBeaten'
        /\ UserStatesKept
    BY DEF IInv, TypeOK, LockedIsFree, HeldExists, OneRunnerPerToken,
           CredentialsAreUnshared, HoldsCredentials, ActivatedHasBeaten,
           LiveHasBeaten, UserStatesKept
  <2> QED BY <2>1, <2>2 DEF IInv
<1>9. ASSUME NEW h \in Hosts, StartProcess(h) \/ StopProcess(h)
      PROVE  IInv' /\ UserStatesKept
  <2> USE <1>9 DEF StartProcess, StopProcess, Load
  <2>1. TypeOK'
    <3>1. process' \in [Hosts -> Runners \cup {Null}]
      BY DEF TypeOK
    <3>2. \A g \in Hosts : process'[g] # Null => runners'[process'[g]] # Null
      BY DEF IInv, HeldExists, TypeOK
    <3> QED BY <3>1, <3>2 DEF TypeOK, StartProcess, StopProcess
  <2>2. /\ LockedIsFree' /\ HeldExists'
        /\ OneRunnerPerToken' /\ CredentialsAreUnshared'
        /\ ActivatedHasBeaten' /\ LiveHasBeaten'
        /\ UserStatesKept
    BY DEF IInv, TypeOK, LockedIsFree, HeldExists, OneRunnerPerToken,
           CredentialsAreUnshared, HoldsCredentials, ActivatedHasBeaten,
           LiveHasBeaten, UserStatesKept
  <2> QED BY <2>1, <2>2 DEF IInv
<1>10. ASSUME NEW h \in Hosts, Authorize(h)
      PROVE  IInv' /\ UserStatesKept
  <2> USE <1>10 DEF Authorize
  <2>1. TypeOK'
    BY DEF IInv, HeldExists, TypeOK, JoinState, BeatState
  <2>2. /\ LockedIsFree' /\ HeldExists'
        /\ OneRunnerPerToken' /\ CredentialsAreUnshared'
        /\ ActivatedHasBeaten' /\ LiveHasBeaten'
        /\ UserStatesKept
    BY DEF IInv, TypeOK, LockedIsFree, HeldExists, OneRunnerPerToken,
           CredentialsAreUnshared, HoldsCredentials, ActivatedHasBeaten,
           LiveHasBeaten, UserStatesKept
  <2> QED BY <2>1, <2>2 DEF IInv
<1>11. ASSUME NEW h \in Hosts, UpdateRunnerHeartbeat(h)
      PROVE  IInv' /\ UserStatesKept
  <2> USE <1>11 DEF UpdateRunnerHeartbeat
  <2>0. \A r \in Runners :
           /\ runners'[r] # Null <=> runners[r] # Null
           /\ runners[r] # Null =>
                 /\ runners'[r].state = runners[r].state
                 /\ runners[r].beaten => runners'[r].beaten
                 /\ r = beat[h].runner => runners'[r].beaten
    <3> SUFFICES ASSUME NEW r \in Runners
                 PROVE  /\ runners'[r] # Null <=> runners[r] # Null
                        /\ runners[r] # Null =>
                              /\ runners'[r].state = runners[r].state
                              /\ runners[r].beaten => runners'[r].beaten
                              /\ r = beat[h].runner => runners'[r].beaten
      OBVIOUS
    <3>1. CASE r = beat[h].runner
      <4>1. runners[r] # Null
        BY <3>1 DEF IInv, HeldExists
      <4>2. runners'[r] = [state |-> runners[r].state, beaten |-> TRUE]
        BY <3>1 DEF TypeOK
      <4>3. runners'[r] \in RunnerRow
        BY <4>1, <4>2
      <4>4. runners'[r] # Null
        BY <4>3
      <4>5. runners'[r].state = runners[r].state /\ runners'[r].beaten
        BY <4>2
      <4> QED BY <3>1, <4>1, <4>4, <4>5
    <3>2. CASE r # beat[h].runner
      BY <3>2 DEF TypeOK
    <3> QED BY <3>1, <3>2
  <2>1. TypeOK'
    <3>1. beat[h].runner \in Runners /\ runners[beat[h].runner] # Null
      BY DEF IInv, HeldExists
    <3>2. runners' \in [Runners -> RunnerRow \cup {Null}]
      BY <3>1 DEF TypeOK
    <3>3. beat' \in [Hosts -> BeatState]
      BY <3>1 DEF TypeOK, BeatState
    <3>4. \A g \in Hosts : process'[g] # Null => runners'[process'[g]] # Null
      BY <2>0 DEF TypeOK
    <3> QED BY <3>2, <3>3, <3>4 DEF TypeOK
  <2>2. LockedIsFree'
    BY <2>0 DEF IInv, LockedIsFree, TypeOK
  <2>3. HeldExists'
    BY <2>0 DEF IInv, HeldExists, TypeOK
  <2>4. OneRunnerPerToken'
    BY <2>0 DEF IInv, OneRunnerPerToken
  <2>5. CredentialsAreUnshared'
    BY <2>0 DEF IInv, HeldExists, CredentialsAreUnshared, HoldsCredentials,
                TypeOK
  <2>6. ActivatedHasBeaten' /\ LiveHasBeaten'
    BY <2>0 DEF IInv, HeldExists, ActivatedHasBeaten, LiveHasBeaten, TypeOK
  <2>7. UserStatesKept
    BY <2>0 DEF IInv, UserStatesKept, TypeOK
  <2> QED BY <2>1, <2>2, <2>3, <2>4, <2>5, <2>6, <2>7 DEF IInv
<1>12. ASSUME NEW h \in Hosts, ActivateRunner(h)
      PROVE  IInv' /\ UserStatesKept
  <2> USE <1>12 DEF ActivateRunner
  <2>1. TypeOK'
    BY DEF IInv, HeldExists, TypeOK, JoinState, BeatState
  <2>0. \A r \in Runners :
           /\ runners'[r] # Null <=> runners[r] # Null
           /\ runners[r] # Null =>
                 /\ runners'[r].beaten = runners[r].beaten
                 /\ \/ runners'[r].state = runners[r].state
                    \/ r = beat[h].runner /\ runners[r].state = "pending"
    <3> SUFFICES ASSUME NEW r \in Runners
                 PROVE  /\ runners'[r] # Null <=> runners[r] # Null
                        /\ runners[r] # Null =>
                              /\ runners'[r].beaten = runners[r].beaten
                              /\ \/ runners'[r].state = runners[r].state
                                 \/ /\ r = beat[h].runner
                                    /\ runners[r].state = "pending"
      OBVIOUS
    <3>1. CASE r = beat[h].runner
      <4>1. runners[r] # Null
        BY <3>1 DEF IInv, HeldExists
      <4>2. runners'[r] =
               [state |-> IF runners[r].state = "pending" THEN "live"
                          ELSE runners[r].state,
                beaten |-> runners[r].beaten]
        BY <3>1 DEF TypeOK
      <4>3. runners'[r] \in RunnerRow
        BY <4>1, <4>2
      <4> QED BY <3>1, <4>1, <4>2, <4>3
    <3>2. CASE r # beat[h].runner
      BY <3>2 DEF TypeOK
    <3> QED BY <3>1, <3>2
  <2>2. LockedIsFree'
    BY <2>0 DEF IInv, LockedIsFree, TypeOK
  <2>3. HeldExists'
    BY <2>0 DEF IInv, HeldExists, TypeOK
  <2>4. OneRunnerPerToken'
    BY <2>0 DEF IInv, OneRunnerPerToken
  <2>5. CredentialsAreUnshared'
    BY <2>0 DEF IInv, HeldExists, CredentialsAreUnshared, HoldsCredentials,
                TypeOK
  <2>6. ActivatedHasBeaten' /\ LiveHasBeaten'
    BY <2>0 DEF IInv, HeldExists, ActivatedHasBeaten, LiveHasBeaten, TypeOK
  <2>7. UserStatesKept
    BY <2>0 DEF IInv, UserStatesKept, TypeOK
  <2> QED BY <2>1, <2>2, <2>3, <2>4, <2>5, <2>6, <2>7 DEF IInv
<1>13. ASSUME NEW h \in Hosts, BeatFails(h)
      PROVE  IInv' /\ UserStatesKept
  <2> USE <1>13 DEF BeatFails, Fault
  <2>1. TypeOK'
    BY DEF IInv, HeldExists, TypeOK, JoinState, BeatState
  <2>2. /\ LockedIsFree' /\ HeldExists'
        /\ OneRunnerPerToken' /\ CredentialsAreUnshared'
        /\ ActivatedHasBeaten' /\ LiveHasBeaten'
        /\ UserStatesKept
    BY DEF IInv, TypeOK, LockedIsFree, HeldExists, OneRunnerPerToken,
           CredentialsAreUnshared, HoldsCredentials, ActivatedHasBeaten,
           LiveHasBeaten, UserStatesKept
  <2> QED BY <2>1, <2>2 DEF IInv
<1>14. ASSUME NEW r \in Runners, Drain(r) \/ Revoke(r)
       PROVE  IInv' /\ UserStatesKept
  <2> PICK state \in {"draining", "revoked"} : SetState(r, state)
    BY <1>14 DEF Drain, Revoke
  <2> USE DEF SetState
  <2>0. \A q \in Runners :
           /\ runners'[q] # Null <=> runners[q] # Null
           /\ runners[q] # Null =>
                 /\ runners'[q].beaten = runners[q].beaten
                 /\ \/ runners'[q].state = runners[q].state
                    \/ runners'[q].state \in {"draining", "revoked"}
    <3> SUFFICES ASSUME NEW q \in Runners
                 PROVE  /\ runners'[q] # Null <=> runners[q] # Null
                        /\ runners[q] # Null =>
                              /\ runners'[q].beaten = runners[q].beaten
                              /\ \/ runners'[q].state = runners[q].state
                                 \/ runners'[q].state
                                       \in {"draining", "revoked"}
      OBVIOUS
    <3>1. CASE q = r
      <4>1. runners'[r] = [state |-> state, beaten |-> runners[r].beaten]
        BY DEF TypeOK
      <4>2. runners'[r] \in RunnerRow
        BY <4>1
      <4> QED BY <3>1, <4>1, <4>2
    <3>2. CASE q # r
      BY <3>2 DEF TypeOK
    <3> QED BY <3>1, <3>2
  <2>1. TypeOK'
    BY DEF IInv, HeldExists, TypeOK, JoinState, BeatState
  <2>2. LockedIsFree'
    BY <2>0 DEF IInv, LockedIsFree, TypeOK
  <2>3. HeldExists'
    BY <2>0 DEF IInv, HeldExists, TypeOK
  <2>4. OneRunnerPerToken'
    BY <2>0 DEF IInv, OneRunnerPerToken
  <2>5. CredentialsAreUnshared'
    BY <2>0 DEF IInv, HeldExists, CredentialsAreUnshared, HoldsCredentials,
                TypeOK
  <2>6. ActivatedHasBeaten' /\ LiveHasBeaten'
    BY <2>0 DEF IInv, HeldExists, ActivatedHasBeaten, LiveHasBeaten, TypeOK
  <2>7. UserStatesKept
    BY <2>0 DEF IInv, UserStatesKept, TypeOK
  <2> QED BY <2>1, <2>2, <2>3, <2>4, <2>5, <2>6, <2>7 DEF IInv
<1>15. CASE UNCHANGED vars
  BY <1>15 DEF vars, IInv, TypeOK, LockedIsFree, HeldExists, OneRunnerPerToken,
        CredentialsAreUnshared, HoldsCredentials, ActivatedHasBeaten,
        LiveHasBeaten, UserStatesKept
<1> QED
  BY <1>1, <1>2, <1>3, <1>4, <1>5, <1>6, <1>7, <1>8, <1>9, <1>10, <1>11,
     <1>12, <1>13, <1>14, <1>15
  DEF Next, JoinStep, BeatStep

-----------------------------------------------------------------------------
(* Theorems.                                                               *)

\* The inductive invariant holds throughout, and so does what steps keep.
LEMMA InvariantHolds == Spec => []IInv /\ [][UserStatesKept]_vars
<1>1. Init => IInv
  BY InitHolds
<1>2. IInv /\ [Next]_vars => IInv' /\ UserStatesKept
  BY NextHolds
<1> QED BY <1>1, <1>2, PTL DEF Spec

\* Every variable has its type in every reachable state.
THEOREM TypeCorrect == Spec => []TypeOK
BY InvariantHolds, PTL DEF IInv

\* However many hosts race for a token and whatever fails, it makes one runner
\* at most.
THEOREM OneRunnerPerTokenHolds == Spec => []OneRunnerPerToken
BY InvariantHolds, PTL DEF IInv

\* No two hosts ever hold the credentials of one runner.
THEOREM CredentialsAreUnsharedHolds == Spec => []CredentialsAreUnshared
BY InvariantHolds, PTL DEF IInv

\* No runner is live without a recorded heartbeat.
THEOREM LiveHasBeatenHolds == Spec => []LiveHasBeaten
BY InvariantHolds, PTL DEF IInv

\* No heartbeat, however late, makes a drained or revoked runner live again.
THEOREM NoRevivalHolds == Spec => NoRevival
BY InvariantHolds, PTL DEF UserStatesKept, NoRevival
=============================================================================

-------------------------- MODULE HostFilesProofs --------------------------
(* Theorems of HostFiles.                                                   *)
EXTENDS HostFiles, TLAPS

\* What holds of the binaries while an update is in progress: those before
\* the current one are replaced, the current one is once it is renamed, and
\* nothing was announced.
UpdateInv ==
    /\ \A b \in Binaries : target[b] # Partial /\ backup[b] # Partial
    /\ update # Idle =>
          /\ said = Null
          /\ update.at = "resolve" => update.i = 1
          /\ ~update.dry =>
                \A j \in 1 .. update.i - 1 : target[Order[j]] = update.release
          /\ update.at = "cleanup" => target[Current] = update.release

ConfigInv == \A f \in Files : settings[f] # Partial

IInv == TypeOK /\ UpdateInv /\ ConfigInv /\ SuccessMeansAll

USE DEF Idle

\* The steps of the update.
UpdateNext ==
    \/ \E release \in Releases, dry \in BOOLEAN : Run(release, dry)
    \/ UpdateStep
    \/ KillUpdate

\* The steps of the commands that write configuration files.
ConfigNext ==
    \E f \in Files :
       \/ \E key \in Keys : Login(f, key)
       \/ Logout(f)
       \/ EnsureConfig(f)
       \/ WriteDraft(f) \/ RenameDraft(f) \/ WriterEnds(f)

\* The two write different variables.
LEMMA NextSplits ==
    ASSUME Next
    PROVE  \/ UpdateNext /\ UNCHANGED configVars
           \/ ConfigNext /\ UNCHANGED updateVars
<1>1. CASE \E release \in Releases, dry \in BOOLEAN : Run(release, dry)
    BY <1>1 DEF Run, UpdateNext
<1>2. CASE UpdateStep
    BY <1>2 DEF UpdateStep, Resolve, DownloadFails, DrySkip, Download,
        WriteNew, WriteNewFails, WriteNewCut, BackUp, BackUpFails, RenameNew,
        RenameNewFails, RemoveBackup, UpdateNext
<1>3. CASE KillUpdate
    BY <1>3 DEF KillUpdate, WriteNewCut, UpdateNext
<1>4. CASE ConfigNext
    BY <1>4 DEF ConfigNext, Login, Logout, EnsureConfig, Begin, WriteDraft,
        RenameDraft, WriterEnds, updateVars
<1> QED
    BY <1>1, <1>2, <1>3, <1>4 DEF Next, ConfigNext

\* The binaries' part of the invariant.
BinaryTypes ==
    /\ target \in [Binaries -> Content]
    /\ staged \in [Binaries -> Content]
    /\ backup \in [Binaries -> Content]
    /\ update \in UpdateState
    /\ update # Idle /\ update.dry => update.at \in {"resolve", "download"}
    /\ update.at \in {"backup", "rename"} => staged[Current] = update.release
    /\ said \in Releases \cup {Null}
    /\ faults \in 0 .. MaxFaults
    /\ crashes \in 0 .. MaxCrashes

BinaryInv == BinaryTypes /\ UpdateInv /\ SuccessMeansAll

\* The configuration files' part.
ConfigTypes ==
    /\ settings \in [Files -> Settings \cup {Null, Partial}]
    /\ draft \in [Files -> Settings \cup {Null, Partial}]
    /\ writer \in [Files -> WriterState]
    /\ \A f \in Files : writer[f].at = "rename" => draft[f] = writer[f].settings

\* The invariant is one about binaries and one about configuration files.
LEMMA IInvSplits == IInv <=> BinaryInv /\ ConfigTypes /\ ConfigInv
BY DEF IInv, TypeOK, BinaryInv, BinaryTypes, ConfigTypes

\* An update under way works on one of the binaries.
LEMMA CurrentIsBinary ==
    ASSUME update \in UpdateState, update # Idle
    PROVE  /\ Current \in Binaries
           /\ update.at \in {"resolve", "download", "write", "backup",
                             "rename", "cleanup"}
           /\ update.i \in 1 .. N
           /\ update.release \in Releases
           /\ update.dry \in BOOLEAN
           /\ \A j \in 1 .. N : Order[j] = Current => j = update.i
BY HostFilesAssumption DEF UpdateState, Updating, Current

-----------------------------------------------------------------------------
(* The update's steps keep the binaries' part, and lose no binary.         *)

StepKeeps == BinaryInv' /\ \A b \in Binaries : Kept(b) => Kept(b)'

\* The turn to the next binary comes after the current one is replaced.
LEMMA TurnKeeps ==
    ASSUME BinaryTypes, UpdateInv, update # Idle,
           (update.at = "download" /\ update.dry) \/ update.at = "cleanup",
           TurnToNext, UNCHANGED target,
           backup' \in {backup, [backup EXCEPT ![Current] = Null]}
    PROVE  UpdateInv' /\ SuccessMeansAll' /\ update' \in UpdateState
           /\ (update' # Idle => update'.at = "download")
           /\ said' \in Releases \cup {Null}
           /\ update'.at \notin {"backup", "rename"}
           /\ (update' # Idle => update'.dry = update.dry)
<1>1. /\ update.i \in 1 .. N /\ N \in Nat /\ update.release \in Releases
      /\ update.release # Null /\ Current \in Binaries
      /\ update.dry \in BOOLEAN
    BY CurrentIsBinary, HostFilesAssumption DEF BinaryTypes
<1>2. \A b \in Binaries : target'[b] # Partial /\ backup'[b] # Partial
    BY <1>1, HostFilesAssumption DEF UpdateInv, BinaryTypes
<1>3. ~update.dry =>
         \A j \in 1 .. update.i : target[Order[j]] = update.release
  <2> SUFFICES ASSUME ~update.dry, NEW j \in 1 .. update.i
               PROVE  target[Order[j]] = update.release
      OBVIOUS
  <2>1. CASE j = update.i
      BY <2>1 DEF UpdateInv, Current
  <2>2. CASE j # update.i
      BY <2>2, <1>1 DEF UpdateInv
  <2> QED
      BY <2>1, <2>2
<1>4. CASE /\ update.i < N
           /\ update' = [update EXCEPT !.at = "download", !.i = @ + 1]
           /\ UNCHANGED said
  <2>1. /\ update' \in UpdateState /\ update' # Idle
        /\ update'.at = "download" /\ update'.dry = update.dry
        /\ update'.i = update.i + 1 /\ update'.release = update.release
    <3>1. update \in Updating /\ update.i + 1 \in 1 .. N
        BY <1>1, <1>4 DEF BinaryTypes, UpdateState
    <3>2. update' = [at |-> "download", release |-> update.release,
                     dry |-> update.dry, i |-> update.i + 1]
        BY <3>1, <1>4 DEF Updating
    <3> QED
        BY <3>1, <3>2, <1>1 DEF Updating, UpdateState
  <2>2. said' = Null
      BY <1>4 DEF UpdateInv
  <2>3. 1 .. update'.i - 1 = 1 .. update.i
      BY <2>1, <1>1
  <2> QED
      BY <2>1, <2>2, <2>3, <1>2, <1>3 DEF UpdateInv, SuccessMeansAll
<1>5. CASE update.i >= N /\ update' = Idle /\ said' = Said
  <2>1. UpdateInv' /\ update' \in UpdateState /\ update'.at = "idle"
      BY <1>2, <1>5 DEF UpdateInv, UpdateState
  <2>2. said' # Null => \A b \in Binaries : target[b] = update.release
    <3> SUFFICES ASSUME said' # Null, NEW b \in Binaries
                 PROVE  target[b] = update.release
        OBVIOUS
    <3>1. ~update.dry /\ update.i = N
        BY <1>1, <1>5 DEF Said
    <3>2. PICK j \in 1 .. N : Order[j] = b
        BY HostFilesAssumption
    <3> QED
        BY <3>1, <3>2, <1>3
  <2> QED
      BY <2>1, <2>2, <1>1, <1>5 DEF SuccessMeansAll, Said
<1> QED
    BY <1>4, <1>5 DEF TurnToNext

\* An update that begins has replaced nothing and said nothing.
LEMMA RunKeeps ==
    ASSUME BinaryInv, NEW release \in Releases, NEW dry \in BOOLEAN,
           Run(release, dry)
    PROVE  StepKeeps
<1>1. /\ update' = [at |-> "resolve", release |-> release, dry |-> dry, i |-> 1]
      /\ said' = Null
      /\ UNCHANGED <<target, staged, backup, faults, crashes>>
    BY DEF Run, binaryVars
<1>2. update' \in UpdateState
    BY <1>1, HostFilesAssumption DEF UpdateState, Updating
<1>3. BinaryTypes'
    BY <1>1, <1>2 DEF BinaryInv, BinaryTypes
<1>4. UpdateInv' /\ SuccessMeansAll'
    BY <1>1 DEF BinaryInv, UpdateInv, SuccessMeansAll
<1> QED
    BY <1>1, <1>3, <1>4 DEF StepKeeps, BinaryInv, Kept

\* A step that ends the update keeps the invariant when it leaves no part of
\* a binary under its name.
LEMMA EndKeeps ==
    ASSUME BinaryInv, update # Idle, update' = Idle, said' = said,
           target' \in [Binaries -> Content], staged' \in [Binaries -> Content],
           backup' \in [Binaries -> Content],
           \A b \in Binaries : target'[b] # Partial /\ backup'[b] # Partial,
           faults' \in 0 .. MaxFaults, crashes' \in 0 .. MaxCrashes
    PROVE  BinaryInv'
<1>1. said' = Null /\ update'.at = "idle" /\ update' \in UpdateState
    BY DEF BinaryInv, UpdateInv, UpdateState
<1> QED
    BY <1>1 DEF BinaryInv, BinaryTypes, UpdateInv, SuccessMeansAll

\* Failures and kills stay within their bounds.
LEMMA FaultBound ==
    ASSUME BinaryTypes
    PROVE  /\ Fault => faults' \in 0 .. MaxFaults
           /\ Kill => crashes' \in 0 .. MaxCrashes
BY HostFilesAssumption DEF BinaryTypes, Fault, Kill

Steps == {"resolve", "download", "write", "backup", "rename", "cleanup"}

\* Goto changes the step of the update and nothing else of it.
LEMMA GotoIs ==
    ASSUME update \in UpdateState, update # Idle, NEW step \in Steps, Goto(step)
    PROVE  /\ update' \in UpdateState /\ update' # Idle
           /\ update'.at = step /\ update'.dry = update.dry
           /\ update'.i = update.i /\ update'.release = update.release
           /\ Current' = Current
<1>1. update \in Updating
    BY DEF UpdateState
<1>2. update' = [at |-> step, release |-> update.release,
                 dry |-> update.dry, i |-> update.i]
    BY <1>1 DEF Updating, Goto
<1> QED
    BY <1>1, <1>2 DEF Updating, UpdateState, Steps, Current

\* The steps on one binary, up to the rename of the new file.
LEMMA StepsOfTheLoopKeep ==
    ASSUME BinaryInv,
           Resolve \/ Download \/ WriteNew \/ BackUp \/ RenameNew
    PROVE  StepKeeps
<1> USE DEF At, BinaryInv
<1>1. update # Idle
    BY DEF Resolve, Download, WriteNew, BackUp, RenameNew
<1>2. /\ Current \in Binaries /\ update.release \in Releases
      /\ update.release # Null /\ update.release # Partial
      /\ update.i \in 1 .. N /\ update.dry \in BOOLEAN
      /\ \A j \in 1 .. N : Order[j] = Current => j = update.i
    BY <1>1, CurrentIsBinary, HostFilesAssumption DEF BinaryTypes
<1>3. said = Null /\ said' = said /\ faults' = faults /\ crashes' = crashes
    BY <1>1 DEF UpdateInv, Resolve, Download, WriteNew, BackUp, RenameNew
<1>4. CASE Resolve \/ Download
  <2>1. /\ update' \in UpdateState /\ update' # Idle
        /\ update'.at \in {"download", "write"} /\ update'.dry = update.dry
        /\ update'.i = update.i /\ update'.release = update.release
        /\ (update'.at = "write" => ~update.dry)
        /\ UNCHANGED <<target, staged, backup>>
      BY <1>1, <1>4, GotoIs
      DEF Resolve, Download, BinaryTypes, binaryVars, Steps
  <2>2. BinaryTypes'
      BY <2>1, <1>3 DEF BinaryTypes
  <2>3. UpdateInv' /\ SuccessMeansAll'
      BY <2>1, <1>1, <1>3 DEF UpdateInv, SuccessMeansAll
  <2> QED
      BY <2>1, <2>2, <2>3 DEF StepKeeps, Kept
<1>5. CASE WriteNew
  <2>1. /\ update' \in UpdateState /\ update' # Idle
        /\ update'.at = "backup" /\ update'.dry = update.dry
        /\ update'.i = update.i /\ update'.release = update.release
        /\ Current' = Current
        /\ staged' = [staged EXCEPT ![Current] = update.release]
        /\ UNCHANGED <<target, backup>>
      BY <1>1, <1>5, GotoIs DEF WriteNew, BinaryTypes, Steps
  <2>2. ~update.dry
      BY <1>1, <1>5 DEF WriteNew, BinaryTypes
  <2>3. staged' \in [Binaries -> Content] /\ staged'[Current] = update.release
      BY <2>1, <1>2 DEF BinaryTypes, Content
  <2>4. BinaryTypes'
      BY <2>1, <2>2, <2>3, <1>3 DEF BinaryTypes
  <2>5. UpdateInv' /\ SuccessMeansAll'
      BY <2>1, <1>1, <1>3 DEF UpdateInv, SuccessMeansAll
  <2> QED
      BY <2>1, <2>4, <2>5 DEF StepKeeps, Kept
<1>6. CASE BackUp
  <2>1. /\ update' \in UpdateState /\ update' # Idle
        /\ update'.at = "rename" /\ update'.dry = update.dry
        /\ update'.i = update.i /\ update'.release = update.release
        /\ Current' = Current /\ UNCHANGED staged
        /\ \/ UNCHANGED <<target, backup>>
           \/ /\ target[Current] # Null
              /\ backup' = [backup EXCEPT ![Current] = target[Current]]
              /\ target' = [target EXCEPT ![Current] = Null]
      BY <1>1, <1>6, GotoIs DEF BackUp, BinaryTypes, Steps
  <2>2. ~update.dry /\ staged[Current] = update.release
      BY <1>1, <1>6 DEF BackUp, BinaryTypes
  <2>3. BinaryTypes'
      BY <2>1, <2>2, <1>2, <1>3 DEF BinaryTypes, Content
  <2>4. \A j \in 1 .. update.i - 1 : Order[j] # Current
      BY <1>2, HostFilesAssumption
  <2>5. \A j \in 1 .. update.i - 1 : Order[j] \in Binaries
      BY <1>2, HostFilesAssumption
  <2>6. \A j \in 1 .. update.i - 1 : target'[Order[j]] = update.release
      BY <2>1, <2>2, <2>4, <2>5, <1>1 DEF UpdateInv, BinaryTypes
  <2>7. \A b \in Binaries : target'[b] # Partial /\ backup'[b] # Partial
      BY <2>1, <1>2, HostFilesAssumption DEF UpdateInv, BinaryTypes
  <2>8. UpdateInv' /\ SuccessMeansAll'
      BY <2>1, <2>6, <2>7, <1>3 DEF UpdateInv, SuccessMeansAll
  <2>9. \A b \in Binaries : Kept(b) => Kept(b)'
      BY <2>1, <1>2 DEF BinaryTypes, Content, UpdateInv, Kept
  <2> QED
      BY <2>3, <2>8, <2>9 DEF StepKeeps
<1>7. CASE RenameNew
  <2>1. /\ update' \in UpdateState /\ update' # Idle
        /\ update'.at = "cleanup" /\ update'.dry = update.dry
        /\ update'.i = update.i /\ update'.release = update.release
        /\ Current' = Current /\ UNCHANGED backup
        /\ target' = [target EXCEPT ![Current] = staged[Current]]
        /\ staged' = [staged EXCEPT ![Current] = Null]
      BY <1>1, <1>7, GotoIs DEF RenameNew, BinaryTypes, Steps
  <2>2. ~update.dry /\ staged[Current] = update.release
      BY <1>1, <1>7 DEF RenameNew, BinaryTypes
  <2>3. BinaryTypes'
      BY <2>1, <2>2, <1>2, <1>3 DEF BinaryTypes, Content
  <2>4. target'[Current] = update.release
      BY <2>1, <2>2, <1>2 DEF BinaryTypes
  <2>5. \A j \in 1 .. update.i - 1 : Order[j] \in Binaries
      BY <1>2, HostFilesAssumption
  <2>6. \A j \in 1 .. update.i - 1 : target'[Order[j]] = update.release
      BY <2>1, <2>2, <2>5, <1>1 DEF UpdateInv, BinaryTypes
  <2>7. \A b \in Binaries : target'[b] # Partial /\ backup'[b] # Partial
      BY <2>1, <2>2, <1>2 DEF UpdateInv, BinaryTypes
  <2>8. UpdateInv' /\ SuccessMeansAll'
      BY <2>1, <2>4, <2>6, <2>7, <1>3 DEF UpdateInv, SuccessMeansAll
  <2>9. \A b \in Binaries : Kept(b) => Kept(b)'
      BY <2>1, <2>2, <1>2 DEF BinaryTypes, Kept
  <2> QED
      BY <2>3, <2>8, <2>9 DEF StepKeeps
<1> QED
    BY <1>4, <1>5, <1>6, <1>7

\* The steps that end an update: failures, and the kill.
LEMMA StepsThatEndKeep ==
    ASSUME BinaryInv,
           \/ DownloadFails \/ WriteNewFails \/ BackUpFails \/ RenameNewFails
           \/ KillUpdate
    PROVE  StepKeeps
<1> USE DEF At, BinaryInv
<1>1. /\ update # Idle /\ update' = Idle /\ said' = said
      /\ (Fault \/ faults' = faults) /\ (Kill \/ crashes' = crashes)
    BY DEF DownloadFails, WriteNewFails, WriteNewCut, BackUpFails,
        RenameNewFails, KillUpdate
<1>2. faults' \in 0 .. MaxFaults /\ crashes' \in 0 .. MaxCrashes
    BY <1>1, FaultBound DEF BinaryTypes
<1>3. Current \in Binaries /\ Null \in Content /\ Partial \in Content
    BY <1>1, CurrentIsBinary DEF BinaryTypes, Content
<1>4. CASE DownloadFails \/ WriteNewFails \/ BackUpFails \/ KillUpdate
  <2>1. /\ UNCHANGED <<target, backup>>
        /\ \/ UNCHANGED staged
           \/ staged' = [staged EXCEPT ![Current] = Null]
           \/ staged' = [staged EXCEPT ![Current] = Partial]
      BY <1>4 DEF DownloadFails, WriteNewFails, WriteNewCut, BackUpFails,
          KillUpdate, binaryVars
  <2>2. staged' \in [Binaries -> Content]
      BY <2>1, <1>3 DEF BinaryTypes
  <2>3. BinaryInv'
      BY <2>1, <2>2, <1>1, <1>2, EndKeeps DEF BinaryTypes, UpdateInv
  <2> QED
      BY <2>1, <2>3 DEF StepKeeps, Kept
<1>5. CASE RenameNewFails
  <2>1. /\ UNCHANGED staged
        /\ \/ UNCHANGED <<target, backup>>
           \/ /\ backup[Current] # Null
              /\ target' = [target EXCEPT ![Current] = backup[Current]]
              /\ backup' = [backup EXCEPT ![Current] = Null]
      BY <1>5 DEF RenameNewFails
  <2>2. /\ target' \in [Binaries -> Content] /\ backup' \in [Binaries -> Content]
        /\ \A b \in Binaries : target'[b] # Partial /\ backup'[b] # Partial
    <3>1. backup[Current] \in Content /\ backup[Current] # Partial
        BY <1>3 DEF BinaryTypes, UpdateInv
    <3>2. Null # Partial
        BY HostFilesAssumption
    <3>3. CASE UNCHANGED <<target, backup>>
        BY <3>3 DEF BinaryTypes, UpdateInv
    <3>4. CASE /\ target' = [target EXCEPT ![Current] = backup[Current]]
               /\ backup' = [backup EXCEPT ![Current] = Null]
      <4> HIDE DEF BinaryInv
      <4>1. /\ target \in [Binaries -> Content]
            /\ backup \in [Binaries -> Content]
            /\ \A b \in Binaries : target[b] # Partial /\ backup[b] # Partial
          BY DEF BinaryInv, BinaryTypes, UpdateInv
      <4> QED
          BY <4>1, <3>1, <3>2, <3>4, <1>3
    <3> QED
        BY <2>1, <3>3, <3>4
  <2>3. BinaryInv'
      BY <2>1, <2>2, <1>1, <1>2, EndKeeps DEF BinaryTypes
  <2>4. \A b \in Binaries : Kept(b) => Kept(b)'
      BY <2>1, <1>3 DEF BinaryTypes, UpdateInv, Content, Kept
  <2> QED
      BY <2>3, <2>4 DEF StepKeeps
<1> QED
    BY <1>4, <1>5

\* The steps after which the loop turns to the next binary.
LEMMA StepsThatTurnKeep ==
    ASSUME BinaryInv, DrySkip \/ RemoveBackup
    PROVE  StepKeeps
<1> USE DEF At, BinaryInv
<1>1. /\ update # Idle
      /\ (update.at = "download" /\ update.dry) \/ update.at = "cleanup"
      /\ TurnToNext /\ UNCHANGED <<target, staged, crashes>>
      /\ Fault \/ faults' = faults
      /\ backup' \in {backup, [backup EXCEPT ![Current] = Null]}
      /\ update.at # "cleanup" => UNCHANGED backup
    BY DEF DrySkip, RemoveBackup, binaryVars
<1>2. Current \in Binaries /\ Null \in Content /\ update.dry \in BOOLEAN
    BY <1>1, CurrentIsBinary DEF BinaryTypes, Content
<1>3. backup' \in [Binaries -> Content] /\ faults' \in 0 .. MaxFaults
    BY <1>1, <1>2, FaultBound DEF BinaryTypes
<1>4. BinaryInv'
    BY <1>1, <1>3, TurnKeeps DEF BinaryTypes
<1>5. \A b \in Binaries : Kept(b) => Kept(b)'
  <2>1. CASE UNCHANGED backup
      BY <2>1, <1>1 DEF Kept
  <2>2. CASE /\ backup' = [backup EXCEPT ![Current] = Null]
             /\ update.at = "cleanup"
    <3>1. target[Current] = update.release /\ update.release \in Releases
        BY <2>2, <1>1, CurrentIsBinary DEF UpdateInv, BinaryTypes
    <3> QED
        BY <2>2, <3>1, <1>1, <1>2 DEF BinaryTypes, Kept
  <2> QED
      BY <2>1, <2>2, <1>1
<1> QED
    BY <1>4, <1>5 DEF StepKeeps

\* Every step of an update keeps the binaries' part.
LEMMA UpdateKeeps ==
    ASSUME BinaryInv, UpdateNext
    PROVE  StepKeeps
BY RunKeeps, StepsOfTheLoopKeep, StepsThatEndKeep, StepsThatTurnKeep
DEF UpdateNext, UpdateStep

-----------------------------------------------------------------------------
(* The configuration files.                                                *)

\* Every step on a configuration file keeps its part, and keeps it whole.
LEMMA ConfigKeeps ==
    ASSUME ConfigTypes, ConfigInv, ConfigNext
    PROVE  /\ ConfigTypes' /\ ConfigInv'
           /\ \A f \in Files : settings[f] # Null => settings'[f] \in Settings
           /\ faults \in 0 .. MaxFaults => faults' \in 0 .. MaxFaults
           /\ crashes \in 0 .. MaxCrashes => crashes' \in 0 .. MaxCrashes
<1>1. PICK f \in Files :
         \/ \E key \in Keys : Login(f, key)
         \/ Logout(f) \/ EnsureConfig(f)
         \/ WriteDraft(f) \/ RenameDraft(f) \/ WriterEnds(f)
    BY DEF ConfigNext
<1>2. /\ Partial \notin Settings /\ Null \notin Settings /\ NoKey \in Settings
      /\ Null # Partial /\ MaxFaults \in Nat /\ MaxCrashes \in Nat
    BY HostFilesAssumption DEF Settings
<1>3. CASE \/ \E key \in Keys : Login(f, key)
           \/ Logout(f) \/ EnsureConfig(f)
  <2>1. PICK c \in Settings : Begin(f, c)
      BY <1>2, <1>3 DEF Login, Logout, EnsureConfig, Settings
  <2>2. Writing("write", c) \in WriterState /\ Writing("write", c).at # "rename"
      BY DEF Writing, WriterState
  <2> QED
      BY <2>1, <2>2 DEF Begin, ConfigTypes, ConfigInv
<1>4. writer[f] # Idle => writer[f] \in [at: {"write", "rename"}, settings: Settings]
    BY DEF ConfigTypes, WriterState
<1>5. CASE WriteDraft(f)
  <2> DEFINE w == [at |-> "rename", settings |-> writer[f].settings]
  <2>1. /\ writer[f].settings \in Settings
        /\ writer' = [writer EXCEPT ![f] = w]
        /\ w \in WriterState
    <3>1. writer[f] \in [at: {"write", "rename"}, settings: Settings]
        BY <1>4, <1>5 DEF WriteDraft
    <3>2. [writer[f] EXCEPT !.at = "rename"] = w
        BY <3>1
    <3>3. writer' = [writer EXCEPT ![f] = [writer[f] EXCEPT !.at = "rename"]]
        BY <1>5 DEF WriteDraft
    <3>4. w \in WriterState
        BY <3>1 DEF WriterState
    <3> QED
        BY <3>1, <3>2, <3>3, <3>4
  <2> HIDE DEF w
  <2>2. w.settings = writer[f].settings
      BY DEF w
  <2> QED
      BY <2>1, <2>2, <1>5 DEF WriteDraft, ConfigTypes, ConfigInv
<1>6. CASE RenameDraft(f)
  <2>1. draft[f] \in Settings
      BY <1>4, <1>6 DEF RenameDraft, ConfigTypes
  <2>2. Idle \in WriterState /\ Idle.at # "rename"
      BY DEF WriterState
  <2> HIDE DEF Idle
  <2> QED
      BY <2>1, <2>2, <1>2, <1>6 DEF RenameDraft, ConfigTypes, ConfigInv
<1>7. CASE WriterEnds(f)
  <2>1. Idle \in WriterState /\ Idle.at # "rename"
      BY DEF WriterState
  <2>2. /\ draft' \in {draft, [draft EXCEPT ![f] = Partial]}
        /\ writer' = [writer EXCEPT ![f] = Idle]
        /\ UNCHANGED settings
        /\ Fault \/ faults' = faults
        /\ Kill \/ crashes' = crashes
      BY <1>7 DEF WriterEnds
  <2>3. ConfigTypes'
    <3> HIDE DEF Idle
    <3> QED
        BY <2>1, <2>2 DEF ConfigTypes
  <2> QED
      BY <2>2, <2>3, <1>2 DEF ConfigTypes, ConfigInv, Fault, Kill
<1> QED
    BY <1>1, <1>3, <1>5, <1>6, <1>7

-----------------------------------------------------------------------------
(* The theorems.                                                           *)

\* At first every binary is installed and nothing is under way.
LEMMA InitHolds == Init => IInv
<1> SUFFICES ASSUME Init
             PROVE  IInv
    OBVIOUS
<1>1. Null \notin Releases /\ Partial \notin Releases /\ Null # Partial
      /\ Partial \notin Settings
    BY HostFilesAssumption
<1>2. update \in UpdateState /\ update.at = "idle"
    BY DEF Init, UpdateState
<1>3. BinaryInv
    BY <1>1, <1>2, HostFilesAssumption
    DEF Init, BinaryInv, BinaryTypes, UpdateInv, SuccessMeansAll, Content
<1>4. ConfigTypes /\ ConfigInv
    BY <1>1 DEF Init, ConfigTypes, ConfigInv, WriterState
<1> QED
    BY <1>3, <1>4, IInvSplits

\* What every step does.
StepIsSafe ==
    /\ \A b \in Binaries : Kept(b) => Kept(b)'
    /\ \A f \in Files : settings[f] # Null => settings'[f] \in Settings

\* Every step keeps the invariant, and loses no binary and no configuration.
LEMMA NextHolds == IInv /\ [Next]_vars => IInv' /\ (StepIsSafe \/ UNCHANGED vars)
<1> SUFFICES ASSUME IInv, [Next]_vars
             PROVE  IInv' /\ (StepIsSafe \/ UNCHANGED vars)
    OBVIOUS
<1>1. BinaryInv /\ ConfigTypes /\ ConfigInv
    BY IInvSplits
<1>2. CASE UpdateNext /\ UNCHANGED configVars
  <2>1. StepKeeps
      BY <1>1, <1>2, UpdateKeeps
  <2>2. UNCHANGED <<settings, draft, writer>>
      BY <1>2 DEF configVars
  <2>3. ConfigTypes' /\ ConfigInv'
      BY <2>2, <1>1 DEF ConfigTypes, ConfigInv
  <2>4. \A f \in Files : settings[f] # Null => settings'[f] \in Settings
      BY <2>2, <1>1 DEF ConfigTypes, ConfigInv
  <2> QED
      BY <2>1, <2>3, <2>4, IInvSplits
      DEF StepKeeps, StepIsSafe, IInv, TypeOK, BinaryInv, BinaryTypes, ConfigTypes
<1>3. CASE ConfigNext /\ UNCHANGED updateVars
  <2>1. /\ ConfigTypes' /\ ConfigInv'
        /\ \A f \in Files : settings[f] # Null => settings'[f] \in Settings
        /\ faults' \in 0 .. MaxFaults /\ crashes' \in 0 .. MaxCrashes
      BY <1>1, <1>3, ConfigKeeps DEF BinaryInv, BinaryTypes
  <2>2. UNCHANGED <<target, staged, backup, update, said>>
      BY <1>3 DEF updateVars
  <2>3. BinaryInv'
      BY <2>1, <2>2, <1>1
      DEF BinaryInv, BinaryTypes, UpdateInv, SuccessMeansAll, Current
  <2>4. \A b \in Binaries : Kept(b) => Kept(b)'
      BY <2>2 DEF Kept
  <2> QED
      BY <2>1, <2>3, <2>4, IInvSplits
      DEF StepIsSafe, IInv, TypeOK, BinaryInv, BinaryTypes, ConfigTypes
<1>4. CASE UNCHANGED vars
    BY <1>4 DEF vars, IInv, TypeOK, UpdateInv, ConfigInv, SuccessMeansAll, Current
<1> QED
    BY <1>2, <1>3, <1>4, NextSplits

\* The inductive invariant of the updater and of the configuration files.
THEOREM IInvHolds == Spec => []IInv
<1>1. Init => IInv
    BY InitHolds
<1>2. IInv /\ [Next]_vars => IInv'
    BY NextHolds
<1> QED
    BY <1>1, <1>2, PTL DEF Spec

\* Every variable keeps its type; what is renamed was written to its end.
THEOREM TypeCorrect == Spec => []TypeOK
<1>1. IInv => TypeOK
    BY DEF IInv
<1> QED
    BY <1>1, IInvHolds, PTL

\* However many binaries there are and wherever updates fail or are killed,
\* an update that announces its success has replaced every binary.
THEOREM SuccessMeansAllHolds == Spec => []SuccessMeansAll
<1>1. IInv => SuccessMeansAll
    BY DEF IInv
<1> QED
    BY <1>1, IInvHolds, PTL

\* A binary that is installed is never lost (install, update.go:175-201).
THEOREM NothingLostHolds == Spec => NothingLost
<1>1. IInv /\ [Next]_vars => [\A b \in Binaries : Kept(b) => Kept(b)']_vars
    BY NextHolds DEF StepIsSafe
<1>2. Spec => [][Next]_vars
    BY DEF Spec
<1> QED
    BY <1>1, <1>2, IInvHolds, PTL DEF NothingLost

\* A configuration file that exists stays, and is never half-written.
THEOREM ConfigIsWholeHolds == Spec => ConfigIsWhole
<1>1. IInv /\ [Next]_vars =>
         [\A f \in Files : settings[f] # Null => settings'[f] \in Settings]_vars
    BY NextHolds DEF StepIsSafe
<1>2. Spec => [][Next]_vars
    BY DEF Spec
<1> QED
    BY <1>1, <1>2, IInvHolds, PTL DEF ConfigIsWhole

=============================================================================

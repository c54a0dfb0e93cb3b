------------------------------ MODULE HostFiles ------------------------------
(***************************************************************************)
(* The files that monocronctl and monocron-runner replace on a host: the   *)
(* binaries, which `monocronctl update' replaces one after the other       *)
(* (internal/cli/update.go), and the configuration files, which a command  *)
(* or the starting runner writes (internal/cli/config.go,                  *)
(* internal/runner/config).                                                *)
(*                                                                         *)
(* Every call of the file system is a step of its own.  It may fail, and   *)
(* the process may be killed between any two of them, or inside the one    *)
(* that writes.  There is one update at a time, and one writer of each     *)
(* configuration file; nothing in the code enforces either.                *)
(***************************************************************************)
EXTENDS Naturals

CONSTANTS
    Binaries,    \* updateBinaries
    N, Order,    \* how many there are, and the order they are updated in
    Releases,    \* the releases that are or may be installed
    Files,       \* the configuration files
    Keys,        \* the API keys a user may log in with
    NoKey,       \* what a configuration without an API key holds
    Partial,     \* what a file holds that was not written to its end
    Null,
    MaxFaults,   \* bound: how many steps fail
    MaxCrashes   \* bound: how many processes are killed

\* A configuration file, of which only the API key is kept.
Settings == Keys \cup {NoKey}

ASSUME HostFilesAssumption ==
    /\ N \in Nat \ {0}
    /\ Order \in [1 .. N -> Binaries]
    /\ \A b \in Binaries : \E i \in 1 .. N : Order[i] = b
    /\ \A i, j \in 1 .. N : Order[i] = Order[j] => i = j
    /\ {Partial, Null} \cap (Settings \cup Releases) = {}
    /\ Null # Partial
    /\ MaxFaults \in Nat
    /\ MaxCrashes \in Nat

VARIABLES
    target,    \* each binary, under its own name,
    staged,    \* under that name with .new,
    backup,    \* and with .bak
    update,    \* the update in progress
    said,      \* the release that the last update said it had installed
    settings,  \* each configuration file,
    draft,     \* and the one with .tmp
    writer,    \* the command that writes it
    faults, crashes

binaryVars == <<target, staged, backup>>
updateVars == <<target, staged, backup, update, said>>
configVars == <<settings, draft, writer>>
vars == <<target, staged, backup, update, said, settings, draft, writer,
          faults, crashes>>

\* What the file of a binary holds.
Content == Releases \cup {Partial, Null}

Idle == [at |-> "idle"]

Init ==
    /\ target \in [Binaries -> Releases \cup {Null}]
    /\ staged = [b \in Binaries |-> Null]
    /\ backup = [b \in Binaries |-> Null]
    /\ update = Idle
    /\ said = Null
    /\ settings = [f \in Files |-> Null]
    /\ draft = [f \in Files |-> Null]
    /\ writer = [f \in Files |-> Idle]
    /\ faults = 0
    /\ crashes = 0

Fault == faults < MaxFaults /\ faults' = faults + 1
Kill == crashes < MaxCrashes /\ crashes' = crashes + 1

-----------------------------------------------------------------------------
(* monocronctl update.                                                     *)

At(step) == update.at = step
Goto(step) == update' = [update EXCEPT !.at = step]

\* The binary that the loop of run has come to.
Current == Order[update.i]

\* A new update, to the latest release or the one the user names.
Run(release, dry) ==
    /\ update = Idle
    /\ update' = [at |-> "resolve", release |-> release, dry |-> dry, i |-> 1]
    /\ said' = Null
    /\ UNCHANGED <<binaryVars, configVars, faults, crashes>>

\* The release, its assets and its checksums are known.
Resolve ==
    /\ At("resolve")
    /\ Goto("download")
    /\ UNCHANGED <<binaryVars, said, configVars, faults, crashes>>

\* "All binaries updated."; a dry run prints it too, and updates none.
Said == IF update.dry THEN Null ELSE update.release

\* Mutant of TurnToNext: the loop ends one binary too early.
TurnBeforeLast ==
    \/ update.i + 1 < N /\ update' = [update EXCEPT !.at = "download", !.i = @ + 1]
                        /\ UNCHANGED said
    \/ update.i + 1 >= N /\ update' = Idle /\ said' = Said

\* The loop turns to the next binary; after the last one all are updated.
TurnToNext ==
    \/ /\ update.i < N
       /\ update' = [update EXCEPT !.at = "download", !.i = @ + 1]
       /\ UNCHANGED said
    \/ update.i >= N /\ update' = Idle /\ said' = Said

DrySkip ==
    /\ At("download")
    /\ update.dry
    /\ TurnToNext
    /\ UNCHANGED <<binaryVars, configVars, faults, crashes>>

\* The archive is there, and its checksum is the one of the release.
Download ==
    /\ At("download")
    /\ ~update.dry
    /\ Goto("write")
    /\ UNCHANGED <<binaryVars, said, configVars, faults, crashes>>

\* Something is missing, cannot be fetched, or does not have its checksum.
DownloadFails ==
    /\ At("resolve") \/ At("download")
    /\ Fault
    /\ update' = Idle
    /\ UNCHANGED <<binaryVars, said, configVars, crashes>>

\* Mutant of WriteNew: an existing file is an error.
WriteNewExclusive ==
    /\ At("write")
    /\ \/ staged[Current] = Null /\ Goto("backup")
          /\ staged' = [staged EXCEPT ![Current] = update.release]
       \/ staged[Current] # Null /\ update' = Idle /\ UNCHANGED staged
    /\ UNCHANGED <<target, backup, said, configVars, faults, crashes>>

\* MkdirAll and WriteFile of the .new file, over one an earlier update left.
WriteNew ==
    /\ At("write")
    /\ staged' = [staged EXCEPT ![Current] = update.release]
    /\ Goto("backup")
    /\ UNCHANGED <<target, backup, said, configVars, faults, crashes>>

\* WriteFile ends early: nothing was opened, or some of it was written.
WriteNewCut ==
    /\ At("write")
    /\ \/ UNCHANGED staged
       \/ staged' = [staged EXCEPT ![Current] = Partial]
    /\ update' = Idle
    /\ UNCHANGED <<target, backup, said, configVars>>

\* Mutant of WriteNewFails: nobody looks at the error.
WriteNewFailsUnseen ==
    /\ At("write")
    /\ Fault
    /\ staged' = [staged EXCEPT ![Current] = Partial]
    /\ Goto("backup")
    /\ UNCHANGED <<target, backup, said, configVars, crashes>>

WriteNewFails == WriteNewCut /\ Fault /\ UNCHANGED crashes

\* An existing binary is renamed to .bak.
BackUp ==
    /\ At("backup")
    /\ \/ target[Current] = Null /\ UNCHANGED <<target, backup>>
       \/ /\ target[Current] # Null
          /\ backup' = [backup EXCEPT ![Current] = target[Current]]
          /\ target' = [target EXCEPT ![Current] = Null]
    /\ Goto("rename")
    /\ UNCHANGED <<staged, said, configVars, faults, crashes>>

BackUpFails ==
    /\ At("backup")
    /\ target[Current] # Null
    /\ Fault
    /\ staged' \in {staged, [staged EXCEPT ![Current] = Null]}
    /\ update' = Idle
    /\ UNCHANGED <<target, backup, said, configVars, crashes>>

\* The .new file gets the name of the binary.
RenameNew ==
    /\ At("rename")
    /\ target' = [target EXCEPT ![Current] = staged[Current]]
    /\ staged' = [staged EXCEPT ![Current] = Null]
    /\ Goto("cleanup")
    /\ UNCHANGED <<backup, said, configVars, faults, crashes>>

\* Mutant of RenameNewFails: the backup is removed instead of restored.
RenameNewFailsAndRemoves ==
    /\ At("rename")
    /\ Fault
    /\ backup' = [backup EXCEPT ![Current] = Null]
    /\ update' = Idle
    /\ UNCHANGED <<target, staged, said, configVars, crashes>>

\* Then a .bak file, be it of this update or of an earlier one, is renamed
\* back, unless that fails as well.
RenameNewFails ==
    /\ At("rename")
    /\ Fault
    /\ \/ UNCHANGED <<target, backup>>
       \/ /\ backup[Current] # Null
          /\ target' = [target EXCEPT ![Current] = backup[Current]]
          /\ backup' = [backup EXCEPT ![Current] = Null]
    /\ update' = Idle
    /\ UNCHANGED <<staged, said, configVars, crashes>>

\* The .bak file is removed, unless that fails, which nobody looks at.
RemoveBackup ==
    /\ At("cleanup")
    /\ \/ backup' = [backup EXCEPT ![Current] = Null] /\ UNCHANGED faults
       \/ Fault /\ UNCHANGED backup
    /\ TurnToNext
    /\ UNCHANGED <<target, staged, configVars, crashes>>

KillUpdate ==
    /\ update # Idle
    /\ Kill
    /\ \/ update' = Idle /\ UNCHANGED <<target, staged, backup, said, configVars>>
       \/ WriteNewCut
    /\ UNCHANGED faults

-----------------------------------------------------------------------------
(* Configuration files.                                                    *)

Writing(step, c) == [at |-> step, settings |-> c]

Begin(f, c) ==
    /\ writer[f] = Idle
    /\ writer' = [writer EXCEPT ![f] = Writing("write", c)]
    /\ UNCHANGED <<settings, draft, updateVars, faults, crashes>>

\* monocronctl login.  Every command makes sure first that there is a file
\* (EnsureConfig) and reads it.
Login(f, key) == settings[f] \in Settings /\ Begin(f, key)

\* monocronctl logout.
Logout(f) == settings[f] \in Settings /\ Begin(f, NoKey)

\* CreateDefaultIfMissing of monocronctl, EnsureConfig of monocron-runner.
EnsureConfig(f) == settings[f] = Null /\ Begin(f, NoKey)

\* Mutant of WriteDraft: the file itself is written.
WriteInPlace(f) ==
    /\ writer[f].at = "write"
    /\ settings' = [settings EXCEPT ![f] = Partial]
    /\ draft' = [draft EXCEPT ![f] = writer[f].settings]
    /\ writer' = [writer EXCEPT ![f].at = "rename"]
    /\ UNCHANGED <<updateVars, faults, crashes>>

\* WriteConfig and writeConfig: WriteFile of the .tmp file,
WriteDraft(f) ==
    /\ writer[f].at = "write"
    /\ draft' = [draft EXCEPT ![f] = writer[f].settings]
    /\ writer' = [writer EXCEPT ![f].at = "rename"]
    /\ UNCHANGED <<settings, updateVars, faults, crashes>>

\* and its renaming.
RenameDraft(f) ==
    /\ writer[f].at = "rename"
    /\ settings' = [settings EXCEPT ![f] = draft[f]]
    /\ draft' = [draft EXCEPT ![f] = Null]
    /\ writer' = [writer EXCEPT ![f] = Idle]
    /\ UNCHANGED <<updateVars, faults, crashes>>

\* Either of them fails, or the process is killed.
WriterEnds(f) ==
    /\ writer[f] # Idle
    /\ \/ Fault /\ UNCHANGED crashes
       \/ Kill /\ UNCHANGED faults
    /\ \/ UNCHANGED draft
       \/ writer[f].at = "write" /\ draft' = [draft EXCEPT ![f] = Partial]
    /\ writer' = [writer EXCEPT ![f] = Idle]
    /\ UNCHANGED <<settings, updateVars>>

-----------------------------------------------------------------------------
UpdateStep ==
    \/ Resolve \/ DownloadFails
    \/ DrySkip \/ Download
    \/ WriteNew \/ WriteNewFails
    \/ BackUp \/ BackUpFails
    \/ RenameNew \/ RenameNewFails
    \/ RemoveBackup

Next ==
    \/ \E release \in Releases, dry \in BOOLEAN : Run(release, dry)
    \/ UpdateStep
    \/ KillUpdate
    \/ \E f \in Files :
          \/ \E key \in Keys : Login(f, key)
          \/ Logout(f)
          \/ EnsureConfig(f)
          \/ WriteDraft(f) \/ RenameDraft(f) \/ WriterEnds(f)

Spec == Init /\ [][Next]_vars

\* A process goes on until it ends.
FairSpec == Spec /\ WF_vars(UpdateStep)

-----------------------------------------------------------------------------
(* Properties.                                                             *)

Updating ==
    [at: {"resolve", "download", "write", "backup", "rename", "cleanup"},
     release: Releases, dry: BOOLEAN, i: 1 .. N]

UpdateState == {Idle} \cup Updating

WriterState == {Idle} \cup [at: {"write", "rename"}, settings: Settings]

\* Every variable has its type, a dry run does not get as far as writing, and
\* what is about to be renamed has been written to its end.
TypeOK ==
    /\ target \in [Binaries -> Content]
    /\ staged \in [Binaries -> Content]
    /\ backup \in [Binaries -> Content]
    /\ update \in UpdateState
    /\ update # Idle /\ update.dry => update.at \in {"resolve", "download"}
    /\ update.at \in {"backup", "rename"} => staged[Current] = update.release
    /\ said \in Releases \cup {Null}
    /\ settings \in [Files -> Settings \cup {Null, Partial}]
    /\ draft \in [Files -> Settings \cup {Null, Partial}]
    /\ writer \in [Files -> WriterState]
    /\ \A f \in Files : writer[f].at = "rename" => draft[f] = writer[f].settings
    /\ faults \in 0 .. MaxFaults
    /\ crashes \in 0 .. MaxCrashes

\* A binary that is installed is not lost, wherever an update fails or is
\* killed: it is there under its own name, or under that of the backup, from
\* where it can be renamed back; and it is a whole release of the binary
\* (install, update.go:175-201).
Kept(b) ==
    \/ target[b] \in Releases
    \/ target[b] = Null /\ backup[b] \in Releases

NothingLost == [][\A b \in Binaries : Kept(b) => Kept(b)']_vars

\* An update that said that all binaries are updated has replaced every one
\* by the release it announced, whatever earlier updates left behind
\* (run, update.go:111-119).
SuccessMeansAll == said # Null => \A b \in Binaries : target[b] = said

\* A configuration file is never seen half-written, and once it exists it
\* stays: "atomically" (WriteConfig, cli/config.go:47; writeConfig,
\* runner/config/config.go:134).
ConfigIsWhole ==
    [][\A f \in Files : settings[f] # Null => settings'[f] \in Settings]_vars

\* What failed or killed updates left does not keep later ones from
\* succeeding: when a release is tried again and again, it is installed.
UpdateCompletes ==
    \A release \in Releases :
        []<>(update # Idle /\ update.release = release /\ ~update.dry)
            => []<>(said = release)

=============================================================================

-------------------------- MODULE SandboxWorkspace --------------------------
(***************************************************************************)
(* What the steps of the reconciler do to one sandbox: its VM, the user's  *)
(* work in it, the workspace tar on a gateway's disk, the archived copy in *)
(* the object store, and the ledger of compute windows.  Each executor     *)
(* method is a sequence of effects on systems that fail on their own, and  *)
(* is started again from its beginning when it was interrupted.            *)
(*                                                                         *)
(* A claimed row has one worker here: SandboxLifecycle shows that steps    *)
(* shorter than the lease do not overlap.  Its write-back is therefore     *)
(* never refused, and attempts are not counted: a failed step is either    *)
(* tried again or was the last one.  Timestamps are abstracted: a compute  *)
(* window is named by a number (the code names it by its start), and the   *)
(* pinned end of a window is left out.                                     *)
(***************************************************************************)
EXTENDS SandboxStates, Naturals

CONSTANTS
  Pods,        \* gateway processes
  Disks,       \* the disks their data directories are on
  DiskOf(_),   \* the disk of a pod
  None,
  MaxWork,     \* bound: versions of the workspace the user makes
  MaxWindow,   \* bound: compute windows opened
  Trouble      \* what may go wrong

\* crash: a gateway process dies.   abandon: a step panics, or the database
\* refuses its write-back.          step: a call of a step fails.
\* vanish: a running VM dies.       unreachable: a live guest does not answer.
\* lookup: a read of the saved row fails.
\* blind: a Destroy and the Status call that asks what became of the VM both fail.
TroubleKind ==
  {"crash", "abandon", "step", "vanish", "unreachable", "lookup", "blind"}

ASSUME WorkspaceAssumption ==
  /\ \A p \in Pods : DiskOf(p) \in Disks
  /\ None \notin Nat \cup Pods
  /\ MaxWork \in Nat
  /\ MaxWindow \in Nat
  /\ Trouble \subseteq TroubleKind

VARIABLES
  row,     \* the columns of sandbox_instances the steps read and write
  step,    \* the step in progress; what it does is row.state
  vm,      \* the version of the workspace in the VM, or None
  tar,     \* the version in trooper.tar.gz on each disk
  object,  \* the version in the object store
  up,      \* the pods that run
  cached,  \* per pod: the window of its in-memory Instance; 0 is the zero time
  opened,  \* number of compute windows opened
  ledger,  \* sandbox_usage_records per window
  miss,    \* how far the health sweeper is with a VM it did not find
  work     \* history: the user's last version, whether it is owed to them, and
           \* whether a step that had begun to move it was cut off, or a stop
           \* destroyed the live VM it was in without a snapshot

files == <<tar, object>>
money == <<opened, ledger>>
vars  == <<row, step, vm, files, up, cached, money, miss, work>>

Version == 0..MaxWork            \* 0 is an empty workspace
Copy    == Version \cup {None}
Window  == 1..MaxWindow
MaybeWindow == 0..MaxWindow      \* 0 is NULL, or the zero time

Phase  == {"none", "start", "create", "restore", "destroy", "meter", "remove",
           "clean", "write"}
\* file: a tar to restore or to record; ref: what the claimed row desired.
NoStep == [pod |-> None, phase |-> "none", window |-> 0, file |-> FALSE,
           desired |-> "running"]

TypeOK ==
  /\ row    \in [state: LifecycleState, desired: DesiredState, snapshot: BOOLEAN,
                 archive: BOOLEAN, window: MaybeWindow]
  /\ step   \in [pod: Pods \cup {None}, phase: Phase, window: MaybeWindow,
                 file: BOOLEAN, desired: DesiredState]
  /\ vm     \in Copy
  /\ tar    \in [Disks -> Copy]
  /\ object \in Copy
  /\ up     \in SUBSET Pods
  /\ cached \in [Pods -> MaybeWindow \cup {None}]
  /\ opened \in MaybeWindow
  /\ ledger \in [Window -> Nat]
  /\ miss   \in {"none", "found", "closed"}
  /\ work   \in [version: Version, owed: BOOLEAN, cut: BOOLEAN, unsaved: BOOLEAN]

Init ==
  /\ row    = [state |-> "pending", desired |-> "running", snapshot |-> FALSE,
               archive |-> FALSE, window |-> 0]
  /\ step   = NoStep
  /\ vm     = None
  /\ tar    = [d \in Disks |-> None]
  /\ object = None
  /\ up     = Pods
  /\ cached = [p \in Pods |-> None]
  /\ opened = 0
  /\ ledger = [w \in Window |-> 0]
  /\ miss   = "none"
  /\ work   = [version |-> 0, owed |-> TRUE, cut |-> FALSE, unsaved |-> FALSE]

-----------------------------------------------------------------------------
(* Pieces of the executor methods.                                         *)

Me   == step.pod
Disk == DiskOf(Me)
At(state, phase) == step.phase = phase /\ row.state = state

Goto(phase) == step' = [step EXCEPT !.phase = phase]

\* processRow after an error: the row waits for another attempt, or has used its
\* last one.
Fail ==
  /\ step' = NoStep
  /\ \E state \in {row.state, "error"} : row' = [row EXCEPT !.state = state]

\* Mutant of WindowSeen: without the fallback.
WindowInMemory == cached[Me]

\* findInstanceBySandboxID...WithDBFallback: the cache first, then the row.
WindowSeen == IF cached[Me] # None THEN cached[Me] ELSE row.window
LookupFails == cached[Me] = None /\ "lookup" \in Trouble

\* BillingStartedAt = now: the n-th window this sandbox opens.
NextWindow == opened + 1
CanOpen    == opened < MaxWindow

\* Mutant of Metered: the cached instance does not learn its window.
MeteredInRowOnly == [cached EXCEPT ![Me] = 0]

\* registerInstanceInMemory.
Metered == [cached EXCEPT ![Me] = NextWindow]

\* recordUsageSnapshot finds the window by its start: in the row
\* (pinBillingWindowEnd's UPDATE) or already in the ledger (its SELECT).
Pinned(w) == row.window = w \/ ledger[w] > 0

\* Mutant of Recorded: the ledger row is inserted without looking for one.
RecordedAgain(w) == [ledger EXCEPT ![w] = @ + 1]

\* The ledger transaction: one record per window, whoever closes it.
Recorded(w) == IF ledger[w] > 0 THEN ledger ELSE [ledger EXCEPT ![w] = 1]

\* ... which also closes the window in the row, if it is still that one.
Closed(w) == IF row.window = w THEN 0 ELSE row.window

\* The instance in hand is the cached one when there is one.
Forgotten == IF cached[Me] # None THEN [cached EXCEPT ![Me] = 0] ELSE cached

-----------------------------------------------------------------------------
(* The reconciler around the executor.                                     *)

Claim(p) ==
  /\ step = NoStep
  /\ p \in up
  /\ row.state \in Claimable
  /\ step' = [pod |-> p, phase |-> IF row.state = "pending" THEN "write" ELSE "start",
              window |-> 0, file |-> FALSE, desired |-> row.desired]
  /\ UNCHANGED <<row, vm, files, up, cached, money, miss, work>>

\* ApplyTransition, with the fields Step sets for the claimed state.
ApplyTransition ==
  /\ step.phase = "write"
  /\ row' = [state    |-> StepTarget[row.state],
             desired  |-> step.desired,
             snapshot |-> \/ row.state = "stopping" /\ step.file
                          \/ row.state = "archiving" /\ row.snapshot /\ ~ step.file
                          \/ row.state \in {"pending", "creating", "terminating"} /\ row.snapshot,
             archive  |-> \/ row.state = "archiving" /\ (row.archive \/ step.file)
                          \/ row.state \notin {"archiving", "reviving"} /\ row.archive,
             window   |-> IF row.state \in {"creating", "reviving"} THEN step.window
                          ELSE IF row.state = "pending" THEN row.window ELSE 0]
  /\ step' = NoStep
  /\ UNCHANGED <<vm, files, up, cached, money, miss, work>>

\* Between the destruction of the VM, or of the local tar, and the write-back
\* only the step knows where the work went.
CutOff ==
  \/ row.state = "stopping" /\ step.phase \in {"meter", "write"}
  \/ row.state = "archiving" /\ step.phase = "write"

AbandonStep ==
  /\ "abandon" \in Trouble
  /\ step # NoStep
  /\ step' = NoStep
  /\ work' = [work EXCEPT !.cut = @ \/ CutOff]
  /\ UNCHANGED <<row, vm, files, up, cached, money, miss>>

\* Any call of the executor may fail before it has an effect.  (A failing
\* snapshot and a failing restore do have one and are actions of their own; a
\* failing removal of a file is ignored by the code.)
CallFails ==
  /\ "step" \in Trouble
  /\ step.phase \in {"start", "create", "destroy", "meter"}
  /\ Fail
  /\ UNCHANGED <<vm, files, up, cached, money, miss, work>>

-----------------------------------------------------------------------------
(* ExecuteCreate: the backend's Create gives an empty VM, replacing one    *)
(* that is there under the same id.                                        *)

CreateVM ==
  /\ At("creating", "start")
  /\ CanOpen
  /\ vm'     = 0
  /\ opened' = NextWindow
  /\ cached' = Metered
  /\ step'   = [step EXCEPT !.phase = "write", !.window = NextWindow]
  /\ UNCHANGED <<row, files, up, ledger, miss, work>>

-----------------------------------------------------------------------------
(* ExecuteStop.                                                            *)

\* A snapshot of the VM, or of none: then the tar is removed as well, and the
\* stop goes on if the guest is gone or looks gone: when Status fails, or the error
\* reads like one of a dead guest's.
StopSnapshot ==
  /\ At("stopping", "start")
  /\ \E ok \in BOOLEAN :
       /\ ok => vm # None
       /\ ok \/ vm = None \/ "unreachable" \in Trouble
       /\ tar'  = [tar EXCEPT ![Disk] = IF ok THEN vm ELSE None]
       /\ step' = [step EXCEPT !.phase = "destroy", !.window = WindowSeen, !.file = ok]
  /\ UNCHANGED <<row, vm, object, up, cached, money, miss, work>>

StopSnapshotFails ==
  /\ "step" \in Trouble
  /\ At("stopping", "start")
  /\ vm # None
  /\ tar' = [tar EXCEPT ![Disk] = None]
  /\ Fail
  /\ UNCHANGED <<vm, object, up, cached, money, miss, work>>

\* Destroy, then a window to close or none: shared with ExecuteTerminate.
Unmetered(state) == IF state = "terminating" THEN "clean" ELSE "write"

\* Mutant of DestroyVM: its error is swallowed.
DestroyVMUnchecked ==
  /\ step.phase = "destroy"
  /\ vm' \in {None, vm}
  /\ Goto(IF step.window # 0 THEN "meter" ELSE Unmetered(row.state))
  /\ UNCHANGED <<row, files, up, cached, money, miss, work>>

\* A stop destroys a VM of which it has no snapshot.
Unsaved == row.state = "stopping" /\ vm # None /\ ~ step.file

\* A Status that fails, for whatever reason, is taken to say that the VM is gone.
DestroyVM ==
  /\ step.phase = "destroy"
  /\ vm' \in {None} \cup (IF "blind" \in Trouble THEN {vm} ELSE {})
  /\ work' = [work EXCEPT !.unsaved = @ \/ Unsaved]
  /\ Goto(IF step.window # 0 THEN "meter" ELSE Unmetered(row.state))
  /\ UNCHANGED <<row, files, up, cached, money, miss>>

\* recordUsageForInstance.
Meter ==
  /\ step.phase = "meter"
  /\ Pinned(step.window)
  /\ ledger' = Recorded(step.window)
  /\ row'    = [row EXCEPT !.window = Closed(step.window)]
  /\ cached' = Forgotten
  /\ Goto(Unmetered(row.state))
  /\ UNCHANGED <<vm, files, up, opened, miss, work>>

\* The window is in neither place: "close sandbox compute billing window".
MeterRefused ==
  /\ step.phase = "meter"
  /\ ~ Pinned(step.window)
  /\ Fail
  /\ UNCHANGED <<vm, files, up, cached, money, miss, work>>

-----------------------------------------------------------------------------
(* ExecuteArchive.  Without an object store it changes nothing.            *)

ArchiveUpload ==
  /\ At("archiving", "start")
  /\ IF row.snapshot /\ tar[Disk] # None
     THEN object' = tar[Disk] /\ Goto("remove")
     ELSE object' = object /\ Goto("write")
  /\ UNCHANGED <<row, vm, tar, up, cached, money, miss, work>>

ArchiveRemove ==
  /\ step.phase = "remove"
  /\ tar'  = [tar EXCEPT ![Disk] = None]
  /\ step' = [step EXCEPT !.phase = "write", !.file = TRUE]
  /\ UNCHANGED <<row, vm, object, up, cached, money, miss, work>>

-----------------------------------------------------------------------------
(* ExecuteRevive.                                                          *)

\* Mutant of TarToRestore: the path of a downloaded tar is not passed on.
TarRecorded(download) == row.snapshot

TarToRestore(download) == row.snapshot \/ download

\* materializeArchivedWorkspace: a local tar the row names wins over a download.
ReviveFetch ==
  /\ At("reviving", "start")
  /\ LET local    == row.snapshot /\ tar[Disk] # None
         download == row.archive /\ ~ local /\ object # None
     IN /\ tar'  = IF download THEN [tar EXCEPT ![Disk] = object] ELSE tar
        /\ step' = [step EXCEPT !.phase = "create", !.file = TarToRestore(download)]
  /\ UNCHANGED <<row, vm, object, up, cached, money, miss, work>>

ReviveCreate ==
  /\ At("reviving", "create")
  /\ CanOpen
  /\ vm'     = 0
  /\ opened' = NextWindow
  /\ step'   = [step EXCEPT !.phase = "restore", !.window = NextWindow]
  /\ UNCHANGED <<row, files, up, cached, ledger, miss, work>>

\* A missing tar degrades to a fresh workspace.
ReviveRestore ==
  /\ step.phase = "restore"
  /\ vm'     = IF step.file /\ tar[Disk] # None THEN tar[Disk] ELSE vm
  /\ cached' = [cached EXCEPT ![Me] = step.window]
  /\ Goto("write")
  /\ UNCHANGED <<row, files, up, money, miss, work>>

\* The restore or the check of the imported repository fails.  The half-made VM
\* is destroyed again; whether that worked is not looked at.
ReviveRestoreFails ==
  /\ "step" \in Trouble
  /\ step.phase = "restore"
  /\ vm' \in {None, vm}
  /\ Fail
  /\ UNCHANGED <<files, up, cached, money, miss, work>>

-----------------------------------------------------------------------------
(* ExecuteTerminate.  A row that cannot be read is not an error here: the  *)
(* VM is destroyed without a window to close.                              *)

TerminateStart ==
  /\ At("terminating", "start")
  /\ \E w \in {WindowSeen} \cup (IF LookupFails THEN {0} ELSE {}) :
       step' = [step EXCEPT !.phase = "destroy", !.window = w]
  /\ UNCHANGED <<row, vm, files, up, cached, money, miss, work>>

\* The removal of the archived copy needs an instance in hand, and may fail.
TerminateClean ==
  /\ step.phase = "clean"
  /\ tar'    = [tar EXCEPT ![Disk] = None]
  /\ object' \in {None, object}
  /\ cached' = [cached EXCEPT ![Me] = None]
  /\ Goto("write")
  /\ UNCHANGED <<row, vm, up, money, miss, work>>

-----------------------------------------------------------------------------
(* The user, the sweeps and the world.                                     *)

Use ==
  /\ row.state = "running"
  /\ vm # None
  /\ work.version < MaxWork
  /\ vm'   = work.version + 1
  /\ work' = [version |-> work.version + 1, owed |-> TRUE, cut |-> FALSE,
              unsaved |-> FALSE]
  /\ UNCHANGED <<row, step, files, up, cached, money, miss>>

\* SetDesiredState, by the API or a sweep.  After an accepted termination the
\* user is owed nothing.
SetDesiredState(desired) ==
  /\ row.state \in Stored
  /\ row'  = [row EXCEPT !.desired = desired, !.state = Advance(@, desired)]
  /\ work' = [work EXCEPT !.owed = @ /\ Advance(row.state, desired) # "terminating"]
  /\ UNCHANGED <<step, vm, files, up, cached, money, miss>>

\* Recover and AutoRecover.
Recover ==
  /\ row.state = "error"
  /\ row' = [row EXCEPT !.state = RecoverTarget[row.desired]]
  /\ UNCHANGED <<step, vm, files, up, cached, money, miss, work>>

\* A VM dies under its user: what was in it cannot be expected back.
Vanish ==
  /\ "vanish" \in Trouble
  /\ row.state = "running"
  /\ vm # None
  /\ vm'   = None
  /\ work' = [work EXCEPT !.owed = FALSE]
  /\ UNCHANGED <<row, step, files, up, cached, money, miss>>

\* HealthSweeper: the second probe in a row finds no VM ...
MissFound ==
  /\ miss = "none"
  /\ row.state = "running" /\ row.desired = "running"
  /\ vm = None
  /\ miss' = "found"
  /\ UNCHANGED <<row, step, vm, files, up, cached, money, work>>

\* ... CloseMissingCompute bills what the row has open ...
CloseMissingCompute(p) ==
  /\ miss = "found"
  /\ p \in up
  /\ IF row.window = 0
     THEN UNCHANGED <<row, ledger, cached>>
     ELSE /\ ledger' = Recorded(row.window)
          /\ row'    = [row EXCEPT !.window = 0]
          /\ cached' = IF cached[p] # None THEN [cached EXCEPT ![p] = 0] ELSE cached
  /\ miss' = "closed"
  /\ UNCHANGED <<step, vm, files, up, opened, work>>

\* ... and MarkError moves the row if it is running.
MarkError ==
  /\ miss = "closed"
  /\ row'  = [row EXCEPT !.state = IF @ = "running" THEN "error" ELSE @]
  /\ miss' = "none"
  /\ UNCHANGED <<step, vm, files, up, cached, money, work>>

CrashPod(p) ==
  /\ "crash" \in Trouble
  /\ p \in up
  /\ up'     = up \ {p}
  /\ cached' = [cached EXCEPT ![p] = None]
  /\ step'   = IF Me = p THEN NoStep ELSE step
  /\ work'   = IF Me = p THEN [work EXCEPT !.cut = @ \/ CutOff] ELSE work
  /\ UNCHANGED <<row, vm, files, money, miss>>

\* warmInstanceCache: a row that is running or stopped, or whose VM the backend
\* lists, is put in memory with its window.
Warmed(p) ==
  [cached EXCEPT ![p] = IF vm # None \/ row.state \in {"running", "sleeping"}
                        THEN row.window ELSE None]

\* NewManager and SetDB: a VM whose row has no window open is metered from now on.
StartPod(p) ==
  /\ p \notin up
  /\ up' = up \cup {p}
  /\ IF vm # None /\ row.window = 0 /\ CanOpen
     THEN /\ opened' = NextWindow
          /\ row'    = [row EXCEPT !.window = NextWindow]
          /\ cached' = [cached EXCEPT ![p] = NextWindow]
     ELSE cached' = Warmed(p) /\ UNCHANGED <<opened, row>>
  /\ UNCHANGED <<step, vm, files, ledger, miss, work>>

-----------------------------------------------------------------------------
Executor ==
  \/ CreateVM
  \/ StopSnapshot \/ StopSnapshotFails
  \/ DestroyVM \/ Meter \/ MeterRefused
  \/ ArchiveUpload \/ ArchiveRemove
  \/ ReviveFetch \/ ReviveCreate \/ ReviveRestore \/ ReviveRestoreFails
  \/ TerminateStart \/ TerminateClean

Reconciler == (\E p \in Pods : Claim(p)) \/ ApplyTransition \/ AbandonStep \/ CallFails

World ==
  \/ Use \/ Vanish \/ Recover
  \/ \E desired \in DesiredState : SetDesiredState(desired)
  \/ MissFound \/ (\E p \in Pods : CloseMissingCompute(p)) \/ MarkError
  \/ \E p \in Pods : CrashPod(p) \/ StartPod(p)

Next == Executor \/ Reconciler \/ World

Spec == Init /\ [][Next]_vars

-----------------------------------------------------------------------------
(* Properties.                                                             *)

\* recordUsageSnapshot: a window is charged at most once, however often stops
\* and terminations are retried, by whichever pod and with whatever it has in
\* memory.
BilledOnce == \A w \in Window : ledger[w] <= 1

\* recordUsageSnapshot, ApplyTransition: a window the row has open leaves it
\* only with a record in the ledger; no write-back drops it unbilled.
WindowsAreBilled ==
  [][row.window # 0 /\ row'.window # row.window => ledger'[row.window] > 0]_vars

\* ExecuteStop, ExecuteTerminate: a row that says it was stopped or terminated
\* is right; as long as the backend can say whether a VM is still there, no
\* failure, crash or retry leaves one running that nobody stops or pays for.
NoOrphanVM == row.state \in {"sleeping", "terminated"} => vm = None

\* What ExecuteRevive on pod p would give the user back.
Restores(p) ==
  IF row.snapshot /\ tar[DiskOf(p)] # None THEN tar[DiskOf(p)]
  ELSE IF row.archive /\ object # None THEN object
  ELSE 0

\* ExecuteRevive: the VM a revive brings up holds what the row led to, however
\* often the revive was tried and whatever older tars are lying about.
ReviveRestores ==
  [][row.state = "reviving" /\ row'.state = "running" => vm = Restores(Me)]_vars

\* The work is in the VM while the sandbox runs, and a revive brings it back while
\* it is at rest.
WorkKept ==
  work.owed =>
    /\ row.state = "running" => vm = work.version
    /\ row.state \in {"sleeping", "archived"} => \A p \in Pods : Restores(p) = work.version

\* ExecuteStop, ExecuteArchive, ExecuteRevive: any number of stops, archives and
\* revives, abandoned anywhere and run again, keeps the user's work (WorkKept), but
\* for the two ways in which these methods lose it: a stop takes a live guest that
\* does not answer for a dead one and destroys it unsnapshotted (work.unsaved), and
\* a step is cut off after it destroyed the VM, or removed the local tar, and its
\* second run forgets the copy the first had made (work.cut).
WorkKeptThroughReruns == ~ work.unsaved /\ ~ work.cut => WorkKept
=============================================================================

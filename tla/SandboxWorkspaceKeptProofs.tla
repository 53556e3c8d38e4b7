--------------------- MODULE SandboxWorkspaceKeptProofs ---------------------
(***************************************************************************)
(* What SandboxWorkspace promises only under conditions, and the weakest   *)
(* conditions known: which kinds of trouble must be absent, and where it   *)
(* takes a single gateway.                                                 *)
(***************************************************************************)
EXTENDS SandboxWorkspaceProofs

-----------------------------------------------------------------------------
(* How the steps that no method of the executor takes move a row.          *)

\* A written desired state moves a row at rest, or an error row to its
\* termination, never a row in a step.
LEMMA DesiredMoves ==
  ASSUME StepInv, NEW desired \in DesiredState, SetDesiredState(desired)
  PROVE  /\ row'.state = Advance(row.state, desired)
         /\ row'.snapshot = row.snapshot /\ row'.archive = row.archive
         /\ row'.window = row.window
         /\ step.phase # "none" => row'.state = row.state
         /\ \/ row'.state = row.state
            \/ row'.state = "stopping" /\ row.state = "running"
            \/ row'.state = "archiving" /\ row.state = "sleeping"
            \/ row'.state = "reviving" /\ row.state \in {"sleeping", "archived"}
            \/ row'.state = "terminating" /\ row.state \in {"running", "sleeping", "archived", "error"}
<1>t. row \in Row
  BY DEF StepInv, TypeOK, Row
<1>1. /\ row'.state = Advance(row.state, desired)
      /\ row'.snapshot = row.snapshot /\ row'.archive = row.archive
      /\ row'.window = row.window
  BY <1>t DEF SetDesiredState, Row
<1>2. step.phase # "none" => row'.state = row.state
  BY <1>1, InStep, ConvergingStays
<1>3. \/ row'.state = row.state
      \/ row'.state = "stopping" /\ row.state = "running"
      \/ row'.state = "archiving" /\ row.state = "sleeping"
      \/ row'.state = "reviving" /\ row.state \in {"sleeping", "archived"}
      \/ row'.state = "terminating" /\ row.state \in {"running", "sleeping", "archived", "error"}
  BY <1>1 DEF Advance, MovedBy, RecoverTarget, DesiredState, Quiescent
<1>. QED BY <1>1, <1>2, <1>3

\* Recovery finds an error row, which nobody steps, and sends it where it was
\* to go.
LEMMA RecoverMoves ==
  ASSUME StepInv, Recover
  PROVE  /\ row'.state \in {"reviving", "stopping", "archiving", "terminating"}
         /\ row'.state = "terminating" => row.desired = "terminated"
         /\ row'.snapshot = row.snapshot /\ row'.archive = row.archive
         /\ row'.window = row.window /\ row'.desired = row.desired
         /\ step = NoStep
<1>t. row \in Row
  BY DEF StepInv, TypeOK, Row
<1>1. row'.state = RecoverTarget[row.desired]
  BY <1>t, StatesTyped DEF Recover, Row
<1>2. row.desired \in DesiredState
  BY <1>t DEF Row
<1>3. step = NoStep
  BY InStep DEF Recover, Claimable, Convergence, StepInv, PhaseInv, Stepped
<1>. QED BY <1>t, <1>1, <1>2, <1>3 DEF Recover, RecoverTarget, DesiredState, Row

\* A write-back takes the row to the target of its state.
LEMMA WriteBackMoves ==
  ASSUME StepInv, ApplyTransition
  PROVE  /\ row.state \in Claimable /\ row'.state = StepTarget[row.state]
         /\ step' = NoStep /\ step'.phase = "none"
         /\ row'.state = "running" <=> row.state \in {"creating", "reviving"}
         /\ row'.state = "creating" <=> row.state = "pending"
         /\ row'.state = "sleeping" <=> row.state = "stopping"
         /\ row'.state = "archived" <=> row.state = "archiving"
         /\ row'.state = "terminated" <=> row.state = "terminating"
<1>1. row.state \in Claimable /\ row'.state = StepTarget[row.state]
  BY InStep DEF ApplyTransition
<1>. QED BY <1>1, NoStepTyped DEF ApplyTransition, StepTarget, Claimable, Convergence

-----------------------------------------------------------------------------
(* A row that says running has a VM.                                       *)

RunningHasVM == row.state = "running" => vm # None

\* A VM that a step has made is there until its write-back, so the health
\* sweeper never misses one.
AliveInv ==
  /\ RunningHasVM
  /\ row.state = "creating" /\ step.phase = "write" => vm # None
  /\ row.state = "reviving" /\ step.phase \in {"restore", "write"} => vm # None
  /\ miss = "none"

LEMMA AliveKept ==
  ASSUME "vanish" \notin Trouble
  PROVE  StepInv /\ AliveInv /\ [Next]_vars => AliveInv'
<1>. SUFFICES ASSUME StepInv, AliveInv, [Next]_vars PROVE AliveInv'
  OBVIOUS
<1>. USE DEF AliveInv, RunningHasVM
<1>t. row \in Row /\ step \in Step
  BY DEF StepInv, TypeOK, Row, Step
<1>s. row.state \in RunsIn[step.phase]
  BY DEF StepInv, PhaseInv
<1>z. 0 # None
  BY WorkspaceAssumption DEF WorkspaceAssumption
<1>u. ASSUME row'.state = row.state, step' = step \/ step' = NoStep, UNCHANGED <<vm, miss>>
      PROVE  AliveInv'
  BY <1>u, NoStepTyped
<1>m. ASSUME row.state \notin {"running", "creating", "reviving"}, row'.state = row.state,
             UNCHANGED miss
      PROVE  AliveInv'
  BY <1>m
<1>1. ASSUME NEW p \in Pods, Claim(p) PROVE AliveInv'
  BY <1>1 DEF Claim
<1>2. CASE ApplyTransition
  <2>1. row'.state = "running" => row.state \in {"creating", "reviving"}
    BY <1>2, WriteBackMoves
  <2>2. step.phase = "write" /\ UNCHANGED <<vm, miss>> /\ step'.phase = "none"
    BY <1>2, WriteBackMoves DEF ApplyTransition
  <2>. QED BY <2>1, <2>2
<1>3. CASE CallFails \/ StopSnapshotFails \/ MeterRefused \/ ReviveRestoreFails
  <2>1. Fail /\ UNCHANGED miss /\ step.phase # "none"
    BY <1>3 DEF CallFails, StopSnapshotFails, MeterRefused, ReviveRestoreFails, At
  <2>2. row.state # "running"
    BY <2>1, InStep DEF Claimable, Convergence
  <2>. QED BY <2>1, <2>2, FailKeeps, NoStepTyped
<1>4. CASE CreateVM \/ ReviveCreate
  BY <1>4, <1>z DEF CreateVM, ReviveCreate, At
<1>5. CASE StopSnapshot \/ TerminateStart \/ ArchiveUpload
  BY <1>5, <1>m DEF StopSnapshot, TerminateStart, ArchiveUpload, At
<1>6. CASE DestroyVM \/ Meter \/ ArchiveRemove \/ TerminateClean
  <2>1. row.state \notin {"running", "creating", "reviving"}
    BY <1>6, <1>s, PhaseStates DEF DestroyVM, Meter, ArchiveRemove, TerminateClean
  <2>2. row'.state = row.state /\ UNCHANGED miss
    BY <1>6, <1>t DEF DestroyVM, Meter, ArchiveRemove, TerminateClean, Row
  <2>. QED BY <1>m, <2>1, <2>2
<1>7. CASE ReviveFetch
  BY <1>7, <1>t DEF ReviveFetch, At, Step
<1>8. CASE ReviveRestore
  <2>1. row.state = "reviving"
    BY <1>8, <1>s, PhaseStates DEF ReviveRestore
  <2>. QED BY <1>8, <2>1 DEF ReviveRestore
<1>9. CASE Use
  <2>1. work.version + 1 # None
    BY <1>9, WorkspaceAssumption DEF Use, WorkspaceAssumption, StepInv, TypeOK, Version
  <2>. QED BY <1>9, <2>1 DEF Use
<1>10. ASSUME NEW desired \in DesiredState, SetDesiredState(desired) PROVE AliveInv'
  BY <1>10, DesiredMoves DEF SetDesiredState
<1>11. CASE Recover
  BY <1>11, RecoverMoves, NoStepTyped DEF Recover
<1>12. CASE AbandonStep \/ UNCHANGED vars
  BY <1>12, <1>u DEF AbandonStep, vars
<1>13. CASE Vanish \/ MissFound \/ MarkError \/ \E p \in Pods : CloseMissingCompute(p)
  BY <1>13 DEF Vanish, MissFound, MarkError, CloseMissingCompute
<1>14. ASSUME NEW p \in Pods, CrashPod(p) \/ StartPod(p) PROVE AliveInv'
  <2>1. row'.state = row.state
    BY <1>14, <1>t DEF CrashPod, StartPod, Row
  <2>. QED BY <1>14, <1>u, <2>1 DEF CrashPod, StartPod
<1>. QED
  BY <1>1, <1>2, <1>3, <1>4, <1>5, <1>6, <1>7, <1>8, <1>9, <1>10, <1>11, <1>12, <1>13, <1>14
  DEF Next, Executor, Reconciler, World

LEMMA AliveAlways ==
  ASSUME "vanish" \notin Trouble
  PROVE  Spec => []AliveInv
<1>1. Init => AliveInv
  BY NoStepTyped DEF Init, AliveInv, RunningHasVM
<1>. QED BY <1>1, AliveKept, StepAlways, PTL DEF Spec

\* ExecuteCreate, ExecuteRevive: unless a VM dies by itself, a row that says
\* running has one, whatever fails, crashes or is retried on any number of pods.
THEOREM RunsWithVM ==
  ASSUME "vanish" \notin Trouble
  PROVE  Spec => []RunningHasVM
<1>1. AliveInv => RunningHasVM
  BY DEF AliveInv
<1>. QED BY <1>1, AliveAlways, PTL
-----------------------------------------------------------------------------
(* Every window is billed, where there is one gateway.                     *)

OneGateway == \A p, q \in Pods : p = q

\* The gateway's cache and the row agree on the open window; outside a step that
\* makes a VM the cache knows no other.
Agrees(p) ==
  /\ row.window # 0 => cached[p] = row.window
  /\ row.state \notin {"creating", "reviving"} => cached[p] \in {None, 0, row.window}
  /\ row.state \in {"creating", "reviving"} /\ step.phase = "write" => step.window = cached[p]

\* A stop or termination closes the window the row has open before it writes.
Settled ==
  row.state \in {"stopping", "terminating"} =>
    /\ step.phase \in {"destroy", "meter"} => step.window = row.window
    /\ step.phase \in {"clean", "write"} => row.window = 0

BillInv ==
  /\ up = Pods
  /\ row.state # "error"
  /\ row.window # 0 => row.state \in {"running", "stopping", "terminating"}
  /\ \A p \in Pods : Agrees(p)
  /\ Settled

\* The window a step reads is the one the row has open, in the cache or not.
LEMMA SeesOpenWindow ==
  ASSUME StepInv, BillInv, step.phase # "none", row.state \in {"stopping", "terminating"}
  PROVE  WindowSeen = row.window /\ (cached[step.pod] = None => row.window = 0)
<1>1. step.pod \in Pods
  BY InStep
<1>2. row.window \in MaybeWindow /\ None \notin MaybeWindow
  BY WorkspaceAssumption DEF WorkspaceAssumption, StepInv, TypeOK, MaybeWindow
<1>. QED BY <1>1, <1>2 DEF BillInv, Agrees, WindowSeen, Me

\* So no window is ever refused.
LEMMA NeverRefused ==
  ASSUME StepInv, BillInv
  PROVE  ~ MeterRefused
<1>1. step.phase = "meter" => row.state \in {"stopping", "terminating"}
  BY PhaseStates DEF StepInv, PhaseInv
<1>. QED BY <1>1 DEF BillInv, Settled, MeterRefused, Pinned

LEMMA BillKept ==
  ASSUME OneGateway, {"vanish", "step", "crash"} \cap Trouble = {}
  PROVE  StepInv /\ AliveInv /\ BillInv /\ [Next]_vars => BillInv'
<1>. SUFFICES ASSUME StepInv, AliveInv, BillInv, [Next]_vars PROVE BillInv'
  OBVIOUS
<1>t. /\ row \in Row /\ step \in Step /\ row.window \in MaybeWindow /\ None \notin MaybeWindow
      /\ cached \in [Pods -> MaybeWindow \cup {None}]
  BY WorkspaceAssumption DEF WorkspaceAssumption, StepInv, TypeOK, Row, Step, MaybeWindow
<1>s. row.state \in RunsIn[step.phase]
  BY DEF StepInv, PhaseInv
<1>g. step.phase # "none" => step.pod \in Pods /\ \A p \in Pods : p = step.pod
  BY InStep DEF OneGateway
<1>u. ASSUME row'.state = row.state, row'.window = row.window, step' = step \/ step' = NoStep,
             UNCHANGED <<cached, up>>
      PROVE  BillInv'
  BY <1>u, NoStepTyped DEF BillInv, Agrees, Settled
<1>1. ASSUME NEW p \in Pods, Claim(p) PROVE BillInv'
  <2>1. UNCHANGED <<row, cached, up>> /\ step'.phase \in {"start", "write"}
        /\ (step'.phase = "write" => row.state = "pending")
    BY <1>1 DEF Claim
  <2>. QED BY <2>1 DEF BillInv, Agrees, Settled
<1>2. CASE ApplyTransition
  <2>1. UNCHANGED <<cached, up>> /\ step.phase = "write" /\ step'.phase = "none"
        /\ row.state \in Claimable /\ row'.state # "error"
    BY <1>2, WriteBackMoves DEF ApplyTransition, StepTarget, Claimable, Convergence
  <2>2. CASE row.state \in {"creating", "reviving"}
    <3>1. row'.state = "running" /\ row'.window = step.window
      BY <1>2, <2>2, WriteBackMoves DEF ApplyTransition
    <3>2. \A p \in Pods : cached[p] = row'.window
      BY <2>1, <2>2, <3>1 DEF BillInv, Agrees
    <3>. QED BY <2>1, <3>1, <3>2 DEF BillInv, Agrees, Settled
  <2>3. CASE row.state \notin {"creating", "reviving"}
    <3>1. row.window = 0 /\ row'.window = 0
      BY <1>2, <2>1, <2>3 DEF ApplyTransition, BillInv, Settled, Claimable, Convergence
    <3>2. \A p \in Pods : cached[p] \in {None, 0}
      BY <2>3, <3>1 DEF BillInv, Agrees
    <3>. QED BY <2>1, <3>1, <3>2 DEF BillInv, Agrees, Settled
  <2>. QED BY <2>2, <2>3
<1>3. CASE CreateVM
  <2>1. row.state = "creating" /\ row.window = 0 /\ UNCHANGED <<row, up>>
    BY <1>3 DEF CreateVM, At, BillInv
  <2>2. step'.window = NextWindow /\ \A p \in Pods : cached'[p] = NextWindow
    BY <1>3, <1>t, <1>g DEF CreateVM, At, Metered, Me, Step
  <2>. QED BY <2>1, <2>2 DEF BillInv, Agrees, Settled
<1>4. CASE StopSnapshot \/ TerminateStart
  <2>1. /\ row.state \in {"stopping", "terminating"} /\ step.phase = "start"
        /\ UNCHANGED <<row, cached, up>> /\ step'.phase = "destroy"
    BY <1>4, <1>t DEF StopSnapshot, TerminateStart, At, Step
  <2>2. WindowSeen = row.window /\ (LookupFails => row.window = 0)
    BY <2>1, SeesOpenWindow DEF LookupFails, Me
  <2>3. step'.window = row.window
    BY <1>4, <1>t, <2>2 DEF StopSnapshot, TerminateStart, Step
  <2>. QED BY <2>1, <2>3 DEF BillInv, Agrees, Settled
<1>5. CASE DestroyVM
  <2>1. row.state \in {"stopping", "terminating"} /\ step.window = row.window
    BY <1>5, <1>s, PhaseStates DEF DestroyVM, BillInv, Settled
  <2>2. UNCHANGED <<row, cached, up>> /\ step'.window = step.window
    BY <1>5, <1>t DEF DestroyVM, Goto, Step, money
  <2>3. step'.phase = IF step.window # 0 THEN "meter" ELSE Unmetered(row.state)
    BY <1>5, <1>t DEF DestroyVM, Goto, Step
  <2>4. step'.phase = "meter" \/ (step'.phase \in {"clean", "write"} /\ row.window = 0)
    BY <2>1, <2>3 DEF Unmetered
  <2>. QED BY <2>1, <2>2, <2>4 DEF BillInv, Agrees, Settled
<1>6. CASE Meter
  <2>1. row.state \in {"stopping", "terminating"} /\ step.window = row.window
    BY <1>6, <1>s, PhaseStates DEF Meter, BillInv, Settled
  <2>2. row'.state = row.state /\ row'.window = 0 /\ up' = up
    BY <1>6, <1>t, <2>1 DEF Meter, Closed, Row
  <2>3. \A p \in Pods : cached'[p] \in {None, 0}
    BY <1>6, <1>t, <1>g DEF Meter, Forgotten, Me
  <2>4. step'.phase \in {"clean", "write"}
    BY <1>6, <1>t DEF Meter, Goto, Unmetered, Step
  <2>. QED BY <2>1, <2>2, <2>3, <2>4 DEF BillInv, Agrees, Settled
<1>7. CASE ArchiveUpload \/ ArchiveRemove
  <2>1. row.state = "archiving" /\ UNCHANGED <<row, cached, up>>
    BY <1>7, <1>s, PhaseStates DEF ArchiveUpload, ArchiveRemove, At
  <2>. QED BY <2>1 DEF BillInv, Agrees, Settled
<1>8. CASE ReviveFetch \/ ReviveCreate
  <2>1. row.state = "reviving" /\ UNCHANGED <<row, cached, up>> /\ step'.phase \in {"create", "restore"}
    BY <1>8, <1>t DEF ReviveFetch, ReviveCreate, At, Step
  <2>. QED BY <2>1 DEF BillInv, Agrees, Settled
<1>9. CASE ReviveRestore
  <2>1. row.state = "reviving" /\ row.window = 0 /\ UNCHANGED <<row, up>>
    BY <1>9, <1>s, PhaseStates DEF ReviveRestore, BillInv
  <2>2. step'.window = step.window /\ \A p \in Pods : cached'[p] = step.window
    BY <1>9, <1>t, <1>g DEF ReviveRestore, Goto, Me, Step
  <2>. QED BY <2>1, <2>2 DEF BillInv, Agrees, Settled
<1>10. CASE TerminateClean
  <2>1. row.state = "terminating" /\ row.window = 0 /\ UNCHANGED <<row, up>>
    BY <1>10, <1>s, PhaseStates DEF TerminateClean, BillInv, Settled
  <2>2. step'.phase = "write" /\ \A p \in Pods : cached'[p] = None
    BY <1>10, <1>t, <1>g DEF TerminateClean, Goto, Me, Step
  <2>. QED BY <2>1, <2>2 DEF BillInv, Agrees, Settled
<1>11. ASSUME NEW desired \in DesiredState, SetDesiredState(desired) PROVE BillInv'
  <2>1. row'.window = row.window /\ UNCHANGED <<step, cached, up>>
    BY <1>11, DesiredMoves DEF SetDesiredState
  <2>2. CASE row'.state = row.state
    BY <1>u, <2>1, <2>2
  <2>3. CASE row'.state # row.state
    <3>1. /\ step.phase = "none"
          /\ row.state \in {"running", "sleeping", "archived"}
          /\ row'.state \in {"stopping", "archiving", "reviving", "terminating"}
          /\ row.state = "running" => row'.state \in {"stopping", "terminating"}
      BY <1>11, <2>3, DesiredMoves DEF BillInv
    <3>. QED BY <2>1, <3>1 DEF BillInv, Agrees, Settled
  <2>. QED BY <2>2, <2>3
<1>12. CASE Use \/ AbandonStep \/ MissFound \/ UNCHANGED vars
  BY <1>12, <1>u DEF Use, AbandonStep, MissFound, vars
<1>13. CASE CallFails \/ StopSnapshotFails \/ ReviveRestoreFails \/ Vanish \/ Recover \/ MarkError
            \/ \E p \in Pods : CloseMissingCompute(p) \/ CrashPod(p) \/ StartPod(p)
  BY <1>13 DEF CallFails, StopSnapshotFails, ReviveRestoreFails, Vanish, Recover, MarkError,
     CloseMissingCompute, CrashPod, StartPod, AliveInv, BillInv
<1>14. ~ MeterRefused
  BY NeverRefused
<1>. QED
  BY <1>1, <1>2, <1>3, <1>4, <1>5, <1>6, <1>7, <1>8, <1>9, <1>10, <1>11, <1>12, <1>13, <1>14
  DEF Next, Executor, Reconciler, World

\* A step that takes a window out of the row has it in the ledger.
LEMMA LeavesBilled ==
  ASSUME StepInv, AliveInv, BillInv, [Next]_vars, row.window # 0, row'.window # row.window
  PROVE  ledger'[row.window] > 0
<1>t. row \in Row /\ row.window \in Window /\ ledger \in [Window -> Nat]
  BY WorkspaceAssumption DEF WorkspaceAssumption, StepInv, TypeOK, Row, MaybeWindow, Window
<1>1. CASE ApplyTransition
  <2>1. row.state \in {"stopping", "terminating"}
    BY <1>1, WriteBackMoves DEF BillInv, Claimable, Convergence
  <2>. QED BY <1>1, <2>1 DEF ApplyTransition, BillInv, Settled
<1>2. CASE Meter
  <2>1. row'.window = Closed(step.window)
    BY <1>2, <1>t DEF Meter, Row
  <2>2. step.window = row.window
    BY <2>1 DEF Closed
  <2>. QED BY <1>2, <1>t, <2>2 DEF Meter, Recorded
<1>3. ASSUME NEW p \in Pods, CloseMissingCompute(p) PROVE FALSE
  BY <1>3 DEF CloseMissingCompute, AliveInv
<1>4. ASSUME NEW p \in Pods, StartPod(p) PROVE FALSE
  BY <1>4 DEF StartPod, BillInv
<1>5. ~ Fail
  BY FailKeeps
<1>6. Executor => Meter
  BY <1>5 DEF Executor, CreateVM, StopSnapshot, StopSnapshotFails, DestroyVM, MeterRefused,
     ArchiveUpload, ArchiveRemove, ReviveFetch, ReviveCreate, ReviveRestore, ReviveRestoreFails,
     TerminateStart, TerminateClean
<1>7. Reconciler => ApplyTransition
  BY <1>5 DEF Reconciler, Claim, AbandonStep, CallFails
<1>8. ASSUME NEW desired \in DesiredState, SetDesiredState(desired) PROVE FALSE
  BY <1>8, DesiredMoves
<1>9. ~ Recover /\ ~ MarkError
  BY <1>t DEF Recover, MarkError, BillInv, AliveInv
<1>10. World => FALSE
  BY <1>3, <1>4, <1>8, <1>9 DEF World, Use, Vanish, MissFound, CrashPod
<1>11. ~ UNCHANGED vars
  BY DEF vars
<1>. QED BY <1>1, <1>2, <1>6, <1>7, <1>10, <1>11 DEF Next

\* recordUsageSnapshot, ApplyTransition: with one gateway that does not crash,
\* where no call of a step fails for good and no VM dies by itself, no write-back
\* drops a window unbilled, however often steps are abandoned and run again,
\* guests do not answer, reads of the row fail, or the backend cannot say whether
\* the VM is gone.
THEOREM EveryWindowBilled ==
  ASSUME OneGateway, {"vanish", "step", "crash"} \cap Trouble = {}
  PROVE  Spec => WindowsAreBilled
<1>1. Spec => []AliveInv
  BY AliveAlways
<1>2. Init => BillInv
  BY NoStepTyped DEF Init, BillInv, Agrees, Settled
<1>3. StepInv /\ AliveInv /\ BillInv /\ [Next]_vars
        => [row.window # 0 /\ row'.window # row.window => ledger'[row.window] > 0]_vars
  BY LeavesBilled
<1>. QED BY <1>1, <1>2, <1>3, BillKept, StepAlways, PTL DEF Spec, WindowsAreBilled

\* A step that closes a window finds it in the row or in the ledger.
StaysOutOfError ==
  row.state # "error" /\ (step.phase = "meter" => Pinned(step.window))

\* recordUsageForInstance, processRow: under the same conditions no stop or
\* termination is refused for a window that is in neither place, which is the only
\* way left into error: no stale cache, wherever a step was abandoned, sends a
\* sandbox there.
THEOREM NoneEndsInError ==
  ASSUME OneGateway, {"vanish", "step", "crash"} \cap Trouble = {}
  PROVE  Spec => []StaysOutOfError
<1>1. Spec => []AliveInv
  BY AliveAlways
<1>2. Init => BillInv
  BY NoStepTyped DEF Init, BillInv, Agrees, Settled
<1>3. StepInv /\ BillInv => StaysOutOfError
  <2>. SUFFICES ASSUME StepInv, BillInv, step.phase = "meter" PROVE Pinned(step.window)
    BY DEF BillInv, StaysOutOfError
  <2>1. row.state \in {"stopping", "terminating"}
    BY PhaseStates DEF StepInv, PhaseInv
  <2>. QED BY <2>1 DEF BillInv, Settled, Pinned
<1>. QED BY <1>1, <1>2, <1>3, BillKept, StepAlways, PTL DEF Spec

-----------------------------------------------------------------------------
(* The work is kept, where there is one gateway.                           *)

\* After a termination was accepted, or a step gave up, the user is owed nothing.
NotOwed == row.state \in {"terminating", "terminated", "error"} => ~ work.owed

\* While work is owed, a stop is never refused for a window it cannot find: what
\* the cache holds is in the row or in the ledger.
Findable(p) == cached[p] \in {None, 0} \/ Pinned(cached[p])

PinInv ==
  /\ step # NoStep => step.pod \in up
  /\ \A p \in Pods :
       /\ row.state = "running" \/ (row.state = "stopping" /\ work.owed) => Findable(p)
       /\ row.state \in {"creating", "reviving"} /\ step.phase = "write" => step.window = cached[p]
  /\ row.state = "stopping" /\ work.owed =>
       /\ step.phase = "destroy" /\ step.window # 0 => Pinned(step.window)
       /\ step.phase = "meter" => Pinned(step.window)

LEMMA PinKept ==
  ASSUME OneGateway, {"vanish", "step"} \cap Trouble = {}
  PROVE  StepInv /\ AliveInv /\ NotOwed /\ PinInv /\ [Next]_vars => PinInv'
<1>. SUFFICES ASSUME StepInv, AliveInv, NotOwed, PinInv, [Next]_vars PROVE PinInv'
  OBVIOUS
<1>. USE DEF Findable
<1>t. /\ row \in Row /\ step \in Step /\ row.window \in MaybeWindow /\ None \notin MaybeWindow
      /\ cached \in [Pods -> MaybeWindow \cup {None}] /\ ledger \in [Window -> Nat]
      /\ up \in SUBSET Pods
  BY WorkspaceAssumption DEF WorkspaceAssumption, StepInv, TypeOK, Row, Step, MaybeWindow
<1>s. row.state \in RunsIn[step.phase]
  BY DEF StepInv, PhaseInv
<1>p. step = NoStep <=> step.phase = "none"
  BY NoStepTyped DEF StepInv, PhaseInv, Stepped
<1>g. step.phase # "none" => step.pod \in Pods /\ \A p \in Pods : p = step.pod
  BY InStep DEF OneGateway
<1>u. ASSUME row'.state = row.state, row'.window = row.window, step' = step \/ step' = NoStep,
             work'.owed => work.owed \/ row.state = "running", UNCHANGED <<cached, up, ledger>>
      PROVE  PinInv'
  BY <1>u, NoStepTyped DEF PinInv, Pinned
<1>o. ASSUME row'.state \notin {"running", "stopping"},
             row'.state \notin {"creating", "reviving"} \/ step'.phase # "write",
             UNCHANGED up, step' = NoStep \/ (step # NoStep /\ step'.pod = step.pod)
      PROVE  PinInv'
  BY <1>o DEF PinInv
<1>1. ASSUME NEW p \in Pods, Claim(p) PROVE PinInv'
  <2>1. /\ UNCHANGED <<row, cached, up, ledger, work>> /\ step'.phase \in {"start", "write"}
        /\ (step'.phase = "write" => row.state = "pending") /\ step'.pod \in up
    BY <1>1 DEF Claim, money
  <2>. QED BY <2>1 DEF PinInv, Pinned
<1>2. CASE ApplyTransition
  <2>1. UNCHANGED <<cached, up>> /\ step.phase = "write" /\ step' = NoStep /\ step'.phase = "none"
        /\ row'.state # "stopping"
    BY <1>2, WriteBackMoves DEF ApplyTransition, StepTarget, Claimable, Convergence
  <2>2. ASSUME row'.state = "running" PROVE \A p \in Pods : cached[p] = row'.window
    <3>1. row.state \in {"creating", "reviving"} /\ row'.window = step.window
      BY <1>2, <2>2, WriteBackMoves DEF ApplyTransition
    <3>. QED BY <2>1, <3>1 DEF PinInv
  <2>. QED BY <2>1, <2>2 DEF PinInv, Pinned
<1>3. CASE MeterRefused
  <2>1. /\ row'.state \in {row.state, "error"} /\ row'.window = row.window /\ step' = NoStep
        /\ UNCHANGED <<cached, up, ledger, work>>
    BY <1>3, FailKeeps DEF MeterRefused, money
  <2>2. CASE row'.state = "error"
    BY <1>o, <2>1, <2>2
  <2>. QED BY <1>u, <2>1, <2>2
<1>4. CASE CreateVM
  <2>1. row'.state = "creating" /\ UNCHANGED up /\ step # NoStep
    BY <1>4, <1>p DEF CreateVM, At
  <2>2. /\ step'.window = NextWindow /\ step'.pod = step.pod
        /\ \A p \in Pods : cached'[p] = NextWindow
    BY <1>4, <1>t, <1>g DEF CreateVM, At, Metered, Me, Step
  <2>. QED BY <2>1, <2>2 DEF PinInv
<1>5. CASE StopSnapshot
  <2>1. /\ row.state = "stopping" /\ step.phase = "start" /\ UNCHANGED <<row, cached, up, ledger>>
        /\ step'.phase = "destroy" /\ step'.pod = step.pod /\ step'.window = WindowSeen
        /\ step # NoStep /\ step.pod \in Pods
    BY <1>5, <1>t, <1>p, <1>g DEF StopSnapshot, At, money, Step
  <2>2. work' = work
    BY <1>5 DEF StopSnapshot
  <2>3. work.owed /\ WindowSeen # 0 => Pinned(WindowSeen)
    BY <2>1 DEF PinInv, WindowSeen, Me, Pinned
  <2>. QED BY <2>1, <2>2, <2>3 DEF PinInv, Pinned
<1>6. CASE DestroyVM
  <2>1. /\ UNCHANGED <<row, cached, up, ledger>> /\ step'.window = step.window
        /\ step'.pod = step.pod /\ step # NoStep
        /\ step'.phase = (IF step.window # 0 THEN "meter" ELSE Unmetered(row.state))
    BY <1>6, <1>t, <1>p DEF DestroyVM, Goto, money, Step
  <2>o. work'.owed = work.owed
    BY <1>6 DEF DestroyVM, StepInv, TypeOK
  <2>2. row.state \in {"stopping", "terminating"}
    BY <1>6, <1>s, PhaseStates DEF DestroyVM
  <2>3. step'.phase \notin {"destroy"} /\ (step'.phase = "meter" => step.window # 0)
    BY <2>1 DEF Unmetered
  <2>. QED BY <1>6, <2>1, <2>o, <2>2, <2>3 DEF DestroyVM, PinInv, Pinned
<1>7. CASE Meter
  <2>1. /\ row.state \in {"stopping", "terminating"} /\ step # NoStep
        /\ row'.state = row.state /\ row'.window = Closed(step.window)
        /\ UNCHANGED <<up, work>> /\ step'.pod = step.pod /\ step'.phase \in {"clean", "write"}
    BY <1>7, <1>s, <1>t, <1>p, PhaseStates DEF Meter, Goto, Unmetered, Row, Step
  <2>2. \A p \in Pods : cached'[p] \in {None, 0}
    BY <1>7, <1>t, <1>g DEF Meter, Forgotten, Me
  <2>. QED BY <2>1, <2>2 DEF PinInv
<1>8. CASE ArchiveUpload \/ ArchiveRemove \/ TerminateStart \/ TerminateClean
  <2>1. row.state \in {"archiving", "terminating"} /\ UNCHANGED <<row, up>> /\ step # NoStep
    BY <1>8, <1>s, <1>p, PhaseStates
    DEF ArchiveUpload, ArchiveRemove, TerminateStart, TerminateClean, At
  <2>2. step'.pod = step.pod
    BY <1>8, <1>t DEF ArchiveUpload, ArchiveRemove, TerminateStart, TerminateClean, Goto, Step
  <2>. QED BY <1>o, <2>1, <2>2
<1>9. CASE ReviveFetch \/ ReviveCreate
  <2>1. /\ row.state = "reviving" /\ UNCHANGED <<row, up>> /\ step # NoStep
        /\ step'.phase \in {"create", "restore"} /\ step'.pod = step.pod
    BY <1>9, <1>t, <1>p DEF ReviveFetch, ReviveCreate, At, Step
  <2>. QED BY <1>o, <2>1
<1>10. CASE ReviveRestore
  <2>1. row.state = "reviving" /\ UNCHANGED <<row, up>> /\ step # NoStep
    BY <1>10, <1>s, <1>p, PhaseStates DEF ReviveRestore
  <2>2. /\ step'.window = step.window /\ step'.pod = step.pod
        /\ \A p \in Pods : cached'[p] = step.window
    BY <1>10, <1>t, <1>g DEF ReviveRestore, Goto, Me, Step
  <2>. QED BY <2>1, <2>2 DEF PinInv
<1>11. ASSUME NEW desired \in DesiredState, SetDesiredState(desired) PROVE PinInv'
  <2>1. /\ row'.window = row.window /\ UNCHANGED <<step, cached, up, ledger>>
        /\ (work'.owed => work.owed)
    BY <1>11, DesiredMoves DEF SetDesiredState, money, StepInv, TypeOK
  <2>2. CASE row'.state = row.state
    BY <1>u, <2>1, <2>2
  <2>3. CASE row'.state # row.state
    <3>1. step.phase = "none" /\ row'.state # "running"
          /\ (row'.state = "stopping" => row.state = "running")
      BY <1>11, <2>3, DesiredMoves
    <3>. QED BY <2>1, <3>1 DEF PinInv, Pinned
  <2>. QED BY <2>2, <2>3
<1>12. CASE Recover
  <2>1. ~ work.owed /\ row'.state # "running" /\ step = NoStep /\ step' = step /\ UNCHANGED <<up, work>>
    BY <1>12, RecoverMoves DEF Recover, NotOwed
  <2>. QED BY <1>p, <2>1 DEF PinInv
<1>13. CASE Use \/ AbandonStep \/ UNCHANGED vars
  <2>1. UNCHANGED <<row, cached, up, ledger>> /\ (step' = step \/ step' = NoStep)
    BY <1>13 DEF Use, AbandonStep, vars, money
  <2>2. work'.owed => work.owed \/ row.state = "running"
    BY <1>13 DEF Use, AbandonStep, vars, StepInv, TypeOK
  <2>. QED BY <1>u, <2>1, <2>2
<1>14. CASE CallFails \/ StopSnapshotFails \/ ReviveRestoreFails \/ Vanish \/ MissFound \/ MarkError
            \/ \E p \in Pods : CloseMissingCompute(p)
  BY <1>14 DEF CallFails, StopSnapshotFails, ReviveRestoreFails, Vanish, MissFound, MarkError,
     CloseMissingCompute, AliveInv, RunningHasVM
<1>15. ASSUME NEW p \in Pods, CrashPod(p) PROVE PinInv'
  <2>1. \A q \in Pods : q = p
    BY DEF OneGateway
  <2>2. step' = NoStep /\ step'.phase = "none"
    BY <1>15, <1>p, <1>g, <2>1, NoStepTyped DEF CrashPod, Me
  <2>3. \A q \in Pods : cached'[q] = None
    BY <1>15, <1>t, <2>1 DEF CrashPod
  <2>. QED BY <1>15, <2>2, <2>3 DEF PinInv
<1>16. ASSUME NEW p \in Pods, StartPod(p) PROVE PinInv'
  <2>1. \A q \in Pods : q = p
    BY DEF OneGateway
  <2>2. step = NoStep /\ step' = step /\ step.phase = "none"
    BY <1>16, <1>p, <1>t, <2>1 DEF StartPod, PinInv
  <2>3. \A q \in Pods : cached'[q] \in {None, row'.window}
    BY <1>16, <1>t, <2>1 DEF StartPod, Warmed, Row
  <2>. QED BY <2>2, <2>3 DEF PinInv, Pinned
<1>. QED
  BY <1>1, <1>2, <1>3, <1>4, <1>5, <1>6, <1>7, <1>8, <1>9, <1>10, <1>11, <1>12, <1>13,
     <1>14, <1>15, <1>16
  DEF Next, Executor, Reconciler, World
\* Nobody has worked in a sandbox that is being created; a step begins without a
\* tar in hand.
Fresh ==
  /\ row.state \in {"pending", "creating"} => work.version = 0
  /\ row.state = "creating" /\ step.phase = "write" => vm = 0
  /\ step.phase = "start" => ~ step.file

\* Where the user's last version is, phase by phase.
Saved == step.file /\ tar[Disk] = work.version
Leads == \A p \in Pods : Restores(p) = work.version

Tracked ==
  /\ row.state = "running" => vm = work.version
  /\ row.state = "stopping" =>
       /\ step.phase \in {"none", "start", "destroy"} => vm = work.version
       /\ step.phase = "destroy" /\ step.file => Saved
       /\ step.phase \in {"meter", "write"} => Saved
  /\ row.state \in {"sleeping", "archived", "reviving"} => Leads
  /\ row.state = "archiving" =>
       /\ step.phase = "remove" => row.snapshot /\ tar[Disk] = work.version
       /\ step.phase = "remove" \/ (step.phase = "write" /\ step.file) => object = work.version
       /\ ~ (step.phase = "write" /\ step.file) => Leads

\* Neither of the two ways in which the methods lose the work has happened.
Due == work.owed /\ ~ work.cut /\ ~ work.unsaved

WorkInv == NotOwed /\ Fresh /\ (Due => Tracked)

\* What a pod restores depends on four things only.
LEMMA LeadsKept ==
  ASSUME row'.snapshot = row.snapshot, row'.archive = row.archive,
         UNCHANGED <<tar, object>>, work'.version = work.version, Leads
  PROVE  Leads'
BY DEF Leads, Restores

\* Without a step nothing but the state of the row tells where the work is.
LEMMA TrackedAtRest ==
  ASSUME Tracked, row'.state = row.state, step' = NoStep, work'.version = work.version,
         ~ (row.state = "stopping" /\ step.phase \in {"meter", "write"}),
         ~ (row.state = "archiving" /\ step.phase = "write"),
         row.state \in RunsIn[step.phase], step.phase \in Phase,
         row'.snapshot = row.snapshot, row'.archive = row.archive, UNCHANGED <<vm, tar, object>>
  PROVE  Tracked'
<1>1. step'.phase = "none"
  BY NoStepTyped
<1>2. row.state = "stopping" => step.phase \in {"none", "start", "destroy"}
  BY PhaseStates DEF Phase
<1>3. Leads => Leads'
  BY LeadsKept
<1>. QED BY <1>1, <1>2, <1>3 DEF Tracked

LEMMA WorkInvKept ==
  ASSUME OneGateway, {"vanish", "step"} \cap Trouble = {}
  PROVE  StepInv /\ AliveInv /\ PinInv /\ ReviveInv /\ WorkInv /\ [Next]_vars => WorkInv'
<1>. SUFFICES ASSUME StepInv, AliveInv, PinInv, ReviveInv, WorkInv, [Next]_vars PROVE WorkInv'
  OBVIOUS
<1>t. /\ row \in Row /\ step \in Step /\ tar \in [Disks -> Copy]
      /\ work \in [version: Version, owed: BOOLEAN, cut: BOOLEAN, unsaved: BOOLEAN]
      /\ work.version # None /\ object \in Copy /\ vm \in Copy
  BY WorkspaceAssumption DEF WorkspaceAssumption, StepInv, TypeOK, Row, Step, Version
<1>s. row.state \in RunsIn[step.phase]
  BY DEF StepInv, PhaseInv
<1>p. step = NoStep <=> step.phase = "none"
  BY NoStepTyped DEF StepInv, PhaseInv, Stepped
<1>g. step.phase # "none" =>
        /\ step.pod \in Pods /\ DiskOf(step.pod) \in Disks /\ row.state \in Claimable
        /\ \A p \in Pods : p = step.pod
  BY InStep DEF OneGateway
\* Steps that touch neither the work nor where it is.
<1>u. ASSUME row'.state = row.state, row'.snapshot = row.snapshot, row'.archive = row.archive,
             UNCHANGED <<step, vm, tar, object, work>>
      PROVE  WorkInv'
  <2>1. Leads => Leads'
    BY <1>u, LeadsKept
  <2>. QED BY <1>u, <2>1 DEF WorkInv, NotOwed, Fresh, Tracked, Due, Saved, Disk, Me
\* Steps of a row whose work is owed to nobody.
<1>o. ASSUME ~ work.owed, work' = work, row'.state \notin {"pending", "creating"},
             step'.phase # "start"
      PROVE  WorkInv'
  BY <1>o DEF WorkInv, NotOwed, Fresh, Due
<1>1. ASSUME NEW p \in Pods, Claim(p) PROVE WorkInv'
  <2>1. /\ UNCHANGED <<row, vm, tar, object, work>> /\ step.phase = "none"
        /\ step'.phase \in {"start", "write"} /\ ~ step'.file
        /\ (step'.phase = "write" => row.state = "pending")
    BY <1>1, <1>p DEF Claim, files
  <2>2. Leads => Leads'
    BY <2>1, LeadsKept
  <2>. QED BY <2>1, <2>2 DEF WorkInv, NotOwed, Fresh, Tracked, Due
<1>2. CASE ApplyTransition
  <2>1. /\ step.phase = "write" /\ step'.phase = "none" /\ UNCHANGED <<vm, tar, object, work>>
        /\ row.state \in Claimable
    BY <1>2, WriteBackMoves DEF ApplyTransition, files
  <2>2. NotOwed' /\ Fresh'
    BY <1>2, <2>1, WriteBackMoves DEF WorkInv, NotOwed, Fresh, StepTarget, Claimable, Convergence
  <2>3. ASSUME Due PROVE Tracked'
    <3>1. Tracked
      BY <2>3 DEF WorkInv
    <3>2. CASE row.state \in {"pending", "terminating"}
      <4>1. row'.state \in {"creating", "terminated"}
        BY <1>2, <3>2, WriteBackMoves
      <4>. QED BY <4>1 DEF Tracked
    <3>3. CASE row.state = "creating"
      <4>1. row'.state = "running" /\ vm = work.version
        BY <1>2, <2>1, <3>3, WriteBackMoves DEF WorkInv, Fresh
      <4>. QED BY <2>1, <4>1 DEF Tracked
    <3>4. CASE row.state = "reviving"
      <4>1. row'.state = "running" /\ vm = Restores(Me)
        BY <1>2, <2>1, <3>4, WriteBackMoves DEF ReviveInv
      <4>2. Restores(Me) = work.version
        BY <1>g, <2>1, <3>1, <3>4 DEF Tracked, Leads, Me
      <4>. QED BY <2>1, <4>1, <4>2 DEF Tracked
    <3>5. CASE row.state = "stopping"
      <4>1. row'.state = "sleeping" /\ row'.snapshot = step.file
        BY <1>2, <1>t, <3>5, WriteBackMoves DEF ApplyTransition, Step
      <4>2. step.file /\ \A p \in Pods : tar[DiskOf(p)] = work.version
        BY <1>g, <2>1, <3>1, <3>5 DEF Tracked, Saved, Disk, Me
      <4>3. Leads'
        BY <1>t, <2>1, <4>1, <4>2 DEF Leads, Restores
      <4>. QED BY <4>1, <4>3 DEF Tracked
    <3>6. CASE row.state = "archiving"
      <4>1. /\ row'.state = "archived"
            /\ row'.snapshot = (row.snapshot /\ ~ step.file)
            /\ row'.archive = (row.archive \/ step.file)
        BY <1>2, <1>t, <3>6, WriteBackMoves DEF ApplyTransition, Step, Row
      <4>2. CASE step.file
        <5>1. object = work.version
          BY <2>1, <3>1, <3>6, <4>2 DEF Tracked
        <5>2. Leads'
          BY <1>t, <2>1, <4>1, <4>2, <5>1 DEF Leads, Restores
        <5>. QED BY <4>1, <5>2 DEF Tracked
      <4>3. CASE ~ step.file
        <5>1. Leads
          BY <2>1, <3>1, <3>6, <4>3 DEF Tracked
        <5>2. row'.snapshot = row.snapshot /\ row'.archive = row.archive
          BY <1>t, <4>1, <4>3 DEF Step, Row
        <5>3. Leads'
          BY <2>1, <5>1, <5>2, LeadsKept
        <5>. QED BY <4>1, <5>3 DEF Tracked
      <4>. QED BY <4>2, <4>3
    <3>. QED BY <2>1, <3>2, <3>3, <3>4, <3>5, <3>6 DEF Claimable, Convergence
  <2>. QED BY <2>1, <2>2, <2>3 DEF WorkInv, Due
<1>3. CASE AbandonStep
  <2>1. UNCHANGED <<row, vm, tar, object>> /\ step' = NoStep /\ step'.phase = "none"
    BY <1>3, NoStepTyped DEF AbandonStep, files
  <2>2. /\ work'.version = work.version /\ work'.owed = work.owed
        /\ work'.cut = (work.cut \/ CutOff) /\ work'.unsaved = work.unsaved
    BY <1>3, <1>t DEF AbandonStep
  <2>3. Due' => Tracked'
    BY <1>s, <1>t, <2>1, <2>2, TrackedAtRest DEF WorkInv, Due, CutOff, Step
  <2>. QED BY <2>1, <2>2, <2>3 DEF WorkInv, NotOwed, Fresh
<1>4. CASE MeterRefused
  <2>1. row.state \in {"stopping", "terminating"}
    BY <1>4, <1>s, PhaseStates DEF MeterRefused
  <2>2. ~ work.owed
    BY <1>4, <2>1 DEF MeterRefused, WorkInv, NotOwed, PinInv
  <2>3. row'.state \in {"stopping", "terminating", "error"} /\ step'.phase = "none" /\ work' = work
    BY <1>4, <2>1, FailKeeps, NoStepTyped DEF MeterRefused
  <2>. QED BY <1>o, <2>2, <2>3
<1>5. CASE CreateVM
  <2>1. row'.state = "creating" /\ vm' = 0 /\ work' = work /\ UNCHANGED row /\ row.state = "creating"
        /\ step'.phase = "write"
    BY <1>5, <1>t DEF CreateVM, At, Step
  <2>. QED BY <2>1 DEF WorkInv, NotOwed, Fresh, Tracked, Due
<1>6. CASE StopSnapshot
  <2>1. row.state = "stopping" /\ step.phase = "start" /\ UNCHANGED <<row, vm, object, work>>
    BY <1>6 DEF StopSnapshot, At
  <2>2. PICK ok \in BOOLEAN :
          /\ tar'  = [tar EXCEPT ![Disk] = IF ok THEN vm ELSE None]
          /\ step' = [step EXCEPT !.phase = "destroy", !.window = WindowSeen, !.file = ok]
    BY <1>6 DEF StopSnapshot
  <2>3. step'.phase = "destroy" /\ step'.pod = step.pod /\ step'.file = ok
    BY <1>t, <2>2 DEF Step
  <2>4. ASSUME Due PROVE Tracked'
    <3>1. Tracked /\ vm = work.version
      BY <2>1, <2>4 DEF WorkInv, Tracked
    <3>2. ok => tar'[DiskOf(step.pod)] = vm
      BY <1>t, <1>g, <2>1, <2>2 DEF Disk, Me
    <3>3. step'.file => Saved'
      BY <2>1, <2>3, <3>1, <3>2 DEF Saved, Disk, Me
    <3>. QED BY <2>1, <2>3, <3>1, <3>3 DEF Tracked
  <2>. QED BY <2>1, <2>3, <2>4 DEF WorkInv, NotOwed, Fresh, Due
<1>7. CASE DestroyVM
  <2>1. row.state \in {"stopping", "terminating"} /\ step.phase = "destroy"
    BY <1>7, <1>s, PhaseStates DEF DestroyVM
  <2>2. UNCHANGED <<row, tar, object>>
    BY <1>7 DEF DestroyVM, files
  <2>3. /\ step'.phase \in {"meter", "clean", "write"}
        /\ step'.pod = step.pod /\ step'.file = step.file
    BY <1>7, <1>t DEF DestroyVM, Goto, Unmetered, Step
  <2>4. /\ work'.version = work.version /\ work'.owed = work.owed /\ work'.cut = work.cut
        /\ work'.unsaved = (work.unsaved \/ Unsaved)
    BY <1>7, <1>t DEF DestroyVM
  <2>5. CASE row.state = "terminating"
    BY <2>2, <2>3, <2>4, <2>5 DEF WorkInv, NotOwed, Fresh, Due
  <2>6. CASE row.state = "stopping"
    <3>1. ASSUME Due' PROVE Tracked'
      <4>1. Tracked /\ vm = work.version /\ ~ Unsaved
        BY <2>1, <2>4, <2>6, <3>1 DEF WorkInv, Due, Tracked
      \* The VM was live, so a stop that is still owed the work has its snapshot.
      <4>2. step.file
        BY <1>t, <2>6, <4>1 DEF Unsaved
      <4>3. Saved'
        BY <2>1, <2>2, <2>3, <2>4, <2>6, <4>1, <4>2 DEF Tracked, Saved, Disk, Me
      <4>. QED BY <2>2, <2>3, <2>6, <4>3 DEF Tracked
    <3>. QED BY <2>2, <2>3, <2>4, <2>6, <3>1 DEF WorkInv, NotOwed, Fresh
  <2>. QED BY <2>1, <2>5, <2>6
<1>7m. CASE Meter
  <2>1. row.state \in {"stopping", "terminating"} /\ step.phase = "meter"
    BY <1>7m, <1>s, PhaseStates DEF Meter
  <2>2. row'.state = row.state /\ UNCHANGED <<tar, object, work>>
    BY <1>7m, <1>t DEF Meter, files, Row
  <2>3. /\ step'.phase \in {"clean", "write"}
        /\ step'.pod = step.pod /\ step'.file = step.file
    BY <1>7m, <1>t DEF Meter, Goto, Unmetered, Step
  <2>4. CASE row.state = "terminating"
    BY <1>o, <2>2, <2>3, <2>4 DEF WorkInv, NotOwed
  <2>5. CASE row.state = "stopping"
    <3>1. Tracked => Saved'
      BY <2>1, <2>2, <2>3, <2>5 DEF Tracked, Saved, Disk, Me
    <3>. QED BY <2>2, <2>3, <2>5, <3>1 DEF WorkInv, NotOwed, Fresh, Tracked, Due
  <2>. QED BY <2>1, <2>4, <2>5
<1>8. CASE ArchiveUpload
  <2>1. row.state = "archiving" /\ step.phase = "start" /\ UNCHANGED <<row, vm, tar, work>>
    BY <1>8 DEF ArchiveUpload, At
  <2>2. ~ step.file
    BY <2>1 DEF WorkInv, Fresh
  <2>3. /\ step'.phase \in {"remove", "write"} /\ step'.pod = step.pod /\ ~ step'.file
        /\ step'.phase = "remove" => row.snapshot /\ tar[Disk] # None /\ object' = tar[Disk]
        /\ step'.phase = "write" => UNCHANGED object
    BY <1>8, <1>t, <2>2 DEF ArchiveUpload, Goto, Step
  <2>4. ASSUME Due PROVE Tracked'
    <3>1. Leads
      BY <2>1, <2>4 DEF WorkInv, Tracked
    <3>2. CASE step'.phase = "write"
      <4>1. Leads'
        BY <2>1, <2>3, <3>1, <3>2, LeadsKept
      <4>. QED BY <2>1, <2>3, <3>2, <4>1 DEF Tracked
    <3>3. CASE step'.phase = "remove"
      <4>1. tar[Disk] = work.version
        BY <1>g, <2>1, <2>3, <3>1, <3>3 DEF Leads, Restores, Disk, Me
      <4>2. (tar[Disk])' = tar[Disk]
        BY <2>1, <2>3 DEF Disk, Me
      <4>3. Leads'
        BY <1>g, <1>t, <2>1, <2>3, <3>3, <4>1 DEF Leads, Restores, Disk, Me
      <4>. QED BY <2>1, <2>3, <3>3, <4>1, <4>2, <4>3 DEF Tracked
    <3>. QED BY <2>3, <3>2, <3>3
  <2>. QED BY <2>1, <2>3, <2>4 DEF WorkInv, NotOwed, Fresh, Due
<1>9. CASE ArchiveRemove
  <2>1. row.state = "archiving" /\ step.phase = "remove" /\ UNCHANGED <<row, vm, object, work>>
    BY <1>9, <1>s, PhaseStates DEF ArchiveRemove
  <2>2. step'.phase = "write" /\ step'.file
    BY <1>9, <1>t DEF ArchiveRemove, Step
  <2>. QED BY <2>1, <2>2 DEF WorkInv, NotOwed, Fresh, Tracked, Due
<1>10. CASE ReviveFetch
  <2>. DEFINE local    == row.snapshot /\ tar[Disk] # None
              download == row.archive /\ ~ local /\ object # None
  <2>1. row.state = "reviving" /\ step.phase = "start" /\ UNCHANGED <<row, vm, object, work>>
        /\ step'.phase = "create"
    BY <1>10, <1>t DEF ReviveFetch, At, Step
  <2>2. tar'[DiskOf(step.pod)] = IF download THEN object ELSE tar[DiskOf(step.pod)]
    BY <1>10, <1>t, <1>g, <2>1 DEF ReviveFetch, Disk, Me
  <2>3. \A p \in Pods : Restores(p)' = Restores(p)
    BY <1>g, <2>1, <2>2 DEF Restores, Disk, Me
  <2>4. Leads => Leads'
    BY <2>1, <2>3 DEF Leads
  <2>. QED BY <2>1, <2>4 DEF WorkInv, NotOwed, Fresh, Tracked, Due
<1>11. CASE ReviveCreate \/ ReviveRestore
  <2>1. row.state = "reviving" /\ UNCHANGED <<row, tar, object, work>>
    BY <1>11, <1>s, PhaseStates DEF ReviveCreate, ReviveRestore, At, files
  <2>2. step'.phase \in {"restore", "write"}
    BY <1>11, <1>t DEF ReviveCreate, ReviveRestore, Goto, Step
  <2>3. Leads => Leads'
    BY <2>1, LeadsKept
  <2>. QED BY <2>1, <2>2, <2>3 DEF WorkInv, NotOwed, Fresh, Tracked, Due
<1>12. CASE TerminateStart \/ TerminateClean
  <2>1. row.state = "terminating" /\ UNCHANGED <<row, work>> /\ step'.phase \in {"destroy", "write"}
    BY <1>12, <1>t, <1>s, PhaseStates DEF TerminateStart, TerminateClean, At, Goto, Step
  <2>. QED BY <1>o, <2>1 DEF WorkInv, NotOwed
<1>13. CASE Use
  <2>1. /\ row.state = "running" /\ UNCHANGED <<row, step>>
        /\ work'.version = work.version + 1 /\ vm' = work'.version
    BY <1>13 DEF Use
  <2>. QED BY <2>1 DEF WorkInv, NotOwed, Fresh, Tracked, Due
<1>14. ASSUME NEW desired \in DesiredState, SetDesiredState(desired) PROVE WorkInv'
  <2>1. /\ row'.snapshot = row.snapshot /\ row'.archive = row.archive
        /\ UNCHANGED <<step, vm, tar, object>> /\ work'.version = work.version
        /\ work'.cut = work.cut /\ work'.unsaved = work.unsaved
        /\ row'.state = Advance(row.state, desired)
        /\ work'.owed = (work.owed /\ row'.state # "terminating")
    BY <1>14, <1>t, DesiredMoves DEF SetDesiredState, files
  <2>2. Leads => Leads'
    BY <2>1, LeadsKept
  <2>3. CASE row'.state = row.state
    <3>1. Saved => Saved'
      BY <2>1 DEF Saved, Disk, Me
    <3>2. tar'[Disk'] = tar[Disk]
      BY <2>1 DEF Disk, Me
    <3>. QED BY <2>1, <2>2, <2>3, <3>1, <3>2 DEF WorkInv, NotOwed, Fresh, Tracked, Due
  <2>4. CASE row'.state # row.state
    <3>1. /\ step.phase = "none"
          /\ \/ row'.state = "stopping" /\ row.state = "running"
             \/ row'.state = "archiving" /\ row.state = "sleeping"
             \/ row'.state = "reviving" /\ row.state \in {"sleeping", "archived"}
             \/ row'.state = "terminating"
      BY <1>14, <2>4, DesiredMoves
    <3>. QED BY <2>1, <2>2, <3>1 DEF WorkInv, NotOwed, Fresh, Tracked, Due
  <2>. QED BY <2>3, <2>4
<1>15. CASE Recover
  <2>1. /\ ~ work.owed /\ work' = work /\ step'.phase = "none"
        /\ row'.state \in {"reviving", "stopping", "archiving", "terminating"}
    BY <1>15, <1>p, RecoverMoves DEF Recover, WorkInv, NotOwed
  <2>. QED BY <1>o, <2>1
<1>16. CASE CallFails \/ StopSnapshotFails \/ ReviveRestoreFails \/ Vanish \/ MissFound \/ MarkError
            \/ \E p \in Pods : CloseMissingCompute(p)
  BY <1>16 DEF CallFails, StopSnapshotFails, ReviveRestoreFails, Vanish, MissFound, MarkError,
     CloseMissingCompute, AliveInv, RunningHasVM
<1>17. ASSUME NEW p \in Pods, CrashPod(p) PROVE WorkInv'
  <2>1. UNCHANGED <<row, vm, tar, object>>
    BY <1>17 DEF CrashPod, files
  <2>2. CASE step.phase = "none"
    <3>1. step' = step /\ work' = work
      BY <1>17, <1>p, <2>2, WorkspaceAssumption DEF CrashPod, Me, NoStep, WorkspaceAssumption
    <3>. QED BY <1>u, <2>1, <3>1
  <2>3. CASE step.phase # "none"
    <3>1. step' = NoStep /\ step'.phase = "none" /\ work' = [work EXCEPT !.cut = @ \/ CutOff]
      BY <1>17, <1>g, <2>3, NoStepTyped DEF CrashPod, Me
    <3>2. /\ work'.version = work.version /\ work'.owed = work.owed
          /\ work'.cut = (work.cut \/ CutOff) /\ work'.unsaved = work.unsaved
      BY <1>t, <3>1
    <3>3. Due' => Tracked'
      BY <1>s, <1>t, <2>1, <3>1, <3>2, TrackedAtRest DEF WorkInv, Due, CutOff, Step
    <3>. QED BY <2>1, <3>1, <3>2, <3>3 DEF WorkInv, NotOwed, Fresh
  <2>. QED BY <2>2, <2>3
<1>18. ASSUME NEW p \in Pods, StartPod(p) PROVE WorkInv'
  <2>1. row'.state = row.state /\ row'.snapshot = row.snapshot /\ row'.archive = row.archive
    BY <1>18, <1>t DEF StartPod, Row
  <2>. QED BY <1>18, <1>u, <2>1 DEF StartPod, files
<1>19. CASE UNCHANGED vars
  BY <1>19, <1>u DEF vars, files
<1>. QED
  BY <1>1, <1>2, <1>3, <1>4, <1>5, <1>6, <1>7, <1>8, <1>9, <1>10, <1>11, <1>12, <1>13,
     <1>14, <1>15, <1>16, <1>17, <1>18, <1>19, <1>7m
  DEF Next, Executor, Reconciler, World

\* ExecuteStop, ExecuteArchive, ExecuteRevive: with one gateway, where no call of a
\* step fails for good and no VM dies by itself, any number of stops, archives and
\* revives, abandoned or crashed anywhere and run again, keeps the user's last
\* version in the VM while the sandbox runs and within a revive's reach while it is
\* at rest, until a termination is accepted, or until one of the two things happens
\* in which the code does lose it: a stop takes a live guest that does not answer
\* for a dead one and destroys it unsnapshotted (work.unsaved), or a step is cut off
\* between destroying what the work was saved from and recording where it is
\* (work.cut).
THEOREM WorkIsKept ==
  ASSUME OneGateway, {"vanish", "step"} \cap Trouble = {}
  PROVE  Spec => []WorkKeptThroughReruns
<1>1. Spec => []AliveInv
  BY AliveAlways
<1>2. Init => PinInv /\ ReviveInv /\ WorkInv
  <2>1. Init => PinInv
    BY NoStepTyped DEF Init, PinInv, Findable
  <2>2. Init => ReviveInv
    BY DEF Init, ReviveInv
  <2>3. Init => WorkInv
    BY NoStepTyped DEF Init, WorkInv, NotOwed, Fresh, Tracked
  <2>. QED BY <2>1, <2>2, <2>3
<1>3. StepInv /\ AliveInv /\ PinInv /\ ReviveInv /\ WorkInv /\ [Next]_vars
        => (PinInv /\ ReviveInv /\ WorkInv)'
  BY PinKept, ReviveKept, WorkInvKept DEF WorkInv
<1>4. WorkInv => WorkKeptThroughReruns
  <2>1. Tracked => (row.state = "running" => vm = work.version)
    BY DEF Tracked
  <2>2. Tracked => (row.state \in {"sleeping", "archived"} => \A p \in Pods : Restores(p) = work.version)
    BY DEF Tracked, Leads
  <2>. QED BY <2>1, <2>2 DEF WorkInv, Due, WorkKeptThroughReruns, WorkKept
<1>. QED BY <1>1, <1>2, <1>3, <1>4, StepAlways, PTL DEF Spec
=============================================================================

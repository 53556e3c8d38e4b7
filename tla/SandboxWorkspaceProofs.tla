----------------------- MODULE SandboxWorkspaceProofs -----------------------
(***************************************************************************)
(* What holds of SandboxWorkspace for every number of pods, every layout   *)
(* of their disks, every bound and every combination of trouble.           *)
(***************************************************************************)
EXTENDS SandboxWorkspace, SandboxStatesProofs, TLAPS

-----------------------------------------------------------------------------
(* The step in progress.                                                   *)

\* A step belongs to a pod, and its phases are those of the row's executor
\* method: nothing moves the row while it is being stepped.
Stepped == step = NoStep \/ (step.pod \in Pods /\ step.phase # "none")

RunsIn ==
  [none    |-> LifecycleState, start   |-> Convergence,
   create  |-> {"reviving"},   restore |-> {"reviving"},
   destroy |-> {"stopping", "terminating"}, meter |-> {"stopping", "terminating"},
   remove  |-> {"archiving"},  clean   |-> {"terminating"},
   write   |-> Claimable]

PhaseInv == Stepped /\ row.state \in RunsIn[step.phase]

Row  == [state: LifecycleState, desired: DesiredState, snapshot: BOOLEAN,
         archive: BOOLEAN, window: MaybeWindow]
Step == [pod: Pods \cup {None}, phase: Phase, window: MaybeWindow,
         file: BOOLEAN, desired: DesiredState]

\* The invariant everything below starts from.
StepInv == TypeOK /\ PhaseInv

\* A step is NoStep exactly in phase "none", and a stepped row is one that
\* reconcilers claim.
LEMMA InStep ==
  ASSUME StepInv, step.phase # "none"
  PROVE  step.pod \in Pods /\ row.state \in Claimable /\ DiskOf(step.pod) \in Disks
<1>1. step.pod \in Pods
  BY DEF StepInv, PhaseInv, Stepped, NoStep
<1>2. row.state \in Claimable
  BY DEF StepInv, PhaseInv, RunsIn, TypeOK, Phase, Claimable, Convergence
<1>. QED BY <1>1, <1>2, WorkspaceAssumption DEF WorkspaceAssumption

\* What the pieces of the executor methods return.
LEMMA PiecesTyped ==
  ASSUME StepInv
  PROVE  /\ CanOpen => NextWindow \in Window
         /\ \A w \in MaybeWindow : Closed(w) \in MaybeWindow
         /\ \A w \in MaybeWindow : Recorded(w) \in [Window -> Nat]
         /\ step.phase # "none" =>
              /\ WindowSeen \in MaybeWindow
              /\ CanOpen => Metered \in [Pods -> MaybeWindow \cup {None}]
              /\ Forgotten \in [Pods -> MaybeWindow \cup {None}]
<1>. USE WorkspaceAssumption DEF WorkspaceAssumption
<1>t. /\ row \in Row /\ cached \in [Pods -> MaybeWindow \cup {None}]
      /\ ledger \in [Window -> Nat] /\ opened \in MaybeWindow
  BY DEF StepInv, TypeOK, Row
<1>1. CanOpen => NextWindow \in Window
  BY <1>t DEF CanOpen, NextWindow, Window, MaybeWindow
<1>2. \A w \in MaybeWindow : Closed(w) \in MaybeWindow
  BY <1>t DEF Closed, Row, MaybeWindow
<1>3. \A w \in MaybeWindow : Recorded(w) \in [Window -> Nat]
  BY <1>t DEF Recorded
<1>4. ASSUME step.phase # "none"
      PROVE /\ WindowSeen \in MaybeWindow
            /\ CanOpen => Metered \in [Pods -> MaybeWindow \cup {None}]
            /\ Forgotten \in [Pods -> MaybeWindow \cup {None}]
  <2>1. step.pod \in Pods
    BY <1>4, InStep
  <2>2. WindowSeen \in MaybeWindow
    BY <1>t, <2>1 DEF WindowSeen, Me, Row
  <2>3. CanOpen => Metered \in [Pods -> MaybeWindow \cup {None}]
    BY <1>t, <1>1, <2>1 DEF Metered, Me, Window, MaybeWindow
  <2>4. Forgotten \in [Pods -> MaybeWindow \cup {None}]
    BY <1>t, <2>1 DEF Forgotten, Me, MaybeWindow
  <2>. QED BY <2>2, <2>3, <2>4
<1>. QED BY <1>1, <1>2, <1>3, <1>4

\* The states of the phases; a failed step ends in its state or in error.
LEMMA PhaseStates ==
  /\ Convergence \subseteq Claimable /\ Claimable \subseteq LifecycleState
  /\ RunsIn["none"] = LifecycleState /\ RunsIn["start"] = Convergence
  /\ RunsIn["create"] = {"reviving"} /\ RunsIn["restore"] = {"reviving"}
  /\ RunsIn["destroy"] = {"stopping", "terminating"}
  /\ RunsIn["meter"] = {"stopping", "terminating"}
  /\ RunsIn["remove"] = {"archiving"} /\ RunsIn["clean"] = {"terminating"}
  /\ RunsIn["write"] = Claimable
  /\ Convergence = {"creating", "stopping", "reviving", "archiving", "terminating"}
BY StatesTyped DEF RunsIn, Stored, Convergence

LEMMA NoStepTyped == NoStep \in Step /\ NoStep.phase = "none"
BY WorkspaceAssumption DEF WorkspaceAssumption, NoStep, Step, Phase, MaybeWindow, DesiredState

\* The updates of a step keep its type and its pod.
LEMMA PhaseUpdate ==
  ASSUME NEW s \in Step, NEW phase \in Phase
  PROVE  /\ [s EXCEPT !.phase = phase] \in Step
         /\ [s EXCEPT !.phase = phase].phase = phase
         /\ [s EXCEPT !.phase = phase].pod = s.pod
BY DEF Step

LEMMA WindowUpdate ==
  ASSUME NEW s \in Step, NEW w \in MaybeWindow
  PROVE  /\ [s EXCEPT !.window = w] \in Step
         /\ [s EXCEPT !.window = w].phase = s.phase
         /\ [s EXCEPT !.window = w].pod = s.pod
BY DEF Step

LEMMA FileUpdate ==
  ASSUME NEW s \in Step, NEW f \in BOOLEAN
  PROVE  /\ [s EXCEPT !.file = f] \in Step
         /\ [s EXCEPT !.file = f].phase = s.phase
         /\ [s EXCEPT !.file = f].pod = s.pod
BY DEF Step

\* So do the updates of a row.
LEMMA RowState ==
  ASSUME NEW r \in Row, NEW state \in LifecycleState
  PROVE  [r EXCEPT !.state = state] \in Row /\ [r EXCEPT !.state = state].state = state
BY DEF Row

LEMMA RowWindow ==
  ASSUME NEW r \in Row, NEW w \in MaybeWindow
  PROVE  [r EXCEPT !.window = w] \in Row /\ [r EXCEPT !.window = w].state = r.state
BY DEF Row

-----------------------------------------------------------------------------
(* The invariant is inductive.                                             *)

LEMMA StepInit == Init => StepInv
<1>. SUFFICES ASSUME Init PROVE StepInv
  OBVIOUS
<1>. USE WorkspaceAssumption DEF WorkspaceAssumption
<1>1. "pending" \in LifecycleState /\ "running" \in DesiredState
  BY StatesTyped DEF Stored, LifecycleState, Claimable, DesiredState
<1>2. row \in Row /\ step \in Step
  BY <1>1, NoStepTyped DEF Init, Row, MaybeWindow
<1>3. TypeOK
  BY <1>2 DEF Init, TypeOK, Row, Step, Copy, Version, MaybeWindow, Window
<1>4. PhaseInv
  BY <1>1, NoStepTyped, PhaseStates DEF Init, PhaseInv, Stepped
<1>. QED BY <1>3, <1>4 DEF StepInv

\* A step that ends without a write-back leaves its row in a state of its own
\* or in error.
LEMMA FailKeeps ==
  ASSUME StepInv, Fail
  PROVE  row' \in Row /\ step' = NoStep /\ row'.window = row.window
         /\ row'.state \in {row.state, "error"}
         /\ row'.snapshot = row.snapshot /\ row'.archive = row.archive
<1>1. row \in Row /\ "error" \in LifecycleState
  BY DEF StepInv, TypeOK, Row, LifecycleState
<1>2. PICK state \in {row.state, "error"} : row' = [row EXCEPT !.state = state]
  BY DEF Fail
<1>3. state \in LifecycleState
  BY <1>1 DEF Row
<1>. QED BY <1>1, <1>2, <1>3 DEF Fail, Row

\* It is enough to look at the types, the pod and the phase of the new state.
LEMMA StepInvFrom ==
  ASSUME row' \in Row, step' \in Step, vm' \in Copy, tar' \in [Disks -> Copy],
         object' \in Copy, up' \in SUBSET Pods,
         cached' \in [Pods -> MaybeWindow \cup {None}], opened' \in MaybeWindow,
         ledger' \in [Window -> Nat], miss' \in {"none", "found", "closed"},
         work' \in [version: Version, owed: BOOLEAN, cut: BOOLEAN, unsaved: BOOLEAN],
         step' = NoStep \/ (step'.pod \in Pods /\ step'.phase # "none"
                            /\ row'.state \in RunsIn[step'.phase])
  PROVE  StepInv'
<1>1. TypeOK'
  BY DEF TypeOK, Row, Step
<1>2. step' = NoStep => step'.phase = "none" /\ row'.state \in RunsIn["none"]
  BY NoStepTyped, PhaseStates DEF Row
<1>3. PhaseInv'
  BY <1>2 DEF PhaseInv, Stepped
<1>. QED BY <1>1, <1>3 DEF StepInv

LEMMA StepKept == StepInv /\ [Next]_vars => StepInv'
<1>. SUFFICES ASSUME StepInv, [Next]_vars PROVE StepInv'
  OBVIOUS
<1>t. /\ row \in Row /\ step \in Step /\ vm \in Copy /\ tar \in [Disks -> Copy]
      /\ object \in Copy /\ up \in SUBSET Pods
      /\ cached \in [Pods -> MaybeWindow \cup {None}] /\ opened \in MaybeWindow
      /\ ledger \in [Window -> Nat] /\ miss \in {"none", "found", "closed"}
      /\ work \in [version: Version, owed: BOOLEAN, cut: BOOLEAN, unsaved: BOOLEAN]
  BY DEF StepInv, TypeOK, Row, Step
<1>s. step = NoStep \/ (step.pod \in Pods /\ step.phase # "none"
                        /\ row.state \in RunsIn[step.phase])
  BY DEF StepInv, PhaseInv, Stepped
<1>n. NoStep \in Step /\ 0 \in Copy /\ None \in Copy /\ 0 \in MaybeWindow
  BY NoStepTyped, WorkspaceAssumption DEF WorkspaceAssumption, Copy, Version, MaybeWindow
<1>w. Window \subseteq MaybeWindow
  BY WorkspaceAssumption DEF WorkspaceAssumption, Window, MaybeWindow
<1>1. ASSUME NEW p \in Pods, Claim(p) PROVE StepInv'
  <2>1. step' \in Step
    BY <1>1, <1>t, <1>n DEF Claim, Step, Row, Phase
  <2>2. step'.pod \in Pods /\ step'.phase # "none" /\ row'.state \in RunsIn[step'.phase]
    BY <1>1, PhaseStates DEF Claim, Claimable
  <2>. QED BY <1>1, <1>t, <2>1, <2>2, StepInvFrom DEF Claim, files, money
<1>2. ASSUME ApplyTransition PROVE StepInv'
  <2>1. row.state \in Claimable
    BY <1>2, InStep DEF ApplyTransition
  <2>2. StepTarget[row.state] \in LifecycleState
    BY <2>1, StatesTyped
  <2>3. row' \in Row
    BY <1>2, <1>t, <1>n, <2>2 DEF ApplyTransition, Row, Step
  <2>. QED BY <1>2, <1>t, <1>n, <2>3, StepInvFrom DEF ApplyTransition, files, money
<1>3. ASSUME AbandonStep PROVE StepInv'
  BY <1>3, <1>t, <1>n, StepInvFrom DEF AbandonStep, files, money
<1>4. ASSUME CallFails PROVE StepInv'
  BY <1>4, <1>t, <1>n, FailKeeps, StepInvFrom DEF CallFails, files, money
<1>5. ASSUME CreateVM PROVE StepInv'
  <2>1. NextWindow \in Window /\ Metered \in [Pods -> MaybeWindow \cup {None}]
        /\ step.pod \in Pods /\ row.state \in Claimable
    BY <1>5, PiecesTyped, InStep DEF CreateVM, At
  <2>2. step' \in Step /\ step'.phase = "write" /\ step'.pod = step.pod
    <3>. DEFINE a == [step EXCEPT !.phase = "write"]
    <3>1. a \in Step /\ a.phase = "write" /\ a.pod = step.pod
      BY <1>t, PhaseUpdate DEF Phase
    <3>2. step' = [a EXCEPT !.window = NextWindow] /\ NextWindow \in MaybeWindow
      BY <1>5, <1>w, <2>1 DEF CreateVM
    <3>. HIDE DEF a
    <3>. QED BY <3>1, <3>2, WindowUpdate
  <2>. QED BY <1>5, <1>t, <1>n, <1>w, <2>1, <2>2, PhaseStates, StepInvFrom DEF CreateVM, files
<1>6. ASSUME StopSnapshot PROVE StepInv'
  <2>1. WindowSeen \in MaybeWindow /\ step.pod \in Pods /\ row.state = "stopping"
    BY <1>6, PiecesTyped, InStep DEF StopSnapshot, At
  <2>2. step' \in Step /\ step'.phase = "destroy" /\ step'.pod = step.pod
    <3>1. PICK ok \in BOOLEAN :
            step' = [step EXCEPT !.phase = "destroy", !.window = WindowSeen, !.file = ok]
      BY <1>6 DEF StopSnapshot
    <3>. DEFINE a == [step EXCEPT !.phase = "destroy"]
                b == [a EXCEPT !.window = WindowSeen]
    <3>2. a \in Step /\ a.phase = "destroy" /\ a.pod = step.pod
      BY <1>t, PhaseUpdate DEF Phase
    <3>3. step' = [b EXCEPT !.file = ok]
      BY <3>1
    <3>4. b \in Step /\ b.phase = "destroy" /\ b.pod = step.pod
      <4>. HIDE DEF a
      <4>. QED BY <2>1, <3>2, WindowUpdate
    <3>. HIDE DEF b
    <3>. QED BY <3>3, <3>4, FileUpdate
  <2>3. tar' \in [Disks -> Copy]
    BY <1>6, <1>t, <1>n DEF StopSnapshot
  <2>. QED BY <1>6, <1>t, <2>1, <2>2, <2>3, PhaseStates, StepInvFrom DEF StopSnapshot, money
<1>7. ASSUME StopSnapshotFails PROVE StepInv'
  BY <1>7, <1>t, <1>n, FailKeeps, StepInvFrom DEF StopSnapshotFails, money
<1>8. ASSUME DestroyVM \/ Meter PROVE StepInv'
  <2>a. step.phase \in {"destroy", "meter"}
    BY <1>8 DEF DestroyVM, Meter
  <2>1. step.pod \in Pods /\ row.state \in {"stopping", "terminating"} /\ step.phase # "none"
    BY <2>a, <1>s, NoStepTyped, PhaseStates
  <2>2. PICK phase \in {"meter", Unmetered(row.state)} : step' = [step EXCEPT !.phase = phase]
    BY <1>8 DEF DestroyVM, Meter, Goto
  <2>3. phase \in Phase \ {"none"} /\ row.state \in RunsIn[phase]
    BY <2>1, <2>2, PhaseStates DEF Unmetered, Phase
  <2>4. step' \in Step /\ step'.phase = phase /\ step'.pod = step.pod
    BY <1>t, <1>n, <2>2, <2>3, PhaseUpdate
  <2>5. row' \in Row /\ row'.state = row.state
        /\ ledger' \in [Window -> Nat] /\ cached' \in [Pods -> MaybeWindow \cup {None}]
    <3>1. CASE DestroyVM
      BY <3>1, <1>t DEF DestroyVM, money
    <3>2. CASE Meter
      <4>1. step.window \in MaybeWindow
        BY <1>t DEF Step
      <4>2. Closed(step.window) \in MaybeWindow /\ Recorded(step.window) \in [Window -> Nat]
            /\ Forgotten \in [Pods -> MaybeWindow \cup {None}]
        BY <2>1, <4>1, PiecesTyped
      <4>3. row.state \in LifecycleState
        BY <1>t DEF Row
      <4>. QED BY <3>2, <1>t, <4>2, RowWindow DEF Meter
    <3>. QED BY <1>8, <3>1, <3>2
  <2>. QED BY <1>8, <1>t, <1>n, <2>1, <2>3, <2>4, <2>5, StepInvFrom
         DEF DestroyVM, Meter, files, money
<1>9. ASSUME MeterRefused PROVE StepInv'
  BY <1>9, <1>t, <1>n, FailKeeps, StepInvFrom DEF MeterRefused, files, money
<1>10. ASSUME ArchiveUpload PROVE StepInv'
  <2>1. step.pod \in Pods /\ row.state = "archiving" /\ DiskOf(step.pod) \in Disks
    BY <1>10, InStep DEF ArchiveUpload, At
  <2>2. PICK phase \in {"remove", "write"} : step' = [step EXCEPT !.phase = phase]
    BY <1>10 DEF ArchiveUpload, Goto
  <2>3. phase \in Phase \ {"none"} /\ row.state \in RunsIn[phase]
    BY <2>1, <2>2, PhaseStates DEF Phase
  <2>4. step' \in Step /\ step'.phase = phase /\ step'.pod = step.pod
    BY <1>t, <1>n, <2>2, <2>3, PhaseUpdate
  <2>5. object' \in Copy
    BY <1>10, <1>t, <2>1 DEF ArchiveUpload, Disk, Me
  <2>. QED BY <1>10, <1>t, <2>1, <2>3, <2>4, <2>5, StepInvFrom DEF ArchiveUpload, money
<1>11. ASSUME ArchiveRemove PROVE StepInv'
  <2>1. step.pod \in Pods /\ row.state \in Claimable
    BY <1>11, InStep DEF ArchiveRemove
  <2>2. step' \in Step /\ step'.phase = "write" /\ step'.pod = step.pod
    <3>. DEFINE a == [step EXCEPT !.phase = "write"]
    <3>1. a \in Step /\ a.phase = "write" /\ a.pod = step.pod
      BY <1>t, PhaseUpdate DEF Phase
    <3>2. step' = [a EXCEPT !.file = TRUE]
      BY <1>11 DEF ArchiveRemove
    <3>. HIDE DEF a
    <3>. QED BY <3>1, <3>2, FileUpdate
  <2>3. tar' \in [Disks -> Copy]
    BY <1>11, <1>t, <1>n DEF ArchiveRemove
  <2>. QED BY <1>11, <1>t, <2>1, <2>2, <2>3, PhaseStates, StepInvFrom DEF ArchiveRemove, money
<1>12. ASSUME ReviveFetch PROVE StepInv'
  <2>1. step.pod \in Pods /\ row.state = "reviving"
    BY <1>12, InStep DEF ReviveFetch, At
  <2>2. PICK f \in BOOLEAN : step' = [step EXCEPT !.phase = "create", !.file = f]
    BY <1>12, <1>t DEF ReviveFetch, TarToRestore, Row
  <2>3. step' \in Step /\ step'.phase = "create" /\ step'.pod = step.pod
    <3>. DEFINE a == [step EXCEPT !.phase = "create"]
    <3>1. a \in Step /\ a.phase = "create" /\ a.pod = step.pod
      BY <1>t, PhaseUpdate DEF Phase
    <3>2. step' = [a EXCEPT !.file = f]
      BY <2>2
    <3>. HIDE DEF a
    <3>. QED BY <3>1, <3>2, FileUpdate
  <2>4. tar' \in [Disks -> Copy]
    BY <1>12, <1>t DEF ReviveFetch
  <2>. QED BY <1>12, <1>t, <2>1, <2>3, <2>4, PhaseStates, StepInvFrom DEF ReviveFetch, money
<1>13. ASSUME ReviveCreate PROVE StepInv'
  <2>1. NextWindow \in Window /\ step.pod \in Pods /\ row.state = "reviving"
    BY <1>13, PiecesTyped, InStep DEF ReviveCreate, At
  <2>2. step' \in Step /\ step'.phase = "restore" /\ step'.pod = step.pod
    <3>. DEFINE a == [step EXCEPT !.phase = "restore"]
    <3>1. a \in Step /\ a.phase = "restore" /\ a.pod = step.pod
      BY <1>t, PhaseUpdate DEF Phase
    <3>2. step' = [a EXCEPT !.window = NextWindow] /\ NextWindow \in MaybeWindow
      BY <1>13, <1>w, <2>1 DEF ReviveCreate
    <3>. HIDE DEF a
    <3>. QED BY <3>1, <3>2, WindowUpdate
  <2>. QED BY <1>13, <1>t, <1>n, <1>w, <2>1, <2>2, PhaseStates, StepInvFrom DEF ReviveCreate, files
<1>14. ASSUME ReviveRestore PROVE StepInv'
  <2>1. step.pod \in Pods /\ row.state \in Claimable /\ DiskOf(step.pod) \in Disks
    BY <1>14, InStep DEF ReviveRestore
  <2>2. step' \in Step /\ step'.phase = "write" /\ step'.pod = step.pod
    BY <1>14, <1>t, <1>n, PhaseUpdate DEF ReviveRestore, Goto, Phase
  <2>3. step.window \in MaybeWindow
    BY <1>t DEF Step
  <2>4. vm' \in Copy /\ cached' \in [Pods -> MaybeWindow \cup {None}]
    BY <1>14, <1>t, <2>1, <2>3 DEF ReviveRestore, Disk, Me
  <2>. QED BY <1>14, <1>t, <2>1, <2>2, <2>4, PhaseStates, StepInvFrom DEF ReviveRestore, files, money
<1>15. ASSUME ReviveRestoreFails PROVE StepInv'
  BY <1>15, <1>t, <1>n, FailKeeps, StepInvFrom DEF ReviveRestoreFails, files, money
<1>16. ASSUME TerminateStart PROVE StepInv'
  <2>1. WindowSeen \in MaybeWindow /\ step.pod \in Pods /\ row.state = "terminating"
    BY <1>16, PiecesTyped, InStep DEF TerminateStart, At
  <2>2. PICK w \in MaybeWindow : step' = [step EXCEPT !.phase = "destroy", !.window = w]
    BY <1>16, <1>n, <2>1 DEF TerminateStart
  <2>3. step' \in Step /\ step'.phase = "destroy" /\ step'.pod = step.pod
    <3>. DEFINE a == [step EXCEPT !.phase = "destroy"]
    <3>1. a \in Step /\ a.phase = "destroy" /\ a.pod = step.pod
      BY <1>t, PhaseUpdate DEF Phase
    <3>2. step' = [a EXCEPT !.window = w]
      BY <2>2
    <3>. HIDE DEF a
    <3>. QED BY <3>1, <3>2, WindowUpdate
  <2>. QED BY <1>16, <1>t, <2>1, <2>3, PhaseStates, StepInvFrom DEF TerminateStart, files, money
<1>17. ASSUME TerminateClean PROVE StepInv'
  <2>1. step.pod \in Pods /\ row.state \in Claimable
    BY <1>17, InStep DEF TerminateClean
  <2>2. step' \in Step /\ step'.phase = "write" /\ step'.pod = step.pod
    BY <1>17, <1>t, <1>n, PhaseUpdate DEF TerminateClean, Goto, Phase
  <2>3. tar' \in [Disks -> Copy] /\ cached' \in [Pods -> MaybeWindow \cup {None}]
    BY <1>17, <1>t, <1>n DEF TerminateClean
  <2>. QED BY <1>17, <1>t, <1>n, <2>1, <2>2, <2>3, PhaseStates, StepInvFrom DEF TerminateClean, money
<1>18. ASSUME Use PROVE StepInv'
  <2>1. work.version + 1 \in Version
    BY <1>18, <1>t, WorkspaceAssumption DEF Use, Version, WorkspaceAssumption
  <2>2. vm' \in Copy /\ work' \in [version: Version, owed: BOOLEAN, cut: BOOLEAN, unsaved: BOOLEAN]
    BY <1>18, <2>1 DEF Use, Copy
  <2>. QED BY <1>18, <1>t, <1>s, <2>2, StepInvFrom DEF Use, files, money
<1>19. ASSUME NEW desired \in DesiredState, SetDesiredState(desired) PROVE StepInv'
  <2>1. row' \in Row
    <3>1. Advance(row.state, desired) \in LifecycleState
      BY <1>19, StatesTyped DEF SetDesiredState
    <3>. QED BY <1>19, <1>t, <3>1 DEF SetDesiredState, Row
  <2>2. work' \in [version: Version, owed: BOOLEAN, cut: BOOLEAN, unsaved: BOOLEAN]
    BY <1>19, <1>t DEF SetDesiredState
  <2>3. step.phase # "none" => row'.state = row.state
    BY <1>19, <1>t, InStep, ConvergingStays DEF SetDesiredState, Row
  <2>. QED BY <1>19, <1>t, <1>s, <2>1, <2>2, <2>3, StepInvFrom DEF SetDesiredState, files, money
<1>20. ASSUME Recover PROVE StepInv'
  <2>1. step = NoStep
    BY <1>20, <1>s, InStep DEF Recover, Claimable, Convergence
  <2>2. RecoverTarget[row.desired] \in LifecycleState
    BY <1>t, StatesTyped DEF Row
  <2>. QED BY <1>20, <1>t, <2>1, <2>2, RowState, StepInvFrom DEF Recover, files, money
<1>21. ASSUME Vanish PROVE StepInv'
  BY <1>21, <1>t, <1>s, <1>n, StepInvFrom DEF Vanish, files, money
<1>22. ASSUME MissFound PROVE StepInv'
  BY <1>22, <1>t, <1>s, StepInvFrom DEF MissFound, files, money
<1>23. ASSUME NEW p \in Pods, CloseMissingCompute(p) PROVE StepInv'
  <2>1. row.window \in MaybeWindow /\ row.state \in LifecycleState
    BY <1>t DEF Row
  <2>2. row' \in Row /\ row'.state = row.state
    <3>1. row' = row \/ row' = [row EXCEPT !.window = 0]
      BY <1>23 DEF CloseMissingCompute
    <3>2. [row EXCEPT !.window = 0] \in Row /\ [row EXCEPT !.window = 0].state = row.state
      BY <1>t, <1>n, RowWindow
    <3>. QED BY <1>t, <3>1, <3>2
  <2>3. ledger' \in [Window -> Nat]
    BY <1>23, <1>t, <2>1, PiecesTyped DEF CloseMissingCompute
  <2>4. cached' \in [Pods -> MaybeWindow \cup {None}]
    BY <1>23, <1>t, <1>n DEF CloseMissingCompute
  <2>. QED BY <1>23, <1>t, <1>s, <2>2, <2>3, <2>4, StepInvFrom DEF CloseMissingCompute, files
<1>24. ASSUME MarkError PROVE StepInv'
  <2>1. row.state \in LifecycleState /\ "error" \in LifecycleState
    BY <1>t DEF Row, LifecycleState
  <2>2. row' \in Row /\ row'.state = IF row.state = "running" THEN "error" ELSE row.state
    BY <1>24, <1>t, <2>1, RowState DEF MarkError
  <2>3. row.state = "running" => step = NoStep
    BY <1>s, InStep DEF Claimable, Convergence
  <2>. QED BY <1>24, <1>t, <1>s, <2>2, <2>3, StepInvFrom DEF MarkError, files, money
<1>25. ASSUME NEW p \in Pods, CrashPod(p) PROVE StepInv'
  BY <1>25, <1>t, <1>s, <1>n, StepInvFrom DEF CrashPod, files, money
<1>26. ASSUME NEW p \in Pods, StartPod(p) PROVE StepInv'
  <2>1. row.state \in LifecycleState /\ row.window \in MaybeWindow
    BY <1>t DEF Row
  <2>2. CanOpen => NextWindow \in MaybeWindow
    BY <1>w, PiecesTyped
  <2>3. row' \in Row /\ row'.state = row.state
        /\ opened' \in MaybeWindow /\ cached' \in [Pods -> MaybeWindow \cup {None}]
    <3>1. row' = row \/ (CanOpen /\ row' = [row EXCEPT !.window = NextWindow])
      BY <1>26 DEF StartPod
    <3>w. CanOpen => /\ [row EXCEPT !.window = NextWindow] \in Row
                     /\ [row EXCEPT !.window = NextWindow].state = row.state
      BY <1>t, <2>2, RowWindow
    <3>2. row' \in Row /\ row'.state = row.state
      BY <1>t, <3>1, <3>w
    <3>. QED BY <1>26, <1>t, <2>1, <2>2, <3>2 DEF StartPod, Warmed
  <2>. QED BY <1>26, <1>t, <1>s, <2>3, StepInvFrom DEF StartPod, files
<1>27. ASSUME UNCHANGED vars PROVE StepInv'
  BY <1>27, <1>t, <1>s, StepInvFrom DEF vars, files, money
<1>. QED
  BY <1>1, <1>2, <1>3, <1>4, <1>5, <1>6, <1>7, <1>8, <1>9, <1>10, <1>11, <1>12, <1>13,
     <1>14, <1>15, <1>16, <1>17, <1>18, <1>19, <1>20, <1>21, <1>22, <1>23, <1>24, <1>25,
     <1>26, <1>27
  DEF Next, Executor, Reconciler, World

\* What the types and phases give for every reachable state.
LEMMA StepAlways == Spec => []StepInv
<1>. QED BY StepInit, StepKept, PTL DEF Spec

\* Types hold along every run: what is stored is a state, a window, a version of
\* the work, and the worker of a step is a pod.
THEOREM TypeCorrect == Spec => []TypeOK
<1>1. StepInv => TypeOK
  BY DEF StepInv
<1>. QED BY <1>1, StepAlways, PTL

-----------------------------------------------------------------------------
(* Billing: the ledger transaction.                                        *)

LEMMA Charge ==
  ASSUME ledger \in [Window -> Nat], BilledOnce, NEW w \in MaybeWindow
  PROVE  \A v \in Window : Recorded(w)[v] <= 1
BY DEF BilledOnce, Recorded

\* recordUsageSnapshot charges a window once: stops and terminations may be
\* retried by any pod, with any window in its memory, and the health sweeper may
\* close the same window beside them.
THEOREM ChargedOnce == Spec => []BilledOnce
<1>1. Init => BilledOnce
  BY DEF Init, BilledOnce
<1>2. StepInv /\ BilledOnce /\ [Next]_vars => BilledOnce'
  <2>. SUFFICES ASSUME StepInv, BilledOnce, [Next]_vars PROVE BilledOnce'
    OBVIOUS
  <2>1. ledger \in [Window -> Nat] /\ step.window \in MaybeWindow /\ row.window \in MaybeWindow
    BY DEF StepInv, TypeOK
  <2>2. CASE UNCHANGED ledger
    BY <2>2 DEF BilledOnce
  <2>3. CASE Meter
    BY <2>1, <2>3, Charge DEF Meter, BilledOnce
  <2>4. ASSUME NEW p \in Pods, CloseMissingCompute(p) PROVE BilledOnce'
    <3>1. UNCHANGED ledger \/ ledger' = Recorded(row.window)
      BY <2>4 DEF CloseMissingCompute
    <3>. QED BY <2>1, <2>2, <3>1, Charge DEF BilledOnce
  <2>5. Executor \/ UNCHANGED vars => Meter \/ UNCHANGED ledger
    BY DEF Executor, vars, money, CreateVM, StopSnapshot, StopSnapshotFails, DestroyVM,
       MeterRefused, ArchiveUpload, ArchiveRemove, ReviveFetch, ReviveCreate, ReviveRestore,
       ReviveRestoreFails, TerminateStart, TerminateClean
  <2>6. Reconciler => UNCHANGED ledger
    BY DEF Reconciler, money, Claim, ApplyTransition, AbandonStep, CallFails
  <2>7. World => (\E p \in Pods : CloseMissingCompute(p)) \/ UNCHANGED ledger
    BY DEF World, money, Use, Vanish, Recover, SetDesiredState, MissFound, MarkError, CrashPod,
       StartPod
  <2>. QED BY <2>2, <2>3, <2>4, <2>5, <2>6, <2>7 DEF Next
<1>. QED BY <1>1, <1>2, StepAlways, PTL DEF Spec

-----------------------------------------------------------------------------
(* No VM under a row at rest.                                              *)

\* Once the VM of a stop or termination is destroyed it stays so until the
\* write-back.
Destroyed ==
  step.phase \in {"meter", "clean", "write"} /\ row.state \in {"stopping", "terminating"}
    => vm = None

VMInv == NoOrphanVM /\ Destroyed

LEMMA VMKept ==
  ASSUME "blind" \notin Trouble
  PROVE  StepInv /\ VMInv /\ [Next]_vars => VMInv'
<1>. SUFFICES ASSUME StepInv, VMInv, [Next]_vars PROVE VMInv'
  OBVIOUS
<1>t. row \in Row /\ step \in Step
  BY DEF StepInv, TypeOK, Row, Step
<1>s. row.state \in RunsIn[step.phase]
  BY DEF StepInv, PhaseInv
<1>u. ASSUME row'.state = row.state, step' = step \/ step' = NoStep, vm' \in {vm, None} PROVE VMInv'
  BY <1>u, NoStepTyped DEF VMInv, NoOrphanVM, Destroyed
<1>f. ASSUME Fail, vm' \in {vm, None} PROVE VMInv'
  BY <1>f, FailKeeps, NoStepTyped DEF VMInv, NoOrphanVM, Destroyed
<1>1. ASSUME NEW p \in Pods, Claim(p) PROVE VMInv'
  BY <1>1 DEF Claim, VMInv, NoOrphanVM, Destroyed
<1>2. ASSUME ApplyTransition PROVE VMInv'
  <2>1. row.state \in Claimable /\ row'.state = StepTarget[row.state]
    BY <1>2, InStep DEF ApplyTransition
  <2>2. row'.state \in {"sleeping", "terminated"} => row.state \in {"stopping", "terminating"}
    BY <2>1 DEF StepTarget, Claimable, Convergence
  <2>. QED BY <1>2, <2>2, NoStepTyped DEF ApplyTransition, VMInv, NoOrphanVM, Destroyed
<1>3. CASE CallFails \/ StopSnapshotFails \/ MeterRefused \/ ReviveRestoreFails
  BY <1>3, <1>f DEF CallFails, StopSnapshotFails, MeterRefused, ReviveRestoreFails
<1>4. CASE CreateVM \/ ArchiveUpload \/ ReviveFetch \/ ReviveCreate
  BY <1>4 DEF CreateVM, ArchiveUpload, ReviveFetch, ReviveCreate, At, VMInv, NoOrphanVM, Destroyed
<1>5. CASE StopSnapshot \/ TerminateStart
  <2>1. step'.phase = "destroy" /\ row.state \in {"stopping", "terminating"} /\ UNCHANGED <<row, vm>>
    BY <1>5, <1>t DEF StopSnapshot, TerminateStart, At, Step
  <2>. QED BY <2>1 DEF VMInv, NoOrphanVM, Destroyed
<1>6. CASE DestroyVM
  BY <1>6 DEF DestroyVM, VMInv, NoOrphanVM, Destroyed
<1>7. CASE Meter
  <2>1. row.state \in {"stopping", "terminating"}
    BY <1>7, <1>s, PhaseStates DEF Meter
  <2>2. vm = None /\ vm' = vm
    BY <1>7, <2>1 DEF Meter, VMInv, Destroyed
  <2>. QED BY <2>2 DEF VMInv, NoOrphanVM, Destroyed
<1>8. CASE ArchiveRemove
  <2>1. row.state = "archiving"
    BY <1>8, <1>s, PhaseStates DEF ArchiveRemove
  <2>. QED BY <1>8, <2>1 DEF ArchiveRemove, VMInv, NoOrphanVM, Destroyed
<1>9. CASE ReviveRestore
  <2>1. row.state = "reviving"
    BY <1>9, <1>s, PhaseStates DEF ReviveRestore
  <2>. QED BY <1>9, <2>1 DEF ReviveRestore, VMInv, NoOrphanVM, Destroyed
<1>10. CASE TerminateClean
  <2>1. row.state = "terminating"
    BY <1>10, <1>s, PhaseStates DEF TerminateClean
  <2>2. vm = None /\ vm' = vm
    BY <1>10, <2>1 DEF TerminateClean, VMInv, Destroyed
  <2>. QED BY <2>2 DEF VMInv, NoOrphanVM, Destroyed
<1>11. CASE Use
  BY <1>11 DEF Use, VMInv, NoOrphanVM, Destroyed
<1>12. ASSUME NEW desired \in DesiredState, SetDesiredState(desired) PROVE VMInv'
  <2>1. row'.state = Advance(row.state, desired)
    BY <1>12, <1>t DEF SetDesiredState, Row
  <2>2. step.phase # "none" => row'.state = row.state
    BY <2>1, InStep, ConvergingStays
  <2>3. row'.state = row.state \/ row'.state \in Convergence
    BY <2>1, StatesTyped DEF Advance
  <2>. QED BY <1>12, <2>2, <2>3 DEF SetDesiredState, VMInv, NoOrphanVM, Destroyed, Convergence
<1>13. CASE Recover
  <2>1. step.phase = "none" /\ UNCHANGED <<step, vm>>
    BY <1>13, InStep DEF Recover, Claimable, Convergence
  <2>2. row'.state \in Convergence
    BY <1>13, <1>t, StatesTyped DEF Recover, Row
  <2>. QED BY <2>1, <2>2 DEF VMInv, NoOrphanVM, Destroyed, Convergence
<1>14. CASE Vanish \/ MissFound \/ AbandonStep \/ UNCHANGED vars
  BY <1>14, <1>u DEF Vanish, MissFound, AbandonStep, vars
<1>15. ASSUME NEW p \in Pods, CloseMissingCompute(p) \/ CrashPod(p) \/ StartPod(p) PROVE VMInv'
  <2>1. row'.state = row.state
    BY <1>15, <1>t DEF CloseMissingCompute, CrashPod, StartPod, Row
  <2>. QED BY <1>15, <1>u, <2>1 DEF CloseMissingCompute, CrashPod, StartPod
<1>16. CASE MarkError
  <2>1. row'.state \in {row.state, "error"}
    BY <1>16, <1>t DEF MarkError, Row
  <2>. QED BY <1>16, <2>1 DEF MarkError, VMInv, NoOrphanVM, Destroyed
<1>. QED
  BY <1>1, <1>2, <1>3, <1>4, <1>5, <1>6, <1>7, <1>8, <1>9, <1>10, <1>11, <1>12, <1>13,
     <1>14, <1>15, <1>16
  DEF Next, Executor, Reconciler, World

\* ExecuteStop, ExecuteTerminate: whatever else fails, crashes or is retried, as
\* long as the backend can say what became of a VM it was asked to destroy, a row
\* that says it was stopped or terminated has no VM.
THEOREM RestsWithoutVM ==
  ASSUME "blind" \notin Trouble
  PROVE  Spec => []NoOrphanVM
<1>1. Init => VMInv
  BY NoStepTyped DEF Init, VMInv, NoOrphanVM, Destroyed
<1>2. VMInv => NoOrphanVM
  BY DEF VMInv
<1>. QED BY <1>1, <1>2, VMKept, StepAlways, PTL DEF Spec

-----------------------------------------------------------------------------
(* What a revive restores.                                                 *)

\* What a revive in progress has settled on, and what it must come to: the tar
\* or the downloaded copy it goes for is the one the row leads to, also when a
\* tar of another session is on the disk.
Promised == IF step.file /\ tar[Disk] # None THEN tar[Disk] ELSE 0

ReviveInv ==
  row.state = "reviving" =>
    /\ step.phase \in {"create", "restore"} => Restores(Me) = Promised
    /\ step.phase = "restore" => vm = 0
    /\ step.phase = "write" => vm = Restores(Me)

LEMMA ReviveKept == StepInv /\ ReviveInv /\ [Next]_vars => ReviveInv'
<1>. SUFFICES ASSUME StepInv, ReviveInv, [Next]_vars PROVE ReviveInv'
  OBVIOUS
<1>t. row \in Row /\ step \in Step /\ tar \in [Disks -> Copy]
  BY DEF StepInv, TypeOK, Row, Step
<1>s. row.state \in RunsIn[step.phase]
  BY DEF StepInv, PhaseInv
<1>n. ASSUME row'.state # "reviving" \/ step'.phase \in {"none", "start"} PROVE ReviveInv'
  BY <1>n DEF ReviveInv
<1>u. ASSUME row'.state = row.state, row'.snapshot = row.snapshot, row'.archive = row.archive,
             UNCHANGED <<step, vm, tar, object>>
      PROVE  ReviveInv'
  BY <1>u DEF ReviveInv, Restores, Promised, Disk, Me
<1>1. ASSUME NEW p \in Pods, Claim(p) PROVE ReviveInv'
  BY <1>1, <1>n DEF Claim
<1>2. CASE ApplyTransition \/ AbandonStep
  BY <1>2, <1>n, NoStepTyped DEF ApplyTransition, AbandonStep
<1>3. CASE CallFails \/ StopSnapshotFails \/ MeterRefused \/ ReviveRestoreFails
  BY <1>3, <1>n, FailKeeps, NoStepTyped
  DEF CallFails, StopSnapshotFails, MeterRefused, ReviveRestoreFails
<1>4. CASE CreateVM \/ StopSnapshot \/ ArchiveUpload \/ TerminateStart
  BY <1>4, <1>n DEF CreateVM, StopSnapshot, ArchiveUpload, TerminateStart, At
<1>5. CASE DestroyVM \/ Meter \/ ArchiveRemove \/ TerminateClean
  <2>1. row.state # "reviving"
    BY <1>5, <1>s, PhaseStates DEF DestroyVM, Meter, ArchiveRemove, TerminateClean
  <2>2. row'.state = row.state
    BY <1>5, <1>t DEF DestroyVM, Meter, ArchiveRemove, TerminateClean, Row
  <2>. QED BY <1>n, <2>1, <2>2
<1>6. CASE ReviveFetch
  <2>. DEFINE local    == row.snapshot /\ tar[Disk] # None
              download == row.archive /\ ~ local /\ object # None
  <2>1. DiskOf(step.pod) \in Disks
    BY <1>6, InStep DEF ReviveFetch, At
  <2>2. /\ step'.phase = "create" /\ step'.pod = step.pod
        /\ step'.file <=> (row.snapshot \/ download)
    BY <1>6, <1>t DEF ReviveFetch, TarToRestore, Step
  <2>3. tar'[Disk] = IF download THEN object ELSE tar[Disk]
    BY <1>6, <1>t, <2>1 DEF ReviveFetch, Disk, Me
  <2>4. UNCHANGED <<row, object>> /\ Disk' = Disk /\ Me' = Me
    BY <1>6, <2>2 DEF ReviveFetch, Disk, Me
  <2>5. (Restores(Me) = Promised)'
    BY <2>2, <2>3, <2>4 DEF Restores, Promised, Disk, Me
  <2>. QED BY <2>2, <2>5 DEF ReviveInv
<1>7. CASE ReviveCreate
  <2>1. /\ step.phase = "create" /\ row.state = "reviving" /\ vm' = 0
        /\ UNCHANGED <<row, tar, object>>
    BY <1>7 DEF ReviveCreate, At, files
  <2>2. step'.phase = "restore" /\ step'.pod = step.pod /\ step'.file = step.file
    BY <1>7, <1>t DEF ReviveCreate, Step
  <2>3. (Restores(Me) = Promised)'
    BY <2>1, <2>2 DEF ReviveInv, Restores, Promised, Disk, Me
  <2>. QED BY <2>1, <2>2, <2>3 DEF ReviveInv
<1>8. CASE ReviveRestore
  <2>1. step.phase = "restore" /\ row.state = "reviving" /\ UNCHANGED <<row, tar, object>>
    BY <1>8, <1>s, PhaseStates DEF ReviveRestore, files
  <2>2. vm' = Promised /\ Restores(Me) = Promised
    BY <1>8, <2>1 DEF ReviveRestore, ReviveInv, Promised
  <2>3. step'.phase = "write" /\ step'.pod = step.pod
    BY <1>8, <1>t DEF ReviveRestore, Goto, Step
  <2>4. Restores(Me)' = Restores(Me)
    BY <2>1, <2>3 DEF Restores, Me
  <2>. QED BY <2>2, <2>3, <2>4 DEF ReviveInv
<1>9. CASE Use \/ Vanish
  BY <1>9, <1>n DEF Use, Vanish
<1>10. ASSUME NEW desired \in DesiredState, SetDesiredState(desired) PROVE ReviveInv'
  <2>1. /\ row'.state = Advance(row.state, desired) /\ row'.snapshot = row.snapshot
        /\ row'.archive = row.archive /\ UNCHANGED <<step, vm, tar, object>>
    BY <1>10, <1>t DEF SetDesiredState, Row, files
  <2>2. CASE step.phase = "none"
    BY <1>n, <2>1, <2>2
  <2>3. CASE step.phase # "none"
    BY <1>u, <2>1, <2>3, InStep, ConvergingStays
  <2>. QED BY <2>2, <2>3
<1>11. CASE Recover
  <2>1. step'.phase = "none"
    BY <1>11, InStep DEF Recover, Claimable, Convergence
  <2>. QED BY <1>n, <2>1
<1>12. CASE MissFound \/ UNCHANGED vars
  BY <1>12, <1>u DEF MissFound, vars, files
<1>13. ASSUME NEW p \in Pods, CloseMissingCompute(p) \/ StartPod(p) PROVE ReviveInv'
  <2>1. row'.state = row.state /\ row'.snapshot = row.snapshot /\ row'.archive = row.archive
    BY <1>13, <1>t DEF CloseMissingCompute, StartPod, Row
  <2>. QED BY <1>13, <1>u, <2>1 DEF CloseMissingCompute, StartPod, files
<1>14. ASSUME NEW p \in Pods, CrashPod(p) PROVE ReviveInv'
  BY <1>14, <1>n, <1>u, NoStepTyped DEF CrashPod, files
<1>15. CASE MarkError
  <2>1. /\ row'.state = IF row.state = "running" THEN "error" ELSE row.state
        /\ row'.snapshot = row.snapshot /\ row'.archive = row.archive
    BY <1>15, <1>t DEF MarkError, Row
  <2>2. row.state = "running" => row'.state # "reviving"
    BY <2>1
  <2>. QED BY <1>15, <1>n, <1>u, <2>1, <2>2 DEF MarkError, files
<1>. QED
  BY <1>1, <1>2, <1>3, <1>4, <1>5, <1>6, <1>7, <1>8, <1>9, <1>10, <1>11, <1>12, <1>13,
     <1>14, <1>15
  DEF Next, Executor, Reconciler, World

\* Only a write-back ends a revive well.
LEMMA RevivedByWriteBack ==
  ASSUME StepInv, [Next]_vars, row.state = "reviving", row'.state = "running"
  PROVE  ApplyTransition
<1>t. row \in Row
  BY DEF StepInv, TypeOK, Row
<1>1. ~ Fail
  BY FailKeeps
<1>2. Executor => FALSE
  <2>1. Meter => row'.state = row.state
    BY <1>t DEF Meter, Row
  <2>. QED BY <1>1, <2>1
    DEF Executor, CreateVM, StopSnapshot, StopSnapshotFails, DestroyVM, MeterRefused,
        ArchiveUpload, ArchiveRemove, ReviveFetch, ReviveCreate, ReviveRestore,
        ReviveRestoreFails, TerminateStart, TerminateClean
<1>3. Reconciler => ApplyTransition
  BY <1>1 DEF Reconciler, Claim, AbandonStep, CallFails
<1>4. World => FALSE
  <2>1. ASSUME NEW desired \in DesiredState, SetDesiredState(desired) PROVE FALSE
    <3>1. row'.state = Advance(row.state, desired) /\ row.state \in Claimable
      BY <1>t, <2>1 DEF SetDesiredState, Row, Claimable, Convergence
    <3>. QED BY <3>1, ConvergingStays
  <2>2. ASSUME NEW p \in Pods, CloseMissingCompute(p) \/ CrashPod(p) \/ StartPod(p) PROVE FALSE
    BY <1>t, <2>2 DEF CloseMissingCompute, CrashPod, StartPod, Row
  <2>3. CASE MarkError
    BY <1>t, <2>3 DEF MarkError, Row
  <2>. QED BY <2>1, <2>2, <2>3 DEF World, Use, Vanish, Recover, MissFound
<1>5. ~ UNCHANGED vars
  BY DEF vars
<1>. QED BY <1>2, <1>3, <1>4, <1>5 DEF Next

\* ExecuteRevive: the VM a revive hands over holds exactly what the row led to
\* when the step began, for every layout of disks and however often the revive
\* failed, was abandoned, or moved to another pod before.
THEOREM RevivesWhatItLeadsTo == Spec => ReviveRestores
<1>1. Init => ReviveInv
  BY DEF Init, ReviveInv
<1>2. StepInv /\ ReviveInv /\ [Next]_vars
        => [row.state = "reviving" /\ row'.state = "running" => vm = Restores(Me)]_vars
  BY RevivedByWriteBack DEF ReviveInv, ApplyTransition
<1>. QED BY <1>1, <1>2, ReviveKept, StepAlways, PTL DEF Spec, ReviveRestores
-----------------------------------------------------------------------------
(* The row is stepped alone.                                               *)

Self == "sandbox"

stateOf   == [s \in {Self} |-> row.state]
desiredOf == [s \in {Self} |-> row.desired]
stepperOf == [s \in {Self} |-> [pod |-> step.pod, desired |-> step.desired]]
Stepping == INSTANCE SandboxStepping
              WITH Sandboxes <- {Self},
                   state <- stateOf, desired <- desiredOf, stepper <- stepperOf

\* A claim, a failed step and a write-back are what SandboxLifecycle says a row
\* goes through while its steps end before their lease; what the executor does in
\* between is its own.
SteppedAlone == Stepping!Spec

\* The abstract module reads the tables this one does.
LEMMA SameTables ==
  /\ Stepping!Claimable = Claimable /\ Stepping!Convergence = Convergence
  /\ Stepping!Stored = Stored /\ Stepping!DesiredState = DesiredState
  /\ Stepping!StepTarget = StepTarget /\ Stepping!RecoverTarget = RecoverTarget
  /\ \A st, d : Stepping!Advance(st, d) = Advance(st, d)
BY DEF Stepping!Claimable, Claimable, Stepping!Convergence, Convergence, Stepping!Stored, Stored,
       Stepping!LifecycleState, LifecycleState, Stepping!Quiescent, Quiescent,
       Stepping!DesiredState, DesiredState, Stepping!StepTarget, StepTarget,
       Stepping!RecoverTarget, RecoverTarget, Stepping!Advance, Advance, Stepping!MovedBy, MovedBy

\* Every step writes the one row there is.
LEMMA TheRow ==
  /\ stateOf[Self] = row.state /\ desiredOf[Self] = row.desired
  /\ stepperOf[Self] = [pod |-> step.pod, desired |-> step.desired]
  /\ Stepping!Put(Self, row'.state, row'.desired,
                  [pod |-> step'.pod, desired |-> step'.desired])
BY DEF stateOf, desiredOf, stepperOf, Stepping!Put

\* What the executor does within a step does not show.
LEMMA RowKept ==
  ASSUME row'.state = row.state, row'.desired = row.desired,
         step'.pod = step.pod, step'.desired = step.desired
  PROVE  UNCHANGED <<stateOf, desiredOf, stepperOf>>
BY DEF stateOf, desiredOf, stepperOf

LEMMA HasStepper ==
  ASSUME StepInv
  PROVE  /\ step = NoStep => stepperOf[Self] = Stepping!Nobody
         /\ step.phase # "none" => stepperOf[Self] # Stepping!Nobody
<1>1. step = NoStep => stepperOf[Self] = Stepping!Nobody
  BY TheRow DEF NoStep, Stepping!Nobody
<1>2. ASSUME step.phase # "none" PROVE stepperOf[Self] # Stepping!Nobody
  <2>1. step.pod # None
    BY <1>2, InStep, WorkspaceAssumption DEF WorkspaceAssumption
  <2>. QED BY <2>1, TheRow DEF Stepping!Nobody
<1>. QED BY <1>1, <1>2

LEMMA SteppedStep == StepInv /\ [Next]_vars => [Stepping!Next]_<<stateOf, desiredOf, stepperOf>>
<1>. SUFFICES ASSUME StepInv, [Next]_vars
              PROVE  [Stepping!Next]_<<stateOf, desiredOf, stepperOf>>
  OBVIOUS
<1>. DEFINE Allowed == [Stepping!Next]_<<stateOf, desiredOf, stepperOf>>
<1>t. row \in Row /\ step \in Step
  BY DEF StepInv, TypeOK, Row, Step
<1>n. NoStep.pod = None /\ NoStep.desired = "running" /\ NoStep.phase = "none"
      /\ Stepping!Nobody = [pod |-> None, desired |-> "running"]
  BY DEF NoStep, Stepping!Nobody
<1>f. ASSUME Fail, step.phase \in {"start", "create", "restore", "destroy", "meter"} PROVE Allowed
  <2>1. row.state \in Convergence
    <3>1. row.state \in RunsIn[step.phase]
      BY DEF StepInv, PhaseInv
    <3>. QED BY <1>f, <3>1, PhaseStates
  <2>2. /\ row'.state \in {row.state, "error"} /\ row'.desired = row.desired
        /\ step'.pod = None /\ step'.desired = "running"
    BY <1>f, <1>t, <1>n DEF Fail, Row
  <2>3. stepperOf[Self] # Stepping!Nobody
    BY <1>f, HasStepper
  <2>4. Stepping!Fail(Self)
    BY <1>n, <2>1, <2>2, <2>3, TheRow, SameTables DEF Stepping!Fail
  <2>. QED BY <2>4 DEF Stepping!Next
<1>l. ASSUME row'.state = row.state, row'.desired = row.desired,
             step' = NoStep \/ (step'.pod = step.pod /\ step'.desired = step.desired)
      PROVE  Allowed
  <2>1. CASE step' = NoStep
    <3>1. stepperOf' = [s \in {Self} |-> IF s \in {Self} THEN Stepping!Nobody ELSE stepperOf[s]]
      BY <1>n, <2>1 DEF stepperOf
    <3>2. Stepping!Lose({Self})
      BY <1>l, <3>1 DEF Stepping!Lose, stateOf, desiredOf
    <3>. QED BY <3>2 DEF Stepping!Next
  <2>2. CASE step'.pod = step.pod /\ step'.desired = step.desired
    BY <1>l, <2>2, RowKept
  <2>. QED BY <1>l, <2>1, <2>2
<1>1. ASSUME NEW p \in Pods, Claim(p) PROVE Allowed
  <2>1. /\ row'.state = row.state /\ row'.desired = row.desired /\ row.state \in Claimable
        /\ step'.pod = p /\ step'.desired = row.desired
    BY <1>1 DEF Claim
  <2>2. stepperOf[Self] = Stepping!Nobody
    BY <1>1, HasStepper DEF Claim
  <2>3. Stepping!Claim(Self, p)
    BY <2>1, <2>2, TheRow, SameTables DEF Stepping!Claim
  <2>. QED BY <2>3 DEF Stepping!Next
<1>2. CASE ApplyTransition
  <2>1. /\ row'.state = StepTarget[row.state] /\ row'.desired = step.desired
        /\ step'.pod = None /\ step'.desired = "running"
    BY <1>2, <1>n DEF ApplyTransition
  <2>2. row.state \in Claimable /\ stepperOf[Self] # Stepping!Nobody
    BY <1>2, InStep, HasStepper DEF ApplyTransition
  <2>3. Stepping!WriteBack(Self)
    BY <1>n, <2>1, <2>2, TheRow, SameTables DEF Stepping!WriteBack
  <2>. QED BY <2>3 DEF Stepping!Next
<1>3. CASE AbandonStep
  BY <1>3, <1>l DEF AbandonStep
<1>4. CASE CallFails \/ MeterRefused \/ ReviveRestoreFails
  BY <1>4, <1>f DEF CallFails, MeterRefused, ReviveRestoreFails
<1>5. CASE StopSnapshotFails
  BY <1>5, <1>f DEF StopSnapshotFails, At
<1>6. CASE \/ CreateVM \/ StopSnapshot \/ ArchiveRemove \/ ReviveFetch \/ ReviveCreate
           \/ TerminateStart
  <2>1. UNCHANGED row /\ step'.pod = step.pod /\ step'.desired = step.desired
    BY <1>6, <1>t DEF CreateVM, StopSnapshot, ArchiveRemove, ReviveFetch, ReviveCreate,
       TerminateStart, Step
  <2>. QED BY <1>l, <2>1
<1>7. CASE DestroyVM \/ ArchiveUpload \/ ReviveRestore \/ TerminateClean
  <2>1. UNCHANGED row /\ step'.pod = step.pod /\ step'.desired = step.desired
    BY <1>7, <1>t DEF DestroyVM, ArchiveUpload, ReviveRestore, TerminateClean, Goto, Step
  <2>. QED BY <1>l, <2>1
<1>8. CASE Meter
  <2>1. /\ row'.state = row.state /\ row'.desired = row.desired
        /\ step'.pod = step.pod /\ step'.desired = step.desired
    BY <1>8, <1>t DEF Meter, Goto, Step, Row
  <2>. QED BY <1>l, <2>1
<1>9. CASE Use \/ Vanish \/ MissFound \/ UNCHANGED vars
  BY <1>9, <1>l DEF Use, Vanish, MissFound, vars
<1>10. CASE Recover
  <2>1. /\ row.state = "error" /\ row'.state = RecoverTarget[row.desired]
        /\ row'.desired = row.desired /\ step' = step
    BY <1>10, <1>t DEF Recover, Row
  <2>2. Stepping!Recover(Self)
    BY <2>1, TheRow, SameTables DEF Stepping!Recover
  <2>. QED BY <2>2 DEF Stepping!Next
<1>11. ASSUME NEW want \in DesiredState, SetDesiredState(want) PROVE Allowed
  <2>1. /\ row.state \in Stored /\ row'.state = Advance(row.state, want)
        /\ row'.desired = want /\ step' = step
    BY <1>11, <1>t DEF SetDesiredState, Row
  <2>2. Stepping!Request(Self, want)
    BY <2>1, TheRow, SameTables DEF Stepping!Request
  <2>. QED BY <2>2, SameTables DEF Stepping!Next
<1>12. ASSUME NEW p \in Pods, CloseMissingCompute(p) \/ StartPod(p) PROVE Allowed
  <2>1. row'.state = row.state /\ row'.desired = row.desired /\ step' = step
    BY <1>12, <1>t DEF CloseMissingCompute, StartPod, Row
  <2>. QED BY <1>l, <2>1
<1>13. CASE MarkError
  <2>1. CASE row.state = "running"
    <3>1. row'.state = "error" /\ row'.desired = row.desired /\ step' = step
      BY <1>13, <1>t, <2>1 DEF MarkError, Row
    <3>2. Stepping!MarkError(Self)
      BY <2>1, <3>1, TheRow DEF Stepping!MarkError
    <3>. QED BY <3>2 DEF Stepping!Next
  <2>2. CASE row.state # "running"
    <3>1. row'.state = row.state /\ row'.desired = row.desired /\ step' = step
      BY <1>13, <1>t, <2>2 DEF MarkError, Row
    <3>. QED BY <1>l, <3>1
  <2>. QED BY <2>1, <2>2
<1>14. ASSUME NEW p \in Pods, CrashPod(p) PROVE Allowed
  BY <1>14, <1>l DEF CrashPod
<1>. QED
  BY <1>1, <1>2, <1>3, <1>4, <1>5, <1>6, <1>7, <1>8, <1>9, <1>10, <1>11, <1>12, <1>13, <1>14
  DEF Next, Executor, Reconciler, World

\* Whatever goes wrong with the systems the executor drives, its model does to the
\* row only what SandboxLifecycle says can happen to one that has a single worker.
THEOREM StepsOneRow == Spec => SteppedAlone
<1>1. Init => Stepping!Init
  <2>1. Init => stepperOf = [s \in {Self} |-> Stepping!Nobody]
    BY DEF Init, stepperOf, NoStep, Stepping!Nobody
  <2>. QED BY <2>1 DEF Init, Stepping!Init, stateOf, desiredOf
<1>. QED BY <1>1, SteppedStep, StepAlways, PTL DEF Spec, SteppedAlone, Stepping!Spec
=============================================================================

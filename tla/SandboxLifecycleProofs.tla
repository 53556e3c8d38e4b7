----------------------- MODULE SandboxLifecycleProofs -----------------------
(***************************************************************************)
(* What holds of SandboxLifecycle for every number of sandboxes, pods and  *)
(* workers and every value of its bounds.                                  *)
(***************************************************************************)
EXTENDS SandboxLifecycle, SandboxStatesProofs, TLAPS

-----------------------------------------------------------------------------
(* Type correctness.                                                       *)

LEMMA WorkerPod == \A w \in Worker : Pod(w) \in Pods
BY DEF Worker, Pod

LEMMA AttemptTyped == \A n \in 0..MaxAttempts : NextAttempt(n) \in 0..MaxAttempts
BY LifecycleAssumption DEF NextAttempt, LifecycleAssumption

\* The rows that are written keep their type.
LEMMA TypeStep == TypeOK /\ [Next]_vars => TypeOK'
<1>. SUFFICES ASSUME TypeOK, [Next]_vars PROVE TypeOK'
  OBVIOUS
<1>. USE LifecycleAssumption DEF LifecycleAssumption
<1>r. NewRow \in Row /\ Purged \in Row /\ Idle \in Task
  BY DEF NewRow, Purged, Row, Idle, Task, LifecycleState, Claimable, DesiredState
<1>1. ASSUME NEW s \in Sandboxes, InsertPending(s) PROVE TypeOK'
  BY <1>1, <1>r DEF InsertPending, Effective, TypeOK, DesiredState, Over
<1>2. ASSUME NEW s \in Sandboxes, NEW d \in DesiredState, WriteDesired(s, d)
      PROVE row' \in [Sandboxes -> Row]
            /\ asked' \in [Sandboxes -> [want: DesiredState, over: Over]]
  <2>1. Advance(row[s].state, d) \in LifecycleState
    BY <1>2, StatesTyped DEF WriteDesired
  <2>2. row' \in [Sandboxes -> Row]
    BY <1>2, <2>1 DEF WriteDesired, TypeOK, Row
  <2>3. CASE Effective(s, d)
    BY <2>2, <2>3 DEF Effective, TypeOK, Over
  <2>4. CASE asked' = [asked EXCEPT ![s].over =
                         IF @ = "no" /\ d # asked[s].want THEN "written" ELSE @]
    BY <2>2, <2>4 DEF TypeOK, Over
  <2>. QED BY <1>2, <2>3, <2>4 DEF WriteDesired
<1>3. ASSUME NEW s \in Sandboxes, NEW d \in DesiredState, SetDesiredState(s, d) PROVE TypeOK'
  BY <1>2, <1>3 DEF SetDesiredState, TypeOK
<1>4. ASSUME NEW s \in Sandboxes, NEW n \in 0..MaxRecovery, Reenter(s, n)
      PROVE row' \in [Sandboxes -> Row]
            /\ asked' \in [Sandboxes -> [want: DesiredState, over: Over]]
  <2>1. row[s] \in Row /\ RecoverTarget[row[s].desired] \in LifecycleState
    BY StatesTyped DEF TypeOK, Row
  <2>2. row' \in [Sandboxes -> Row]
    BY <1>4, <2>1 DEF Reenter, TypeOK, Row
  <2>3. asked' \in [Sandboxes -> [want: DesiredState, over: Over]]
    BY <1>4, <2>1 DEF Reenter, TypeOK, Row, Over
  <2>. QED BY <2>2, <2>3
<1>5. ASSUME NEW s \in Sandboxes, Recover(s) PROVE TypeOK'
  BY <1>4, <1>5 DEF Recover, TypeOK, Row
<1>6. ASSUME NEW s \in Sandboxes, AutoRecover(s) PROVE TypeOK'
  BY <1>4, <1>6 DEF AutoRecover, RecoveryLeft, TypeOK, Row
<1>7. ASSUME NEW s \in Sandboxes, Purge(s) PROVE TypeOK'
  BY <1>7, <1>r DEF Purge, TypeOK
<1>8. ASSUME NEW s \in Sandboxes, NEW gone \in BOOLEAN, DirectDestroy(s, gone) PROVE TypeOK'
  <2>1. "terminated" \in LifecycleState /\ "terminating" \in LifecycleState
    BY DEF LifecycleState, Claimable, Convergence
  <2>2. row' \in [Sandboxes -> Row]
    BY <1>8, <2>1 DEF DirectDestroy, TypeOK, Row, DesiredState
  <2>3. task' \in [Worker -> Task]
    BY <1>8 DEF DirectDestroy, TypeOK, Task
  <2>. QED BY <1>8, <2>2, <2>3 DEF DirectDestroy, Effective, TypeOK, DesiredState, Over
<1>9. ASSUME NEW w \in Worker, NEW s \in Sandboxes, ClaimDue(w, s) PROVE TypeOK'
  <2>. DEFINE held == [row[s] EXCEPT !.holder = Pod(w)]
  <2>a. row[s] \in Row /\ Pod(w) \in Pods
    BY WorkerPod DEF TypeOK
  <2>b. held \in Row
    BY <2>a DEF Row
  <2>c. [held EXCEPT !.expired = FALSE] \in Row
    <3>. HIDE DEF held
    <3>. QED BY <2>b DEF Row
  <2>1. row' \in [Sandboxes -> Row]
    BY <1>9, <2>c DEF ClaimDue, TypeOK
  <2>2. [sandbox |-> s, state |-> row[s].state, desired |-> row[s].desired,
         attempts |-> row[s].attempts, stale |-> FALSE] \in Task
    BY <1>9 DEF ClaimDue, TypeOK, Row, Task
  <2>3. ASSUME NEW v \in Worker PROVE [task[v] EXCEPT !.stale = TRUE] \in Task
    <3>1. task[v] \in Task
      BY DEF TypeOK
    <3>. QED BY <3>1 DEF Task
  <2>. QED BY <1>9, <2>1, <2>2, <2>3 DEF ClaimDue, TypeOK
<1>10. ASSUME NEW w \in Worker, ApplyTransition(w) PROVE TypeOK'
  <2>. DEFINE t == task[w]
  <2>1. t \in Task /\ t.sandbox \in Sandboxes /\ row[t.sandbox] \in Row
    BY <1>10 DEF ApplyTransition, Busy, TypeOK, Task
  <2>2. StepTarget[t.state] \in LifecycleState
    BY <2>1, StatesTyped DEF Task
  <2>3. row' \in [Sandboxes -> Row]
    BY <1>10, <2>1, <2>2 DEF ApplyTransition, TypeOK, Row, Task
  <2>. QED BY <1>10, <1>r, <2>3 DEF ApplyTransition, Release, TypeOK
<1>11. ASSUME NEW w \in Worker, RecordFailure(w) PROVE TypeOK'
  <2>. DEFINE t == task[w]
              attempt == NextAttempt(t.attempts)
  <2>1. t \in Task /\ t.sandbox \in Sandboxes /\ row[t.sandbox] \in Row
    BY <1>11 DEF RecordFailure, Busy, TypeOK, Task
  <2>2. attempt \in 0..MaxAttempts /\ t.state \in LifecycleState /\ "error" \in LifecycleState
    BY <2>1, AttemptTyped, StatesTyped DEF Task, LifecycleState
  <2>3. row' \in [Sandboxes -> Row]
    BY <1>11, <2>1, <2>2 DEF RecordFailure, TypeOK, Row
  <2>. QED BY <1>11, <1>r, <2>3 DEF RecordFailure, Release, TypeOK
<1>12. ASSUME NEW w \in Worker, AbandonStep(w) PROVE TypeOK'
  BY <1>12, <1>r DEF AbandonStep, Release, TypeOK
<1>13. ASSUME NEW s \in Sandboxes, BackoffElapses(s) \/ LeaseExpires(s) PROVE TypeOK'
  <2>1. row[s] \in Row
    BY DEF TypeOK
  <2>2. [row[s] EXCEPT !.due = TRUE] \in Row
    BY <2>1 DEF Row
  <2>3. [row[s] EXCEPT !.expired = TRUE] \in Row
    BY <2>1 DEF Row
  <2>4. row' = [row EXCEPT ![s] = [row[s] EXCEPT !.due = TRUE]]
        \/ row' = [row EXCEPT ![s] = [row[s] EXCEPT !.expired = TRUE]]
    BY <1>13 DEF BackoffElapses, LeaseExpires
  <2>. QED BY <1>13, <2>2, <2>3, <2>4 DEF BackoffElapses, LeaseExpires, TypeOK
<1>14. ASSUME NEW p \in Pods, StartPod(p) \/ CrashPod(p) PROVE TypeOK'
  BY <1>14, <1>r DEF StartPod, CrashPod, TypeOK
<1>15. ASSUME NEW s \in Sandboxes, NEW k \in Checkers, Select(k, s) \/ DropSelection(k, s)
       PROVE TypeOK'
  BY <1>15 DEF Select, DropSelection, Deselect, TypeOK
<1>16. ASSUME NEW s \in Sandboxes, NEW k \in Checkers, Sweep(k, s) PROVE TypeOK'
  <2>1. SweepTarget[k] \in DesiredState
    BY <1>16 DEF Sweep, SweepTarget, DesiredState
  <2>. QED BY <1>2, <1>16, <2>1 DEF Sweep, Deselect, TypeOK
<1>17. ASSUME NEW s \in Sandboxes, SpecialCandidate(s) PROVE TypeOK'
  BY <1>2, <1>17 DEF SpecialCandidate, TypeOK, DesiredState
<1>18. ASSUME NEW s \in Sandboxes, MarkError(s) PROVE TypeOK'
  <2>1. row[s] \in Row /\ "error" \in LifecycleState
    BY DEF TypeOK, LifecycleState
  <2>2. row' \in [Sandboxes -> Row]
    BY <1>18, <2>1 DEF MarkError, TypeOK, Row
  <2>. QED BY <1>18, <2>2 DEF MarkError, Deselect, TypeOK, CheckerKind
<1>19. CASE UNCHANGED vars
  BY <1>19 DEF vars, TypeOK
<1>. QED
  BY <1>1, <1>3, <1>5, <1>6, <1>7, <1>8, <1>9, <1>10, <1>11, <1>12, <1>13, <1>14, <1>15,
     <1>16, <1>17, <1>18, <1>19 DEF Next, API, Reconciler, Checking

\* The rows, the tasks and the lists keep their types; in particular the recovery
\* counter never passes MaxRecovery.
THEOREM TypeCorrect == Spec => []TypeOK
<1>1. Init => TypeOK
  <2>1. NoRow \in Row /\ Idle \in Task
    BY LifecycleAssumption DEF LifecycleAssumption, NoRow, Row, Idle, Task, LifecycleState,
       Claimable, DesiredState
  <2>. QED BY <2>1 DEF Init, TypeOK, DesiredState, Over
<1>. QED BY <1>1, TypeStep, PTL DEF Spec

-----------------------------------------------------------------------------
(* The lease.                                                              *)

\* A pod has one worker, or its steps end before their lease does and nothing
\* else destroys what it works on.  Without this the guard of the write-back,
\* which compares pods and not workers, does not fence (run stale_write_back).
Fenced ==
  \/ \A a, b \in Slots : a = b
  \/ ~ StepsOutliveLease /\ ~ DirectDestroyAllowed

\* Only rows that a step can move are leased.
LeaseInv == \A s \in Sandboxes : Leased(s) => row[s].state \in Claimable

\* A task that is not stale owns the lease and sees the row it claimed; a stale
\* one does not own the lease.
TaskInv(w) ==
  LET t == task[w]
  IN /\ t.stale => Busy(w)
     /\ Busy(w) =>
          IF t.stale
          THEN row[t.sandbox].holder # Pod(w)
          ELSE /\ row[t.sandbox].holder = Pod(w)
               /\ row[t.sandbox].state = t.state
               /\ row[t.sandbox].attempts = t.attempts

OwnerInv ==
  \A v, w \in Worker :
    Busy(v) /\ task[v].sandbox = task[w].sandbox /\ ~ task[v].stale /\ ~ task[w].stale => v = w

\* While steps end in time no task outlives its lease.
TimelyInv ==
  ~ StepsOutliveLease /\ ~ DirectDestroyAllowed =>
    \A w \in Worker : Busy(w) => ~ task[w].stale /\ ~ row[task[w].sandbox].expired

LeaseIInv ==
  /\ TypeOK
  /\ LeaseInv
  /\ \A w \in Worker : TaskInv(w)
  /\ OwnerInv
  /\ TimelyInv

LEMMA SameWorker ==
  ASSUME NEW v \in Worker, NEW w \in Worker, \A a, b \in Slots : a = b, Pod(v) = Pod(w)
  PROVE  v = w
BY DEF Worker, Pod

\* A step that leaves the tasks alone and changes only rows nobody may be working
\* on, or keeps what a task relies on, keeps the invariant.
LEMMA LeaseIdle ==
  ASSUME LeaseIInv, TypeOK', UNCHANGED task,
         \A s \in Sandboxes :
           \/ row'[s] = row[s]
           \/ /\ row[s].state \in Claimable
              /\ row'[s].state = row[s].state /\ row'[s].attempts = row[s].attempts
              /\ row'[s].holder = row[s].holder /\ row'[s].expired = row[s].expired
           \/ /\ row[s].state \notin Claimable
              /\ row'[s].holder = None
  PROVE  LeaseIInv'
<1>1. \A w \in Worker : Busy(w) => task[w].sandbox \in Sandboxes
  BY DEF LeaseIInv, TypeOK, Task, Busy
<1>2. LeaseInv'
  BY DEF LeaseIInv, LeaseInv, Leased
<1>3. ASSUME NEW w \in Worker PROVE TaskInv(w)'
  <2>1. Pod(w) # None
    BY WorkerPod, LifecycleAssumption DEF LifecycleAssumption
  <2>2. Busy(w) /\ ~ task[w].stale => row[task[w].sandbox].state \in Claimable
    BY <1>1, <2>1 DEF LeaseIInv, LeaseInv, TaskInv, Leased
  <2>. QED BY <1>1, <2>1, <2>2 DEF LeaseIInv, TaskInv, Busy
<1>4. OwnerInv'
  BY DEF LeaseIInv, OwnerInv, Busy
<1>5. TimelyInv'
  <2>. SUFFICES ASSUME ~ StepsOutliveLease, ~ DirectDestroyAllowed, NEW w \in Worker, Busy(w)
                PROVE  ~ task[w].stale /\ ~ row'[task[w].sandbox].expired
    BY DEF TimelyInv, Busy
  <2>1. ~ task[w].stale /\ ~ row[task[w].sandbox].expired /\ task[w].sandbox \in Sandboxes
    BY <1>1 DEF LeaseIInv, TimelyInv
  <2>2. row[task[w].sandbox].state \in Claimable
    BY <2>1, WorkerPod, LifecycleAssumption DEF LifecycleAssumption, LeaseIInv, LeaseInv, TaskInv, Leased
  <2>. QED BY <2>1, <2>2
<1>. QED BY <1>2, <1>3, <1>4, <1>5 DEF LeaseIInv

\* Dropping a task keeps the invariant.
LEMMA LeaseDrop ==
  ASSUME LeaseIInv, TypeOK', UNCHANGED row,
         \A w \in Worker : task'[w] = task[w] \/ task'[w] = Idle
  PROVE  LeaseIInv'
BY DEF LeaseIInv, LeaseInv, TaskInv, OwnerInv, TimelyInv, Leased, Busy, Idle

\* So does the end of a step, which writes the row only as its owner.
LEMMA LeaseFinish ==
  ASSUME LeaseIInv, TypeOK', NEW w \in Worker, Busy(w), Release(w),
         \A s \in Sandboxes :
           \/ row'[s] = row[s]
           \/ s = task[w].sandbox /\ OwnsLease(w) /\ row'[s].holder = None
  PROVE  LeaseIInv'
<1>1. \A v \in Worker : Busy(v) => task[v].sandbox \in Sandboxes
  BY DEF LeaseIInv, TypeOK, Task, Busy
<1>2. /\ ~ Busy(w)' /\ ~ task'[w].stale
      /\ \A v \in Worker : v # w => task'[v] = task[v]
  BY DEF LeaseIInv, TypeOK, Release, Busy, Idle
<1>3. LeaseInv'
  BY DEF LeaseIInv, LeaseInv, Leased
<1>4. ASSUME NEW v \in Worker, v # w, Busy(v), task[v].sandbox = task[w].sandbox, OwnsLease(w)
      PROVE  task[v].stale
  <2>1. ~ task[w].stale
    BY <1>4 DEF LeaseIInv, TaskInv, OwnsLease
  <2>. QED BY <1>4, <2>1 DEF LeaseIInv, OwnerInv
<1>5. ASSUME NEW v \in Worker PROVE TaskInv(v)'
  <2>1. Pod(v) # None
    BY WorkerPod, LifecycleAssumption DEF LifecycleAssumption
  <2>2. CASE v = w
    BY <1>2, <2>2 DEF TaskInv
  <2>3. CASE v # w
    BY <1>1, <1>2, <1>4, <2>1, <2>3 DEF LeaseIInv, TaskInv, Busy
  <2>. QED BY <2>2, <2>3
<1>6. OwnerInv'
  BY <1>2 DEF LeaseIInv, OwnerInv, Busy
<1>7. TimelyInv'
  BY <1>1, <1>2, <1>4 DEF LeaseIInv, TimelyInv, Busy
<1>. QED BY <1>3, <1>5, <1>6, <1>7 DEF LeaseIInv

LEMMA LeaseClaim ==
  ASSUME Fenced, LeaseIInv, TypeOK', NEW w \in Worker, NEW s \in Sandboxes, ClaimDue(w, s)
  PROVE  LeaseIInv'
<1>1. \A v \in Worker : Busy(v) => task[v].sandbox \in Sandboxes
  BY DEF LeaseIInv, TypeOK, Task, Busy
<1>2. /\ row'[s].state = row[s].state /\ row'[s].attempts = row[s].attempts
      /\ row'[s].holder = Pod(w) /\ row'[s].expired = FALSE
      /\ \A r \in Sandboxes : r # s => row'[r] = row[r]
  BY DEF ClaimDue, LeaseIInv, TypeOK, Row
<1>3. /\ ~ Busy(w)
      /\ task'[w].sandbox = s /\ task'[w].state = row[s].state
      /\ task'[w].attempts = row[s].attempts /\ ~ task'[w].stale
      /\ \A v \in Worker : v # w /\ ~ Works(v, s) => task'[v] = task[v]
  BY DEF ClaimDue, LeaseIInv, TypeOK
<1>4. ASSUME NEW v \in Worker, v # w, Works(v, s)
      PROVE  task'[v].sandbox = s /\ task'[v].stale
  BY <1>4 DEF ClaimDue, LeaseIInv, TypeOK, Task, Works
<1>5. ASSUME NEW v \in Worker, v # w, Works(v, s)
      PROVE  Pod(v) # Pod(w) /\ (StepsOutliveLease \/ DirectDestroyAllowed)
  <2>1. Busy(v)
    BY <1>5, LifecycleAssumption DEF Works, Busy, LifecycleAssumption
  <2>2. StepsOutliveLease \/ DirectDestroyAllowed
    <3>. SUFFICES ASSUME ~ StepsOutliveLease, ~ DirectDestroyAllowed PROVE FALSE
      OBVIOUS
    <3>1. row[s].holder = Pod(v) /\ ~ row[s].expired
      BY <1>5, <2>1 DEF LeaseIInv, TaskInv, TimelyInv, Works
    <3>2. Pod(v) # None
      BY WorkerPod, LifecycleAssumption DEF LifecycleAssumption
    <3>. QED BY <3>1, <3>2 DEF ClaimDue, LeaseFree, Leased
  <2>. QED BY <1>5, <2>2, SameWorker DEF Fenced
<1>6. LeaseInv'
  BY <1>2 DEF LeaseIInv, LeaseInv, Leased, ClaimDue
<1>7. ASSUME NEW v \in Worker PROVE TaskInv(v)'
  <2>1. CASE v = w
    BY <1>2, <1>3, <2>1 DEF TaskInv
  <2>2. CASE v # w /\ Works(v, s)
    BY <1>2, <1>4, <1>5, <2>2, LifecycleAssumption DEF LifecycleAssumption, TaskInv, Busy
  <2>3. CASE v # w /\ ~ Works(v, s)
    BY <1>1, <1>2, <1>3, <2>3 DEF LeaseIInv, TaskInv, Busy, Works
  <2>. QED BY <2>1, <2>2, <2>3
<1>8. OwnerInv'
  <2>. SUFFICES ASSUME NEW u \in Worker, NEW v \in Worker, Busy(u)',
                       task'[u].sandbox = task'[v].sandbox, ~ task'[u].stale, ~ task'[v].stale
                PROVE  u = v
    BY DEF OwnerInv
  <2>1. CASE task'[u].sandbox = s
    BY <1>3, <1>4, <2>1 DEF Works
  <2>2. CASE task'[u].sandbox # s
    BY <1>3, <1>4, <2>2 DEF LeaseIInv, OwnerInv, Busy, Works
  <2>. QED BY <2>1, <2>2
<1>9. TimelyInv'
  BY <1>1, <1>2, <1>3, <1>5 DEF LeaseIInv, TimelyInv, Busy, Works
<1>. QED BY <1>6, <1>7, <1>8, <1>9 DEF LeaseIInv

\* A desired state does not move a row that is converging.
LEMMA AdvanceKeeps ==
  \A st \in Claimable, d \in DesiredState : Advance(st, d) = st
BY DEF Advance, MovedBy, Claimable, Convergence, Quiescent, DesiredState

LEMMA LeaseStep == Fenced /\ LeaseIInv /\ [Next]_vars => LeaseIInv'
<1>. SUFFICES ASSUME Fenced, LeaseIInv, [Next]_vars PROVE LeaseIInv'
  OBVIOUS
<1>t. TypeOK /\ TypeOK'
  BY TypeStep DEF LeaseIInv
<1>r. \A s \in Sandboxes : row[s].state \notin Claimable => row[s].holder = None
  BY DEF LeaseIInv, LeaseInv, Leased
<1>1. ASSUME NEW s \in Sandboxes, InsertPending(s) PROVE LeaseIInv'
  BY <1>1, <1>t, LeaseIdle DEF InsertPending, NewRow, TypeOK, Claimable, Convergence
<1>2. ASSUME NEW s \in Sandboxes, NEW d \in DesiredState, WriteDesired(s, d), UNCHANGED task
      PROVE  LeaseIInv'
  <2>1. /\ row'[s].state = Advance(row[s].state, d) /\ row'[s].attempts = row[s].attempts
        /\ row'[s].holder = row[s].holder /\ row'[s].expired = row[s].expired
        /\ \A r \in Sandboxes : r # s => row'[r] = row[r]
    BY <1>2, <1>t DEF WriteDesired, TypeOK
  <2>. QED BY <1>2, <1>t, <1>r, <2>1, AdvanceKeeps, LeaseIdle
<1>3. ASSUME NEW s \in Sandboxes, NEW d \in DesiredState, SetDesiredState(s, d) PROVE LeaseIInv'
  BY <1>2, <1>3 DEF SetDesiredState
<1>4. ASSUME NEW s \in Sandboxes, NEW n, Reenter(s, n), UNCHANGED task PROVE LeaseIInv'
  BY <1>4, <1>t, LeaseIdle DEF Reenter, TypeOK, Claimable, Convergence
<1>5. ASSUME NEW s \in Sandboxes, Recover(s) \/ AutoRecover(s) PROVE LeaseIInv'
  BY <1>4, <1>5 DEF Recover, AutoRecover
<1>6. ASSUME NEW s \in Sandboxes, Purge(s) PROVE LeaseIInv'
  BY <1>6, <1>t, LeaseIdle DEF Purge, Purged, TypeOK, Claimable, Convergence
<1>7. ASSUME NEW s \in Sandboxes, NEW gone \in BOOLEAN, DirectDestroy(s, gone) PROVE LeaseIInv'
  <2>1. /\ row'[s].holder = None
        /\ \A r \in Sandboxes : r # s => row'[r] = row[r]
    BY <1>7, <1>t DEF DirectDestroy, TypeOK
  <2>2. \A w \in Worker : /\ task'[w].sandbox = task[w].sandbox
                          /\ Works(w, s) => task'[w].stale
                          /\ ~ Works(w, s) => task'[w] = task[w]
    BY <1>7, <1>t DEF DirectDestroy, TypeOK, Task, Works
  <2>3. \A w \in Worker : Busy(w) => task[w].sandbox \in Sandboxes /\ Pod(w) # None
    BY <1>t, WorkerPod, LifecycleAssumption DEF LifecycleAssumption, TypeOK, Task, Busy
  <2>4. LeaseInv'
    BY <2>1 DEF LeaseIInv, LeaseInv, Leased
  <2>5. \A w \in Worker : TaskInv(w)'
    BY <2>1, <2>2, <2>3, LifecycleAssumption DEF LifecycleAssumption, LeaseIInv, TaskInv, Busy, Works
  <2>6. OwnerInv'
    BY <2>2 DEF LeaseIInv, OwnerInv, Busy, Works
  <2>7. TimelyInv'
    BY <1>7 DEF DirectDestroy, TimelyInv
  <2>. QED BY <1>t, <2>4, <2>5, <2>6, <2>7 DEF LeaseIInv
<1>8. ASSUME NEW w \in Worker, NEW s \in Sandboxes, ClaimDue(w, s) PROVE LeaseIInv'
  BY <1>8, <1>t, LeaseClaim
<1>9. ASSUME NEW w \in Worker, ApplyTransition(w) PROVE LeaseIInv'
  <2>1. \A s \in Sandboxes :
           \/ row'[s] = row[s]
           \/ s = task[w].sandbox /\ OwnsLease(w) /\ row'[s].holder = None
    BY <1>9, <1>t DEF ApplyTransition, TypeOK
  <2>. QED BY <1>9, <1>t, <2>1, LeaseFinish DEF ApplyTransition
<1>10. ASSUME NEW w \in Worker, RecordFailure(w) PROVE LeaseIInv'
  <2>1. \A s \in Sandboxes :
           \/ row'[s] = row[s]
           \/ s = task[w].sandbox /\ OwnsLease(w) /\ row'[s].holder = None
    BY <1>10, <1>t DEF RecordFailure, TypeOK
  <2>. QED BY <1>10, <1>t, <2>1, LeaseFinish DEF RecordFailure
<1>11. ASSUME NEW w \in Worker, AbandonStep(w) PROVE LeaseIInv'
  BY <1>11, <1>t, LeaseDrop DEF AbandonStep, Release, TypeOK
<1>12. ASSUME NEW s \in Sandboxes, BackoffElapses(s) PROVE LeaseIInv'
  <2>1. /\ row'[s].state = row[s].state /\ row'[s].attempts = row[s].attempts
        /\ row'[s].holder = row[s].holder /\ row'[s].expired = row[s].expired
        /\ \A r \in Sandboxes : r # s => row'[r] = row[r]
    BY <1>12, <1>t DEF BackoffElapses, TypeOK, Row
  <2>. QED BY <1>12, <1>t, <2>1, LeaseIdle DEF BackoffElapses
<1>13. ASSUME NEW s \in Sandboxes, LeaseExpires(s) PROVE LeaseIInv'
  <2>1. /\ row'[s].state = row[s].state /\ row'[s].attempts = row[s].attempts
        /\ row'[s].holder = row[s].holder
        /\ \A r \in Sandboxes : r # s => row'[r] = row[r]
    BY <1>13, <1>t DEF LeaseExpires, TypeOK, Row
  <2>2. \A w \in Worker : Busy(w) => task[w].sandbox \in Sandboxes
    BY <1>t DEF TypeOK, Task, Busy
  <2>3. UNCHANGED task
    BY <1>13 DEF LeaseExpires
  <2>4. LeaseInv'
    BY <2>1 DEF LeaseIInv, LeaseInv, Leased
  <2>5. (\A w \in Worker : TaskInv(w)') /\ OwnerInv'
    BY <2>1, <2>2, <2>3 DEF LeaseIInv, TaskInv, OwnerInv, Busy
  <2>6. TimelyInv'
    BY <1>13, <2>1, <2>2, <2>3 DEF LeaseExpires, LeaseIInv, TimelyInv, TaskInv, Busy, Works
  <2>. QED BY <1>t, <2>4, <2>5, <2>6 DEF LeaseIInv
<1>14. ASSUME NEW p \in Pods, StartPod(p) PROVE LeaseIInv'
  BY <1>14, <1>t, LeaseIdle DEF StartPod
<1>15. ASSUME NEW p \in Pods, CrashPod(p) PROVE LeaseIInv'
  BY <1>15, <1>t, LeaseDrop DEF CrashPod, TypeOK
<1>16. ASSUME NEW s \in Sandboxes, NEW k \in Checkers, Select(k, s) \/ DropSelection(k, s)
       PROVE LeaseIInv'
  BY <1>16, <1>t, LeaseIdle DEF Select, DropSelection
<1>17. ASSUME NEW s \in Sandboxes, NEW k \in Checkers, Sweep(k, s) PROVE LeaseIInv'
  <2>1. CASE UNCHANGED row
    BY <1>17, <1>t, <2>1, LeaseIdle DEF Sweep
  <2>2. CASE WriteDesired(s, SweepTarget[k])
    BY <1>2, <1>17, <2>2 DEF Sweep, SweepTarget, DesiredState
  <2>. QED BY <1>17, <2>1, <2>2 DEF Sweep
<1>18. ASSUME NEW s \in Sandboxes, SpecialCandidate(s) PROVE LeaseIInv'
  BY <1>2, <1>18 DEF SpecialCandidate, DesiredState
<1>19. ASSUME NEW s \in Sandboxes, MarkError(s) PROVE LeaseIInv'
  BY <1>19, <1>t, LeaseIdle DEF MarkError, TypeOK, Claimable, Convergence
<1>20. CASE UNCHANGED vars
  BY <1>20, <1>t, LeaseIdle DEF vars
<1>. QED
  BY <1>1, <1>3, <1>5, <1>6, <1>7, <1>8, <1>9, <1>10, <1>11, <1>12, <1>13, <1>14, <1>15,
     <1>16, <1>17, <1>18, <1>19, <1>20 DEF Next, API, Reconciler, Checking

LEMMA LeaseInit == Init => LeaseIInv
<1>. SUFFICES ASSUME Init PROVE LeaseIInv
  OBVIOUS
<1>1. TypeOK
  BY LifecycleAssumption DEF LifecycleAssumption, Init, TypeOK, NoRow, Row, Idle, Task, Over, LifecycleState,
     Claimable, DesiredState
<1>2. \A w \in Worker : ~ Busy(w) /\ ~ task[w].stale
  BY DEF Init, Busy, Idle
<1>. QED BY <1>1, <1>2 DEF Init, NoRow, LeaseIInv, LeaseInv, TaskInv, OwnerInv, TimelyInv, Leased

LEMMA LeaseInvariant == ASSUME Fenced PROVE Spec => []LeaseIInv
<1>. QED BY LeaseInit, LeaseStep, PTL DEF Spec

-----------------------------------------------------------------------------
(* What the lease is for.                                                  *)

\* With one worker per pod, or steps that end in time and no direct destroy, the
\* result of a worker that lost its row is always discarded.
THEOREM LeaseFencing == ASSUME Fenced PROVE Spec => StaleResultDiscarded
<1>1. LeaseIInv /\ [Next]_vars
      => [\A w \in Worker : task[w].stale /\ task'[w] # task[w] => row' = row]_vars
  <2>. SUFFICES ASSUME LeaseIInv, [Next]_vars, NEW w \in Worker, task[w].stale, task'[w] # task[w]
                PROVE  row' = row
    OBVIOUS
  <2>1. Busy(w) /\ ~ OwnsLease(w)
    BY DEF LeaseIInv, TaskInv, OwnsLease
  <2>2. [task[w] EXCEPT !.stale = TRUE] = task[w]
    <3>1. task[w] \in Task /\ task[w].stale = TRUE
      BY DEF LeaseIInv, TypeOK, Task
    <3>. QED BY <3>1 DEF Task
  <2>3. ASSUME NEW v \in Worker, NEW s \in Sandboxes, ClaimDue(v, s) PROVE FALSE
    BY <2>1, <2>2, <2>3 DEF ClaimDue, LeaseIInv, TypeOK
  <2>4. ASSUME NEW s \in Sandboxes, NEW gone \in BOOLEAN, DirectDestroy(s, gone) PROVE FALSE
    BY <2>2, <2>4 DEF DirectDestroy, LeaseIInv, TypeOK
  <2>5. ASSUME NEW v \in Worker, ApplyTransition(v) \/ RecordFailure(v) PROVE row' = row
    <3>1. v = w
      BY <2>5 DEF ApplyTransition, RecordFailure, Release, LeaseIInv, TypeOK
    <3>. QED BY <2>1, <2>5, <3>1 DEF ApplyTransition, RecordFailure
  <2>. QED
    BY <2>3, <2>4, <2>5 DEF Next, API, Reconciler, Checking, vars, InsertPending, SetDesiredState,
       Recover, Purge, AbandonStep, BackoffElapses, LeaseExpires, StartPod, CrashPod, Select,
       Sweep, DropSelection, SpecialCandidate, MarkError, AutoRecover
<1>. QED BY <1>1, LeaseInvariant, PTL DEF Spec, StaleResultDiscarded

\* While steps end before their lease and nothing destroys a sandbox directly, no
\* sandbox is stepped by two workers at once.
THEOREM Exclusive ==
  ASSUME ~ StepsOutliveLease, ~ DirectDestroyAllowed PROVE Spec => []OneStepperPerRow
<1>1. LeaseIInv => OneStepperPerRow
  BY DEF LeaseIInv, OwnerInv, TimelyInv, OneStepperPerRow
<1>2. Fenced
  BY DEF Fenced
<1>. QED BY <1>1, <1>2, LeaseInvariant, PTL

\* Time passing moves no row.
LEMMA TimePasses ==
  ASSUME TypeOK, NEW s \in Sandboxes, BackoffElapses(s) \/ LeaseExpires(s)
  PROVE  \A r \in Sandboxes : /\ row'[r].state = row[r].state
                              /\ row'[r].desired = row[r].desired
                              /\ row'[r].attempts = row[r].attempts
<1>1. CASE BackoffElapses(s)
  BY <1>1 DEF BackoffElapses, TypeOK, Row
<1>2. CASE LeaseExpires(s)
  BY <1>2 DEF LeaseExpires, TypeOK, Row
<1>. QED BY <1>1, <1>2

-----------------------------------------------------------------------------
(* The retry budget.                                                       *)

\* Rows at rest keep a budget too; only an error, and what terminates it, spends it.
Spent == {"error", "terminating", "terminated"}

BudgetInv == \A s \in Sandboxes : row[s].state \notin Spent => row[s].attempts < MaxAttempts

LEMMA BudgetStep == TypeOK /\ BudgetInv /\ [Next]_vars => BudgetInv'
<1>. SUFFICES ASSUME TypeOK, BudgetInv, [Next]_vars PROVE BudgetInv'
  OBVIOUS
<1>. USE LifecycleAssumption DEF LifecycleAssumption
<1>1. ASSUME NEW s \in Sandboxes, InsertPending(s) \/ Purge(s) PROVE BudgetInv'
  BY <1>1 DEF InsertPending, Purge, NewRow, Purged, TypeOK, BudgetInv
<1>2. ASSUME NEW s \in Sandboxes, NEW d \in DesiredState, WriteDesired(s, d) PROVE BudgetInv'
  <2>1. Advance(row[s].state, d) \notin Spent => row[s].state \notin Spent
    BY DEF Advance, MovedBy, RecoverTarget, Spent, DesiredState, Quiescent
  <2>. QED BY <1>2, <2>1 DEF WriteDesired, TypeOK, BudgetInv
<1>3. ASSUME NEW s \in Sandboxes, NEW n, Reenter(s, n) PROVE BudgetInv'
  BY <1>3 DEF Reenter, TypeOK, BudgetInv
<1>4. ASSUME NEW s \in Sandboxes, NEW gone \in BOOLEAN, DirectDestroy(s, gone) PROVE BudgetInv'
  BY <1>4 DEF DirectDestroy, TypeOK, BudgetInv, Spent
<1>5. ASSUME NEW w \in Worker, NEW s \in Sandboxes, ClaimDue(w, s) PROVE BudgetInv'
  BY <1>5 DEF ClaimDue, TypeOK, Row, BudgetInv
<1>6. ASSUME NEW w \in Worker, ApplyTransition(w) PROVE BudgetInv'
  BY <1>6 DEF ApplyTransition, TypeOK, BudgetInv
<1>7. ASSUME NEW w \in Worker, RecordFailure(w) PROVE BudgetInv'
  <2>1. NextAttempt(task[w].attempts) \in 0..MaxAttempts
    BY AttemptTyped, <1>7 DEF RecordFailure, TypeOK, Task
  <2>2. ~ GivesUp(NextAttempt(task[w].attempts)) => NextAttempt(task[w].attempts) < MaxAttempts
    BY <2>1 DEF GivesUp
  <2>3. \A s \in Sandboxes :
          \/ row'[s] = row[s]
          \/ row'[s].state = "error"
          \/ ~ GivesUp(NextAttempt(task[w].attempts))
             /\ row'[s].attempts = NextAttempt(task[w].attempts)
    BY <1>7 DEF RecordFailure, TypeOK
  <2>. QED BY <2>2, <2>3 DEF BudgetInv, Spent
<1>8. ASSUME NEW s \in Sandboxes, BackoffElapses(s) \/ LeaseExpires(s) PROVE BudgetInv'
  BY <1>8, TimePasses DEF BudgetInv
<1>9. ASSUME NEW s \in Sandboxes, MarkError(s) PROVE BudgetInv'
  BY <1>9 DEF MarkError, TypeOK, BudgetInv, Spent
<1>10. CASE UNCHANGED row
  BY <1>10 DEF BudgetInv
<1>11. ASSUME NEW s \in Sandboxes, NEW k \in Checkers, Sweep(k, s) PROVE BudgetInv'
  BY <1>2, <1>10, <1>11 DEF Sweep, SweepTarget, DesiredState
<1>. QED
  BY <1>1, <1>2, <1>3, <1>4, <1>5, <1>6, <1>7, <1>8, <1>9, <1>10, <1>11
     DEF Next, API, Reconciler, Checking, vars, SetDesiredState, Recover, AbandonStep, StartPod,
         CrashPod, Select, DropSelection, SpecialCandidate, AutoRecover, DesiredState

\* No transition but termination starts with a spent retry budget.
THEOREM BudgetKept == Spec => []RetryBudget
<1>1. Init => BudgetInv
  BY LifecycleAssumption DEF LifecycleAssumption, Init, NoRow, BudgetInv
<1>2. BudgetInv => RetryBudget
  BY DEF BudgetInv, RetryBudget, Spent, Claimable, Convergence
<1>. QED BY <1>1, <1>2, BudgetStep, TypeCorrect, PTL DEF Spec

-----------------------------------------------------------------------------
(* The intent of an effective request.                                     *)

\* The states between a request that took effect and its goal, the detour of an
\* error included.
Way == [running    |-> {"pending", "creating", "reviving", "running", "error"},
        sleeping   |-> {"stopping", "sleeping", "error"},
        archived   |-> {"archiving", "archived", "error"},
        terminated |-> {"terminating", "terminated", "error"}]

IntentInv ==
  \A s \in Sandboxes :
    row[s].state \in Stored =>
      /\ asked[s].over # "recovered" => row[s].state \in Way[asked[s].want]
      /\ asked[s].over = "no" =>
           /\ row[s].desired = asked[s].want
           /\ \A w \in Worker : Works(w, s) /\ ~ task[w].stale => task[w].desired = asked[s].want

\* Nobody works on a row that cannot be claimed.
LEMMA NobodyWorks ==
  ASSUME LeaseIInv, NEW s \in Sandboxes, row[s].state \notin Claimable, NEW w \in Worker,
         Works(w, s)
  PROVE  task[w].stale
<1>1. Busy(w) /\ Pod(w) # None
  BY WorkerPod, LifecycleAssumption DEF LifecycleAssumption, Works, Busy
<1>. QED BY <1>1 DEF LeaseIInv, LeaseInv, TaskInv, Works, Leased

\* The end of a step on the way stays on the way.
LEMMA WayKept ==
  \A d \in DesiredState : \A st \in Way[d] \cap Claimable :
     StepTarget[st] \in Way[d] /\ "error" \in Way[d]
BY DEF Way, DesiredState, Claimable, Convergence, StepTarget

\* A request that moves a row puts it on the way; one that meets it at the goal
\* finds a row nobody works on.
LEMMA WayEntered ==
  ASSUME NEW st \in Stored, NEW d \in DesiredState,
         Advance(st, d) # st \/ Advance(st, d) = d
  PROVE  Advance(st, d) \in Way[d] /\ st \notin Claimable
BY DEF Advance, MovedBy, RecoverTarget, Way, DesiredState, Stored, LifecycleState, Claimable,
       Convergence, Quiescent

\* Steps that do not touch what the invariant is about.
LEMMA IntentIdle ==
  ASSUME LeaseIInv, LeaseIInv', IntentInv, UNCHANGED asked,
         \A w \in Worker : task'[w] = task[w] \/ task'[w] = Idle,
         \A s \in Sandboxes :
           row'[s].state \in Stored =>
             /\ row[s].state \in Stored
             /\ row'[s].desired = row[s].desired
             /\ \/ row'[s].state = row[s].state
                \/ row'[s].state = "error"
  PROVE  IntentInv'
<1>. SUFFICES ASSUME NEW s \in Sandboxes, row'[s].state \in Stored
              PROVE  /\ asked[s].over # "recovered" => row'[s].state \in Way[asked[s].want]
                     /\ asked[s].over = "no" =>
                          /\ row'[s].desired = asked[s].want
                          /\ \A w \in Worker : task'[w].sandbox = s /\ ~ task'[w].stale
                                               => task'[w].desired = asked[s].want
  BY DEF IntentInv, Works
<1>1. asked[s].want \in DesiredState
  BY DEF LeaseIInv, TypeOK
<1>2. "error" \in Way[asked[s].want]
  BY <1>1 DEF Way, DesiredState
<1>3. \A w \in Worker : task'[w].sandbox = s => task'[w] = task[w]
  BY LifecycleAssumption DEF LifecycleAssumption, Idle
<1>. QED BY <1>2, <1>3 DEF IntentInv, Works

LEMMA IntentStep == LeaseIInv /\ LeaseIInv' /\ IntentInv /\ [Next]_vars => IntentInv'
<1>. SUFFICES ASSUME LeaseIInv, LeaseIInv', IntentInv, [Next]_vars PROVE IntentInv'
  OBVIOUS
<1>t. TypeOK
  BY DEF LeaseIInv
<1>1. ASSUME NEW s \in Sandboxes, InsertPending(s) PROVE IntentInv'
  <2>1. row[s].state \notin Claimable
    BY <1>1 DEF InsertPending, Claimable, Convergence
  <2>2. \A w \in Worker : task'[w] = task[w] /\ (Works(w, s) => task[w].stale)
    BY <1>1, <2>1, NobodyWorks DEF InsertPending
  <2>. QED BY <1>1, <1>t, <2>2 DEF InsertPending, Effective, NewRow, TypeOK, IntentInv, Way, Works
<1>2. ASSUME NEW s \in Sandboxes, NEW d \in DesiredState, WriteDesired(s, d), UNCHANGED task
      PROVE  IntentInv'
  <2>. DEFINE next == Advance(row[s].state, d)
  <2>1. /\ row[s].state \in Stored /\ row'[s].state = next /\ row'[s].desired = d
        /\ \A r \in Sandboxes : r # s => row'[r] = row[r] /\ asked'[r] = asked[r]
    BY <1>2, <1>t DEF WriteDesired, Effective, TypeOK
  <2>2. CASE next # row[s].state \/ next = d
    <3>1. next \in Way[d] /\ row[s].state \notin Claimable
      BY <2>1, <2>2, WayEntered
    <3>2. \A w \in Worker : Works(w, s) => task[w].stale
      BY <3>1, NobodyWorks
    <3>3. asked'[s].want = d
      BY <1>2, <1>t, <2>2 DEF WriteDesired, Effective, TypeOK
    <3>. QED BY <1>2, <2>1, <3>1, <3>2, <3>3 DEF IntentInv, Works
  <2>3. CASE ~ (next # row[s].state \/ next = d)
    <3>1. /\ asked'[s].want = asked[s].want
          /\ asked'[s].over # "recovered" => asked[s].over # "recovered"
          /\ asked'[s].over = "no" => asked[s].over = "no" /\ d = asked[s].want
      BY <1>2, <1>t, <2>3 DEF WriteDesired, TypeOK
    <3>. QED BY <1>2, <2>1, <2>3, <3>1 DEF IntentInv, Works
  <2>. QED BY <2>2, <2>3
<1>3. ASSUME NEW s \in Sandboxes, NEW d \in DesiredState, SetDesiredState(s, d) PROVE IntentInv'
  BY <1>2, <1>3 DEF SetDesiredState
<1>4. ASSUME NEW s \in Sandboxes, NEW n, Reenter(s, n), UNCHANGED task PROVE IntentInv'
  <2>1. /\ row[s].state = "error"
        /\ row'[s].state = RecoverTarget[row[s].desired] /\ row'[s].desired = row[s].desired
        /\ \A r \in Sandboxes : r # s => row'[r] = row[r] /\ asked'[r] = asked[r]
    BY <1>4, <1>t DEF Reenter, TypeOK
  <2>2. asked'[s].over = "recovered" \/ asked'[s].want = row[s].desired
    BY <1>4, <1>t DEF Reenter, TypeOK
  <2>3. RecoverTarget[row[s].desired] \in Way[row[s].desired]
    <3>1. row[s].desired \in DesiredState
      BY <1>t DEF TypeOK, Row
    <3>. QED BY <3>1 DEF RecoverTarget, Way, DesiredState
  <2>4. \A w \in Worker : Works(w, s) => task[w].stale
    BY <2>1, NobodyWorks DEF Claimable, Convergence
  <2>. QED BY <1>4, <2>1, <2>2, <2>3, <2>4 DEF IntentInv, Works
<1>5. ASSUME NEW s \in Sandboxes, Recover(s) \/ AutoRecover(s) PROVE IntentInv'
  BY <1>4, <1>5 DEF Recover, AutoRecover
<1>6. ASSUME NEW s \in Sandboxes, Purge(s) PROVE IntentInv'
  BY <1>6, <1>t, IntentIdle DEF Purge, Purged, TypeOK, Stored
<1>7. ASSUME NEW s \in Sandboxes, NEW gone \in BOOLEAN, DirectDestroy(s, gone) PROVE IntentInv'
  <2>1. \A w \in Worker : /\ task'[w].sandbox = task[w].sandbox
                          /\ Works(w, s) => task'[w].stale
                          /\ ~ Works(w, s) => task'[w] = task[w]
    BY <1>7, <1>t DEF DirectDestroy, TypeOK, Task, Works
  <2>. QED BY <1>7, <1>t, <2>1 DEF DirectDestroy, Effective, TypeOK, IntentInv, Way, Works
<1>8. ASSUME NEW w \in Worker, NEW s \in Sandboxes, ClaimDue(w, s) PROVE IntentInv'
  <2>1. \A r \in Sandboxes : row'[r].state = row[r].state /\ row'[r].desired = row[r].desired
    BY <1>8, <1>t DEF ClaimDue, TypeOK, Row
  <2>2. /\ task'[w].sandbox = s /\ task'[w].desired = row[s].desired
        /\ \A v \in Worker : v # w => /\ task'[v].sandbox = task[v].sandbox
                                      /\ ~ Works(v, s) => task'[v] = task[v]
                                      /\ Works(v, s) => task'[v].stale
    BY <1>8, <1>t DEF ClaimDue, TypeOK, Task, Works
  <2>3. UNCHANGED asked
    BY <1>8 DEF ClaimDue
  <2>. QED BY <2>1, <2>2, <2>3 DEF IntentInv, Works
<1>9. ASSUME NEW w \in Worker, ApplyTransition(w) PROVE IntentInv'
  <2>. DEFINE t == task[w]
              s == task[w].sandbox
  <2>1. s \in Sandboxes /\ t \in Task
    BY <1>9, <1>t DEF ApplyTransition, Busy, TypeOK, Task
  <2>2. CASE ~ OwnsLease(w)
    BY <1>9, <1>t, <2>2, IntentIdle DEF ApplyTransition, Release, TypeOK
  <2>3. CASE OwnsLease(w)
    <3>1. ~ t.stale /\ row[s].state = t.state /\ t.state \in Claimable
      BY <1>9, <2>1, <2>3 DEF ApplyTransition, LeaseIInv, TaskInv, OwnsLease, Task
    <3>2. /\ row'[s].state = StepTarget[t.state] /\ row'[s].desired = t.desired
          /\ \A r \in Sandboxes : r # s => row'[r] = row[r]
          /\ UNCHANGED asked
      BY <1>9, <1>t, <2>1, <2>3 DEF ApplyTransition, TypeOK
    <3>3. \A v \in Worker : task'[v] = task[v] \/ task'[v] = Idle
      BY <1>9, <1>t DEF ApplyTransition, Release, TypeOK
    <3>4. \A v \in Worker : task'[v].sandbox # None => task'[v] = task[v]
      BY <3>3 DEF Idle
    <3>5. row[s].state \in Stored /\ asked[s].want \in DesiredState
      BY <1>t, <2>1, <3>1, StatesTyped DEF TypeOK
    <3>6. /\ asked[s].over # "recovered" => StepTarget[t.state] \in Way[asked[s].want]
          /\ asked[s].over = "no" => t.desired = asked[s].want
      BY <2>1, <3>1, <3>5, WayKept DEF IntentInv, Works
    <3>. QED BY <2>1, <3>2, <3>4, <3>5, <3>6, LifecycleAssumption
             DEF LifecycleAssumption, IntentInv, Works
  <2>. QED BY <2>2, <2>3
<1>10. ASSUME NEW w \in Worker, RecordFailure(w) PROVE IntentInv'
  <2>. DEFINE t == task[w]
              s == task[w].sandbox
  <2>1. s \in Sandboxes
    BY <1>10, <1>t DEF RecordFailure, Busy, TypeOK, Task
  <2>2. \A v \in Worker : task'[v] = task[v] \/ task'[v] = Idle
    BY <1>10, <1>t DEF RecordFailure, Release, TypeOK
  <2>3. OwnsLease(w) => row[s].state = t.state /\ t.state \in Stored
    BY <1>10, <1>t, <2>1, StatesTyped
       DEF RecordFailure, LeaseIInv, TaskInv, OwnsLease, TypeOK, Task
  <2>4. \A r \in Sandboxes :
          /\ row'[r].desired = row[r].desired
          /\ \/ row'[r].state = row[r].state
             \/ row'[r].state = "error" /\ row[r].state \in Stored
    <3>1. \/ row' = row
          \/ /\ OwnsLease(w)
             /\ row'[s].state \in {t.state, "error"} /\ row'[s].desired = row[s].desired
             /\ \A r \in Sandboxes : r # s => row'[r] = row[r]
      BY <1>10, <1>t, <2>1 DEF RecordFailure, TypeOK
    <3>. QED BY <2>3, <3>1
  <2>. QED BY <1>10, <2>2, <2>4, IntentIdle DEF RecordFailure
<1>11. ASSUME NEW w \in Worker, AbandonStep(w) PROVE IntentInv'
  BY <1>11, <1>t, IntentIdle DEF AbandonStep, Release, TypeOK
<1>12. ASSUME NEW s \in Sandboxes, BackoffElapses(s) \/ LeaseExpires(s) PROVE IntentInv'
  BY <1>12, <1>t, TimePasses, IntentIdle DEF BackoffElapses, LeaseExpires
<1>13. ASSUME NEW p \in Pods, StartPod(p) \/ CrashPod(p) PROVE IntentInv'
  BY <1>13, <1>t, IntentIdle DEF StartPod, CrashPod, TypeOK
<1>14. ASSUME NEW s \in Sandboxes, NEW k \in Checkers, Select(k, s) \/ DropSelection(k, s)
       PROVE IntentInv'
  BY <1>14, IntentIdle DEF Select, DropSelection
<1>15. ASSUME NEW s \in Sandboxes, NEW k \in Checkers, Sweep(k, s) PROVE IntentInv'
  <2>1. CASE UNCHANGED <<row, asked>>
    BY <1>15, <2>1, IntentIdle DEF Sweep
  <2>2. CASE WriteDesired(s, SweepTarget[k])
    BY <1>2, <1>15, <2>2 DEF Sweep, SweepTarget, DesiredState
  <2>. QED BY <1>15, <2>1, <2>2 DEF Sweep
<1>16. ASSUME NEW s \in Sandboxes, SpecialCandidate(s) PROVE IntentInv'
  BY <1>2, <1>16 DEF SpecialCandidate, DesiredState
<1>17. ASSUME NEW s \in Sandboxes, MarkError(s) PROVE IntentInv'
  BY <1>17, <1>t, IntentIdle DEF MarkError, TypeOK, Stored, LifecycleState, Quiescent
<1>18. CASE UNCHANGED vars
  BY <1>18, IntentIdle DEF vars
<1>. QED
  BY <1>1, <1>3, <1>5, <1>6, <1>7, <1>8, <1>9, <1>10, <1>11, <1>12, <1>13, <1>14, <1>15,
     <1>16, <1>17, <1>18 DEF Next, API, Reconciler, Checking

\* SetDesiredState, Recover: a request that took effect can only be lost to a later
\* write that had none and that a recovery then follows; otherwise the row comes to
\* rest nowhere else, through retries, crashes, takeovers, errors and recoveries.
THEOREM IntentKept == ASSUME Fenced PROVE Spec => []IntentHonoured
<1>1. Init => IntentInv
  BY DEF Init, NoRow, Stored, IntentInv
<1>2. TypeOK /\ IntentInv => IntentHonoured
  <2>1. \A d \in DesiredState : \A st \in Way[d] \cap (Quiescent \cup {"terminated"}) : st = d
    BY DEF Way, Quiescent, DesiredState
  <2>. QED BY <2>1 DEF TypeOK, IntentInv, IntentHonoured
<1>3. LeaseIInv => TypeOK
  BY DEF LeaseIInv
<1>. QED BY <1>1, <1>2, <1>3, IntentStep, LeaseInvariant, PTL DEF Spec

-----------------------------------------------------------------------------
(* The rows implement the public graph.                                    *)

Shown(s) == PublicState(row[s].state)

\* The edges the transitions take.
LEMMA Edges ==
  /\ \A st \in Claimable :
        \/ PublicState(StepTarget[st]) = PublicState(st)
        \/ PublicState(StepTarget[st]) \in Promise!Follows[PublicState(st)]
  /\ \A st \in Convergence \cup {"running"} :
        PublicState("error") \in Promise!Follows[PublicState(st)]
  /\ \A st \in Stored, d \in DesiredState :
        \/ Advance(st, d) = st
        \/ PublicState(Advance(st, d)) \in Promise!Follows[PublicState(st)]
  /\ \A d \in DesiredState :
        PublicState(RecoverTarget[d]) \in Promise!Follows[PublicState("error")]
  /\ \A st \in Stored \ {"pending"}, to \in {"terminated", "terminating"} :
        st = to \/ PublicState(to) \in Promise!Follows[PublicState(st)]
  /\ PublicState("pending") \in Promise!Follows[PublicState("absent")]
  /\ PublicState("purged") \in Promise!Follows[PublicState("terminated")]
BY DEF PublicState, Label, Promise!Follows, StepTarget, Advance, MovedBy, RecoverTarget, Stored,
       LifecycleState, Claimable, Convergence, Quiescent, DesiredState

\* One row moving along an edge is a step of the promise, or stutters.
LEMMA OneMove ==
  ASSUME NEW s \in Sandboxes,
         \A r \in Sandboxes : r # s => row'[r].state = row[r].state,
         \/ Shown(s)' = Shown(s)
         \/ Shown(s)' \in Promise!Follows[Shown(s)]
  PROVE  [Promise!Next]_shown
<1>1. shown' = [shown EXCEPT ![s] = Shown(s)']
  BY DEF shown, Shown
<1>2. CASE Shown(s)' = Shown(s)
  BY <1>1, <1>2 DEF shown, Shown
<1>3. CASE Shown(s)' \in Promise!Follows[Shown(s)]
  <2>1. Promise!Move(s, Shown(s)')
    BY <1>1, <1>3 DEF Promise!Move, shown, Shown
  <2>2. Shown(s)' \in Promise!Follows[shown[s]]
    BY <1>3 DEF shown, Shown
  <2>. QED BY <2>1, <2>2 DEF Promise!Next
<1>. QED BY <1>2, <1>3

LEMMA PromiseStep ==
  LeaseIInv /\ [Next]_vars => [Promise!Next]_shown
<1>. SUFFICES ASSUME LeaseIInv, [Next]_vars
              PROVE  [Promise!Next]_shown
  OBVIOUS
<1>. DEFINE Promised == [Promise!Next]_shown
<1>t. TypeOK
  BY DEF LeaseIInv
<1>1. ASSUME NEW s \in Sandboxes, InsertPending(s) PROVE Promised
  BY <1>1, <1>t, Edges, OneMove DEF InsertPending, NewRow, TypeOK, Shown
<1>2. ASSUME NEW s \in Sandboxes, NEW d \in DesiredState, WriteDesired(s, d) PROVE Promised
  BY <1>2, <1>t, Edges, OneMove DEF WriteDesired, TypeOK, Shown
<1>3. ASSUME NEW s \in Sandboxes, NEW n, Reenter(s, n) PROVE Promised
  BY <1>3, <1>t, Edges, OneMove DEF Reenter, TypeOK, Row, Shown
<1>4. ASSUME NEW s \in Sandboxes, Purge(s) PROVE Promised
  BY <1>4, <1>t, Edges, OneMove DEF Purge, Purged, TypeOK, Shown
<1>5. ASSUME NEW s \in Sandboxes, NEW gone \in BOOLEAN, DirectDestroy(s, gone) PROVE Promised
  BY <1>5, <1>t, Edges, OneMove DEF DirectDestroy, TypeOK, Shown
<1>6. ASSUME NEW w \in Worker, ApplyTransition(w) \/ RecordFailure(w) PROVE Promised
  <2>. DEFINE st == task[w].state
  <2>1. task[w] \in Task /\ \E s \in Sandboxes : s = task[w].sandbox
    BY <1>6, <1>t DEF ApplyTransition, RecordFailure, Busy, TypeOK, Task
  <2>2. PICK s \in Sandboxes : s = task[w].sandbox
    BY <2>1
  <2>3. OwnsLease(w) => row[s].state = st
    BY <1>6, <2>2 DEF ApplyTransition, RecordFailure, LeaseIInv, TaskInv, OwnsLease
  <2>4. \A r \in Sandboxes : r # s => row'[r] = row[r]
    BY <1>6, <1>t, <2>2 DEF ApplyTransition, RecordFailure, TypeOK
  <2>5. \/ row' = row
        \/ OwnsLease(w) /\ row'[s].state = StepTarget[st]
        \/ OwnsLease(w) /\ st \in Convergence /\ row'[s].state \in {st, "error"}
    BY <1>6, <1>t, <2>2 DEF ApplyTransition, RecordFailure, TypeOK
  <2>6. Shown(s)' = Shown(s) \/ Shown(s)' \in Promise!Follows[Shown(s)]
    BY <2>1, <2>3, <2>5, Edges DEF Shown, Task
  <2>. QED BY <2>4, <2>6, OneMove
<1>7. ASSUME NEW s \in Sandboxes, MarkError(s) PROVE Promised
  BY <1>7, <1>t, Edges, OneMove DEF MarkError, TypeOK, Shown
<1>8. CASE \A r \in Sandboxes : row'[r].state = row[r].state
  BY <1>8 DEF shown
<1>9. ASSUME NEW w \in Worker, NEW s \in Sandboxes, ClaimDue(w, s) PROVE Promised
  <2>1. \A r \in Sandboxes : row'[r].state = row[r].state
    BY <1>9, <1>t DEF ClaimDue, TypeOK, Row
  <2>. QED BY <1>8, <2>1
<1>10. ASSUME NEW s \in Sandboxes, BackoffElapses(s) \/ LeaseExpires(s) PROVE Promised
  BY <1>8, <1>10, <1>t, TimePasses
<1>11. ASSUME NEW s \in Sandboxes, NEW k \in Checkers, Sweep(k, s) PROVE Promised
  BY <1>2, <1>8, <1>11 DEF Sweep, SweepTarget, DesiredState
<1>12. CASE UNCHANGED row
  BY <1>8, <1>12
<1>. QED
  BY <1>1, <1>2, <1>3, <1>4, <1>5, <1>6, <1>7, <1>9, <1>10, <1>11, <1>12
     DEF Next, API, Reconciler, Checking, vars, SetDesiredState, Recover, AbandonStep, StartPod,
         CrashPod, Select, DropSelection, SpecialCandidate, AutoRecover, DesiredState

\* Whatever the pods, the checkers and the users do, what the API shows of a
\* sandbox moves only along the edges of SandboxPromise.
THEOREM Implements == ASSUME Fenced PROVE Spec => KeepsPromise
<1>1. Init => Promise!Init
  BY DEF Init, Promise!Init, shown, NoRow, PublicState, Label
<1>. QED BY <1>1, PromiseStep, LeaseInvariant, PTL DEF Spec, KeepsPromise, Promise!Spec
-----------------------------------------------------------------------------
(* The rows are stepped alone.                                             *)

\* While steps end before their lease, a row is as its worker claimed it, the
\* lease is the worker's, and nobody else has the row in hand.
InHand ==
  \A w \in Worker, s \in Sandboxes : Works(w, s) =>
    /\ OwnsLease(w) /\ task[w].state = row[s].state /\ row[s].state \in Claimable
    /\ \A v \in Worker : Works(v, s) => v = w
    /\ stepperOf[s] = [pod |-> Pod(w), desired |-> task[w].desired]
    /\ stepperOf[s] # Stepping!Nobody

OutOfHand ==
  \A s \in Sandboxes : (\A w \in Worker : ~ Works(w, s)) => stepperOf[s] = Stepping!Nobody

LEMMA Hands ==
  ~ StepsOutliveLease /\ ~ DirectDestroyAllowed /\ LeaseIInv => InHand /\ OutOfHand
<1>. SUFFICES ASSUME ~ StepsOutliveLease, ~ DirectDestroyAllowed, LeaseIInv
              PROVE  InHand /\ OutOfHand
  OBVIOUS
<1>1. ASSUME NEW w \in Worker, NEW s \in Sandboxes, Works(w, s)
      PROVE  /\ OwnsLease(w) /\ task[w].state = row[s].state /\ row[s].state \in Claimable
             /\ \A v \in Worker : Works(v, s) => v = w
             /\ stepperOf[s] = [pod |-> Pod(w), desired |-> task[w].desired]
             /\ stepperOf[s] # Stepping!Nobody
  <2>1. \A v \in Worker : Works(v, s) => Busy(v) /\ ~ task[v].stale
    BY LifecycleAssumption DEF LifecycleAssumption, LeaseIInv, TimelyInv, Works, Busy
  <2>2. OwnsLease(w) /\ task[w].state = row[s].state /\ row[s].state \in Claimable
    <3>1. task[w] \in Task
      BY DEF LeaseIInv, TypeOK
    <3>. QED BY <1>1, <2>1, <3>1 DEF LeaseIInv, TaskInv, OwnsLease, Works, Task
  <2>3. \A v \in Worker : Works(v, s) => v = w
    BY <1>1, <2>1 DEF LeaseIInv, OwnerInv, Works
  <2>4. stepperOf[s] = [pod |-> Pod(w), desired |-> task[w].desired]
    <3>1. (CHOOSE v \in Worker : Works(v, s)) = w
      BY <1>1, <2>3
    <3>. QED BY <1>1, <3>1 DEF stepperOf
  <2>5. stepperOf[s] # Stepping!Nobody
    BY <2>4, WorkerPod, LifecycleAssumption DEF LifecycleAssumption, Stepping!Nobody
  <2>. QED BY <2>2, <2>3, <2>4, <2>5
<1>2. OutOfHand
  BY DEF OutOfHand, stepperOf, Stepping!Nobody
<1>. QED BY <1>1, <1>2 DEF InHand

\* A row whose workers do not change keeps its stepper.
LEMMA SameHands ==
  ASSUME NEW s \in Sandboxes,
         \A w \in Worker : Works(w, s)' <=> Works(w, s),
         \A w \in Worker : Works(w, s) => task'[w].desired = task[w].desired
  PROVE  stepperOf'[s] = stepperOf[s]
<1>1. CASE \A w \in Worker : ~ Works(w, s)
  BY <1>1 DEF stepperOf, Works
<1>2. CASE \E w \in Worker : Works(w, s)
  <2>1. (CHOOSE w \in Worker : Works(w, s)') = (CHOOSE w \in Worker : Works(w, s))
    OBVIOUS
  <2>2. PICK w \in Worker : w = (CHOOSE v \in Worker : Works(v, s)) /\ Works(w, s)
    BY <1>2
  <2>. QED BY <1>2, <2>1, <2>2 DEF stepperOf
<1>. QED BY <1>1, <1>2

\* The abstract module reads the tables this one does.
LEMMA SameTables ==
  /\ Stepping!Claimable = Claimable /\ Stepping!Convergence = Convergence
  /\ Stepping!Stored = Stored /\ Stepping!DesiredState = DesiredState
  /\ Stepping!StepTarget = StepTarget /\ Stepping!RecoverTarget = RecoverTarget
  /\ \A st, d : Stepping!Advance(st, d) = Advance(st, d)
BY DEF Stepping!Claimable, Claimable, Stepping!Convergence, Convergence, Stepping!Stored, Stored,
       Stepping!LifecycleState, LifecycleState, Stepping!Quiescent, Quiescent,
       Stepping!DesiredState, DesiredState, Stepping!StepTarget, StepTarget,
       Stepping!RecoverTarget, RecoverTarget, Stepping!Advance, Advance, Stepping!MovedBy, MovedBy

\* A step that writes one row.
LEMMA OneRow ==
  ASSUME NEW s \in Sandboxes,
         \A r \in Sandboxes : r # s =>
           /\ row'[r].state = row[r].state /\ row'[r].desired = row[r].desired
           /\ stepperOf'[r] = stepperOf[r]
  PROVE  Stepping!Put(s, row'[s].state, row'[s].desired, stepperOf'[s])
<1>1. stepperOf' = [stepperOf EXCEPT ![s] = stepperOf'[s]]
  BY DEF stepperOf
<1>. QED BY <1>1 DEF Stepping!Put, stateOf, desiredOf

\* Rows that keep their states and their workers.
LEMMA RowsKept ==
  ASSUME \A s \in Sandboxes :
           /\ row'[s].state = row[s].state /\ row'[s].desired = row[s].desired
           /\ stepperOf'[s] = stepperOf[s]
  PROVE  UNCHANGED <<stateOf, desiredOf, stepperOf>>
<1>1. stepperOf' = stepperOf
  BY DEF stepperOf
<1>. QED BY <1>1 DEF stateOf, desiredOf

LEMMA SteppedStep ==
  ASSUME ~ StepsOutliveLease, ~ DirectDestroyAllowed, LeaseIInv, LeaseIInv', [Next]_vars
  PROVE  [Stepping!Next]_<<stateOf, desiredOf, stepperOf>>
<1>. DEFINE Stepped == [Stepping!Next]_<<stateOf, desiredOf, stepperOf>>
<1>t. TypeOK
  BY DEF LeaseIInv
<1>u. UNCHANGED task => \A s \in Sandboxes : stepperOf'[s] = stepperOf[s]
  BY SameHands DEF Works
<1>h. InHand /\ OutOfHand
  BY Hands
<1>n. InHand' /\ OutOfHand'
  BY Hands, PTL
<1>1. ASSUME NEW s \in Sandboxes, InsertPending(s) PROVE Stepped
  <2>1. /\ row[s].state = "absent" /\ row'[s].state = "pending" /\ row'[s].desired = "running"
        /\ \A r \in Sandboxes : r # s => row'[r] = row[r]
    BY <1>1, <1>t DEF InsertPending, NewRow, TypeOK
  <2>2. Stepping!Put(s, "pending", "running", stepperOf[s])
    BY <1>1, <1>u, <2>1, OneRow DEF InsertPending
  <2>. QED BY <2>1, <2>2 DEF Stepping!Next, Stepping!Insert, stateOf, desiredOf
<1>2. ASSUME NEW s \in Sandboxes, NEW d \in DesiredState, WriteDesired(s, d), UNCHANGED task
      PROVE  Stepped
  <2>1. /\ row[s].state \in Stored
        /\ row'[s].state = Advance(row[s].state, d) /\ row'[s].desired = d
        /\ \A r \in Sandboxes : r # s => row'[r] = row[r]
    BY <1>2, <1>t DEF WriteDesired, TypeOK
  <2>2. Stepping!Put(s, Advance(row[s].state, d), d, stepperOf[s])
    BY <1>2, <1>u, <2>1, OneRow
  <2>3. Stepping!Request(s, d)
    BY <2>1, <2>2, SameTables DEF Stepping!Request, stateOf
  <2>. QED BY <2>3, SameTables DEF Stepping!Next
<1>3. ASSUME NEW s \in Sandboxes, NEW n, Reenter(s, n), UNCHANGED task PROVE Stepped
  <2>1. /\ row[s].state = "error"
        /\ row'[s].state = RecoverTarget[row[s].desired] /\ row'[s].desired = row[s].desired
        /\ \A r \in Sandboxes : r # s => row'[r] = row[r]
    BY <1>3, <1>t DEF Reenter, TypeOK
  <2>2. Stepping!Put(s, RecoverTarget[row[s].desired], row[s].desired, stepperOf[s])
    BY <1>3, <1>u, <2>1, OneRow
  <2>. QED BY <2>1, <2>2, SameTables DEF Stepping!Next, Stepping!Recover, stateOf, desiredOf
<1>4. ASSUME NEW s \in Sandboxes, Purge(s) PROVE Stepped
  <2>1. /\ row[s].state = "terminated" /\ row'[s].state = "purged" /\ row'[s].desired = "running"
        /\ \A r \in Sandboxes : r # s => row'[r] = row[r]
    BY <1>4, <1>t DEF Purge, Purged, TypeOK
  <2>2. Stepping!Put(s, "purged", "running", stepperOf[s])
    BY <1>4, <1>u, <2>1, OneRow DEF Purge
  <2>. QED BY <2>1, <2>2 DEF Stepping!Next, Stepping!Purge, stateOf, desiredOf
<1>5. ASSUME NEW w \in Worker, NEW s \in Sandboxes, ClaimDue(w, s) PROVE Stepped
  <2>1. \A r \in Sandboxes : row'[r].state = row[r].state /\ row'[r].desired = row[r].desired
    BY <1>5, <1>t DEF ClaimDue, TypeOK, Row
  <2>2. \A v \in Worker : ~ Works(v, s)
    <3>. SUFFICES ASSUME NEW v \in Worker, Works(v, s) PROVE FALSE
      OBVIOUS
    <3>1. OwnsLease(v)
      BY <1>h DEF InHand
    <3>2. Busy(v) /\ Pod(v) # None
      BY WorkerPod, LifecycleAssumption DEF LifecycleAssumption, Works, Busy
    <3>3. ~ row[s].expired
      BY <3>2 DEF LeaseIInv, TimelyInv, Works
    <3>. QED BY <1>5, <3>1, <3>2, <3>3 DEF ClaimDue, LeaseFree, Leased, OwnsLease, Works
  <2>3. /\ Works(w, s)' /\ task'[w].desired = row[s].desired
        /\ \A v \in Worker : v # w => task'[v] = task[v]
        /\ task[w].sandbox = None
    BY <1>5, <1>t, <2>2 DEF ClaimDue, TypeOK, Works, Busy
  <2>4. \A r \in Sandboxes : r # s => stepperOf'[r] = stepperOf[r]
    BY <2>3, SameHands, LifecycleAssumption DEF LifecycleAssumption, Works
  <2>5. stepperOf'[s] = [pod |-> Pod(w), desired |-> row[s].desired]
    <3>1. stepperOf'[s] = [pod |-> Pod(w), desired |-> task'[w].desired]
      BY <1>n, <2>3 DEF InHand
    <3>. QED BY <2>3, <3>1
  <2>6. Stepping!Put(s, row[s].state, row[s].desired, [pod |-> Pod(w), desired |-> row[s].desired])
    BY <2>1, <2>4, <2>5, OneRow
  <2>7. Stepping!Claim(s, Pod(w))
    <3>1. stepperOf[s] = Stepping!Nobody
      BY <1>h, <2>2 DEF OutOfHand
    <3>2. stateOf[s] = row[s].state /\ desiredOf[s] = row[s].desired
      BY DEF stateOf, desiredOf
    <3>3. stateOf[s] \in Stepping!Claimable
      BY <1>5, <3>2, SameTables DEF ClaimDue
    <3>. QED BY <2>6, <3>1, <3>2, <3>3 DEF Stepping!Claim
  <2>. QED BY <2>7, WorkerPod DEF Stepping!Next
<1>6. ASSUME NEW w \in Worker, ApplyTransition(w) \/ RecordFailure(w) PROVE Stepped
  <2>1. task[w].sandbox \in Sandboxes /\ task[w] \in Task
    BY <1>6, <1>t DEF ApplyTransition, RecordFailure, Busy, TypeOK, Task
  <2>2. PICK s \in Sandboxes : s = task[w].sandbox
    BY <2>1
  <2>3. /\ OwnsLease(w) /\ task[w].state = row[s].state /\ row[s].state \in Claimable
        /\ \A v \in Worker : Works(v, s) => v = w
        /\ stepperOf[s] = [pod |-> Pod(w), desired |-> task[w].desired]
        /\ stepperOf[s] # Stepping!Nobody
    BY <1>h, <2>2 DEF InHand, Works
  <2>4. /\ task'[w] = Idle
        /\ \A v \in Worker : v # w => task'[v] = task[v]
    BY <1>6, <1>t DEF ApplyTransition, RecordFailure, Release, TypeOK
  <2>5. \A r \in Sandboxes : r # s => stepperOf'[r] = stepperOf[r]
    <3>. SUFFICES ASSUME NEW r \in Sandboxes, r # s PROVE stepperOf'[r] = stepperOf[r]
      OBVIOUS
    <3>1. ~ Works(w, r) /\ ~ Works(w, r)'
      BY <2>2, <2>4, LifecycleAssumption DEF LifecycleAssumption, Works, Idle
    <3>. QED BY <2>4, <3>1, SameHands DEF Works
  <2>6. stepperOf'[s] = Stepping!Nobody
    <3>1. \A v \in Worker : ~ Works(v, s)'
      BY <2>3, <2>4, LifecycleAssumption DEF LifecycleAssumption, Works, Idle
    <3>. QED BY <1>n, <3>1 DEF OutOfHand, Stepping!Nobody
  <2>7. \A r \in Sandboxes : r # s => row'[r] = row[r]
    BY <1>6, <1>t, <2>2 DEF ApplyTransition, RecordFailure, TypeOK
  <2>8. Stepping!Put(s, row'[s].state, row'[s].desired, Stepping!Nobody)
    BY <2>5, <2>6, <2>7, OneRow
  <2>9. CASE ApplyTransition(w)
    <3>1. row'[s].state = StepTarget[row[s].state] /\ row'[s].desired = stepperOf[s].desired
      BY <1>t, <2>2, <2>3, <2>9 DEF ApplyTransition, TypeOK
    <3>2. Stepping!WriteBack(s)
      BY <2>3, <2>8, <3>1, SameTables DEF Stepping!WriteBack, stateOf
    <3>. QED BY <3>2 DEF Stepping!Next
  <2>10. CASE RecordFailure(w)
    <3>1. row'[s].state \in {row[s].state, "error"} /\ row'[s].desired = row[s].desired
          /\ row[s].state \in Convergence
      BY <1>t, <2>2, <2>3, <2>10 DEF RecordFailure, TypeOK
    <3>2. Stepping!Fail(s)
      BY <2>3, <2>8, <3>1, SameTables DEF Stepping!Fail, stateOf, desiredOf
    <3>. QED BY <3>2 DEF Stepping!Next
  <2>. QED BY <1>6, <2>9, <2>10
<1>7. ASSUME UNCHANGED row, \A w \in Worker : task'[w] = task[w] \/ task'[w] = Idle
      PROVE  Stepped
  <2>. DEFINE Lost == {s \in Sandboxes : \E w \in Worker : Works(w, s) /\ task'[w] = Idle}
  <2>1. ASSUME NEW s \in Sandboxes
        PROVE  stepperOf'[s] = IF s \in Lost THEN Stepping!Nobody ELSE stepperOf[s]
    <3>1. \A w \in Worker : Works(w, s)' => Works(w, s) /\ task'[w] = task[w]
      BY <1>7, LifecycleAssumption DEF LifecycleAssumption, Works, Idle
    <3>2. CASE s \in Lost
      <4>1. PICK w \in Worker : Works(w, s) /\ task'[w] = Idle
        BY <3>2
      <4>2. \A v \in Worker : Works(v, s) => v = w
        BY <1>h, <4>1 DEF InHand
      <4>3. \A v \in Worker : ~ Works(v, s)'
        BY <3>1, <4>1, <4>2, LifecycleAssumption DEF LifecycleAssumption, Works, Idle
      <4>. QED BY <1>n, <3>2, <4>3 DEF OutOfHand, Stepping!Nobody
    <3>3. CASE s \notin Lost
      <4>1. \A w \in Worker : Works(w, s) => task'[w] = task[w]
        BY <1>7, <3>3
      <4>. QED BY <3>1, <3>3, <4>1, SameHands DEF Works
    <3>. QED BY <3>2, <3>3
  <2>2. stepperOf' = [s \in Sandboxes |-> IF s \in Lost THEN Stepping!Nobody ELSE stepperOf[s]]
    BY <2>1 DEF stepperOf
  <2>3. Stepping!Lose(Lost)
    BY <1>7, <2>2 DEF Stepping!Lose, stateOf, desiredOf
  <2>. QED BY <2>3 DEF Stepping!Next
<1>8. ASSUME NEW w \in Worker, AbandonStep(w) PROVE Stepped
  BY <1>7, <1>8, <1>t DEF AbandonStep, Release, TypeOK
<1>9. ASSUME NEW p \in Pods, StartPod(p) \/ CrashPod(p) PROVE Stepped
  BY <1>7, <1>9, <1>t DEF StartPod, CrashPod, TypeOK
<1>10. ASSUME NEW s \in Sandboxes, BackoffElapses(s) \/ LeaseExpires(s) PROVE Stepped
  <2>1. /\ UNCHANGED task
        /\ \A r \in Sandboxes : row'[r].state = row[r].state /\ row'[r].desired = row[r].desired
    BY <1>10, <1>t, TimePasses DEF BackoffElapses, LeaseExpires
  <2>. QED BY <1>u, <2>1, RowsKept
<1>11. ASSUME NEW s \in Sandboxes, MarkError(s) PROVE Stepped
  <2>1. CASE row' = row
    BY <1>7, <1>11, <2>1 DEF MarkError
  <2>2. CASE row[s].state = "running"
    <3>1. /\ row'[s].state = "error" /\ row'[s].desired = row[s].desired
          /\ \A r \in Sandboxes : r # s => row'[r] = row[r]
      BY <1>11, <1>t, <2>2 DEF MarkError, TypeOK
    <3>2. Stepping!Put(s, "error", row[s].desired, stepperOf[s])
      BY <1>11, <1>u, <3>1, OneRow DEF MarkError
    <3>. QED BY <2>2, <3>2 DEF Stepping!Next, Stepping!MarkError, stateOf, desiredOf
  <2>. QED BY <1>11, <2>1, <2>2 DEF MarkError
<1>12. ASSUME NEW s \in Sandboxes, NEW k \in Checkers, Sweep(k, s) PROVE Stepped
  BY <1>2, <1>7, <1>12 DEF Sweep, SweepTarget, DesiredState
<1>13. CASE UNCHANGED <<row, task>>
  BY <1>7, <1>13
<1>. QED
  BY <1>1, <1>2, <1>3, <1>4, <1>5, <1>6, <1>8, <1>9, <1>10, <1>11, <1>12, <1>13
     DEF Next, API, Reconciler, Checking, vars, SetDesiredState, Recover, Select, DropSelection,
         SpecialCandidate, AutoRecover, DesiredState, DirectDestroy

\* ClaimDue, ApplyTransition, RecordFailure: without direct destroys, and while
\* steps end before their lease does, every row is stepped by one worker at a time,
\* nobody moves it meanwhile, no write-back is refused, and a row whose worker was
\* lost is left as it was claimed.
THEOREM StepsAlone ==
  ASSUME ~ StepsOutliveLease, ~ DirectDestroyAllowed
  PROVE  Spec => SteppedAlone
<1>1. Init => Stepping!Init
  <2>1. Init => \A s \in Sandboxes : stepperOf[s] = Stepping!Nobody
    BY LifecycleAssumption DEF LifecycleAssumption, Init, Idle, Works, stepperOf,
       Stepping!Nobody
  <2>2. Init => stepperOf = [s \in Sandboxes |-> Stepping!Nobody]
    BY <2>1 DEF stepperOf, Works
  <2>. QED BY <2>2 DEF Init, NoRow, Stepping!Init, stateOf, desiredOf
<1>2. LeaseIInv /\ LeaseIInv' /\ [Next]_vars => [Stepping!Next]_<<stateOf, desiredOf, stepperOf>>
  BY SteppedStep
<1>3. Spec => []LeaseIInv
  BY LeaseInvariant DEF Fenced
<1>. QED BY <1>1, <1>2, <1>3, PTL DEF Spec, SteppedAlone, Stepping!Spec
=============================================================================

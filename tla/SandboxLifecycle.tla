-------------------------- MODULE SandboxLifecycle --------------------------
(***************************************************************************)
(* The rows of sandbox_instances and everything that writes them: the API, *)
(* the reconciler workers of several gateway pods, the background checkers *)
(* and the direct destroy.  A worker claims a row under a lease, runs the  *)
(* executor outside any transaction, and writes the result back guarded    *)
(* only by the pod's LeaderID.                                             *)
(*                                                                         *)
(* What the executor does to the VM is SandboxWorkspace's business; here   *)
(* it succeeds, fails, or never comes back.                                *)
(***************************************************************************)
EXTENDS SandboxStates, Naturals

CONSTANTS
  Sandboxes,            \* sandbox ids
  Pods,                 \* gateway processes; each start has a LeaderID of its own
  Slots,                \* Reconciler.Workers: rows one pod has in flight at once
  None,                 \* no lease holder, no row in hand
  Checkers,             \* the background sweeps that run
  MaxAttempts,          \* Reconciler.MaxAttempts
  MaxRecovery,          \* RecoveryChecker.MaxAttempts
  StepsOutliveLease,    \* may a step outlive LeaseTimeout in a live pod?
  DirectDestroyAllowed  \* may DestroyWithReason write the row?

CheckerKind == {"idle", "special", "archive", "delete", "health"}

ASSUME LifecycleAssumption ==
  /\ None \notin Sandboxes \cup Pods
  /\ Checkers \subseteq CheckerKind
  /\ MaxAttempts \in Nat \ {0}
  /\ MaxRecovery \in Nat
  /\ StepsOutliveLease \in BOOLEAN
  /\ DirectDestroyAllowed \in BOOLEAN

Worker == Pods \X Slots
Pod(w) == w[1]

VARIABLES
  row,      \* sandbox_instances
  task,     \* the row each reconciler goroutine has in hand, as it was claimed
  pods,     \* process state of each pod
  scan,     \* rows a checker has selected and not yet acted on
  asked     \* history: what the last request that took effect wanted, and whether
            \* another desired state was written over it, and recovered to

vars == <<row, task, pods, scan, asked>>

Row == [state: LifecycleState, desired: DesiredState, due: BOOLEAN,
        attempts: 0..MaxAttempts, recovery: 0..MaxRecovery,
        holder: Pods \cup {None}, expired: BOOLEAN]

\* stale is history: the row was claimed or destroyed again under this task.
Task == [sandbox: Sandboxes \cup {None}, state: Claimable,
         desired: DesiredState, attempts: 0..MaxAttempts, stale: BOOLEAN]

Over == {"no", "written", "recovered"}

TypeOK ==
  /\ row   \in [Sandboxes -> Row]
  /\ task  \in [Worker -> Task]
  /\ pods  \in [Pods -> {"new", "up", "dead"}]
  /\ scan  \in [CheckerKind -> SUBSET Sandboxes]
  /\ asked \in [Sandboxes -> [want: DesiredState, over: Over]]

NoRow == [state |-> "absent", desired |-> "running", due |-> FALSE,
          attempts |-> 0, recovery |-> 0, holder |-> None, expired |-> FALSE]
NewRow == [state |-> "pending", desired |-> "running", due |-> TRUE,
           attempts |-> 0, recovery |-> 0, holder |-> None, expired |-> FALSE]
Purged == [state |-> "purged", desired |-> "running", due |-> FALSE,
           attempts |-> 0, recovery |-> 0, holder |-> None, expired |-> FALSE]
Idle  == [sandbox |-> None, state |-> "pending", desired |-> "running",
          attempts |-> 0, stale |-> FALSE]

Init ==
  /\ row   = [s \in Sandboxes |-> NoRow]
  /\ task  = [w \in Worker |-> Idle]
  /\ pods  = [p \in Pods |-> "new"]
  /\ scan  = [k \in CheckerKind |-> {}]
  /\ asked = [s \in Sandboxes |-> [want |-> "running", over |-> "no"]]

Busy(w)     == task[w].sandbox # None
Works(w, s) == task[w].sandbox = s
Leased(s)   == row[s].holder # None

\* A request takes effect on s.
Effective(s, desired) == asked' = [asked EXCEPT ![s] = [want |-> desired, over |-> "no"]]

-----------------------------------------------------------------------------
(* The API.                                                                *)

\* InsertPending: a pending row that wants to run and is due at once.
InsertPending(s) ==
  /\ row[s].state = "absent"
  /\ row'   = [row EXCEPT ![s] = NewRow]
  /\ Effective(s, "running")
  /\ UNCHANGED <<task, pods, scan>>

\* The UPDATE of SetDesiredState, shared by the API and the checkers.  It is
\* unconditional, keeps the lease, and makes the row due.  It takes effect when it
\* moves the row or meets it where it is wanted.
WriteDesired(s, desired) ==
  LET next == Advance(row[s].state, desired)
  IN /\ row[s].state \in Stored
     /\ row'   = [row EXCEPT ![s] =
                    [state |-> next, desired |-> desired, due |-> TRUE,
                     attempts |-> @.attempts, recovery |-> @.recovery,
                     holder |-> @.holder, expired |-> @.expired]]
     /\ IF next # row[s].state \/ next = desired
        THEN Effective(s, desired)
        ELSE asked' = [asked EXCEPT ![s].over =
                          IF @ = "no" /\ desired # asked[s].want THEN "written" ELSE @]

\* Start, Stop, Archive and Delete; none looks at the state of the row.
SetDesiredState(s, desired) ==
  /\ WriteDesired(s, desired)
  /\ UNCHANGED <<task, pods, scan>>

\* Recovery follows the desired column, whoever wrote it last.
Reenter(s, recovery) ==
  /\ row[s].state = "error"
  /\ asked' = [asked EXCEPT ![s] =
                  IF row[s].desired = @.want /\ @.over # "recovered"
                  THEN [want |-> @.want, over |-> "no"]
                  ELSE [want |-> row[s].desired, over |-> "recovered"]]
  /\ row' = [row EXCEPT ![s] =
               [state |-> RecoverTarget[@.desired], desired |-> @.desired, due |-> TRUE,
                attempts |-> 0, recovery |-> recovery,
                holder |-> None, expired |-> FALSE]]

\* Recover: the user retries an error row; recovery_attempts is kept.
Recover(s) ==
  /\ Reenter(s, row[s].recovery)
  /\ UNCHANGED <<task, pods, scan>>

\* PurgeTerminatedSandbox deletes a terminated row.
Purge(s) ==
  /\ row[s].state = "terminated"
  /\ row' = [row EXCEPT ![s] = Purged]
  /\ UNCHANGED <<task, pods, scan, asked>>

\* DestroyWithReason on a sandbox this process has in memory (the executor puts
\* it there before the row leaves creating, and nothing evicts it when another
\* process moves the row): the VM is destroyed and metered first, then the row is
\* forced to its end state, or when that failed to terminating, and its lease is
\* cleared.
DirectDestroy(s, gone) ==
  /\ DirectDestroyAllowed
  /\ row[s].state \in Stored \ {"pending"}
  /\ row'  = [row EXCEPT ![s] =
                [state |-> IF gone THEN "terminated" ELSE "terminating",
                 desired |-> "terminated", due |-> ~gone,
                 attempts |-> @.attempts, recovery |-> @.recovery,
                 holder |-> None, expired |-> FALSE]]
  /\ task' = [w \in Worker |->
                IF Works(w, s) THEN [task[w] EXCEPT !.stale = TRUE] ELSE task[w]]
  /\ Effective(s, "terminated")
  /\ UNCHANGED <<pods, scan>>

-----------------------------------------------------------------------------
(* The reconciler.                                                         *)

\* Mutants of LeaseFree: a claim that ignores leases, one that never takes over.
LeaseIgnored(s)   == TRUE
NeverTakenOver(s) == ~ Leased(s)

\* A lease is in the way of a claim until it has expired.
LeaseFree(s) == ~ Leased(s) \/ row[s].expired

\* ClaimDue and the dispatch of one row.  A batch is a sequence of these: the
\* advisory lock serializes the stamps, and SKIP LOCKED may shorten a batch.
ClaimDue(w, s) ==
  /\ pods[Pod(w)] = "up"
  /\ ~ Busy(w)
  /\ row[s].state \in Claimable
  /\ row[s].due
  /\ LeaseFree(s)
  /\ row'  = [row EXCEPT ![s].holder = Pod(w), ![s].expired = FALSE]
  /\ task' = [v \in Worker |->
                IF v = w
                THEN [sandbox |-> s, state |-> row[s].state, desired |-> row[s].desired,
                      attempts |-> row[s].attempts, stale |-> FALSE]
                ELSE IF Works(v, s) THEN [task[v] EXCEPT !.stale = TRUE]
                ELSE task[v]]
  /\ UNCHANGED <<pods, scan, asked>>

\* Mutant: the write-back only asks whether the row is leased at all.
SomeoneOwnsLease(w) == row[task[w].sandbox].holder # None

\* The guard of every write-back: reconcile_locked_by = leaderID.
OwnsLease(w) == row[task[w].sandbox].holder = Pod(w)

Release(w) == task' = [task EXCEPT ![w] = Idle]

\* processRow after a successful Step: ApplyTransition writes the claimed row
\* with its new state, or ErrLeaseLost discards it.
ApplyTransition(w) ==
  LET t == task[w]
      s == t.sandbox
      next == StepTarget[t.state]
  IN /\ Busy(w)
     /\ row' = IF OwnsLease(w)
               THEN [row EXCEPT ![s] =
                       [state |-> next, desired |-> t.desired, due |-> t.state = "pending",
                        attempts |-> 0, recovery |-> 0,
                        holder |-> None, expired |-> FALSE]]
               ELSE row
     /\ Release(w)
     /\ UNCHANGED <<pods, scan, asked>>

\* processRow after a failed Step (a pending step calls nothing and cannot
\* fail): count the attempt and back off, or give up into error.  The counter
\* saturates at MaxAttempts; the code only compares it with that bound.
NextAttempt(n) == IF n < MaxAttempts THEN n + 1 ELSE n

\* Mutant: > where the code has >=.
GivesUpLate(attempt) == attempt > MaxAttempts
GivesUp(attempt) == attempt = MaxAttempts

RecordFailure(w) ==
  LET t == task[w]
      s == t.sandbox
      attempt == NextAttempt(t.attempts)
  IN /\ Busy(w)
     /\ t.state \in Convergence
     /\ row' = IF OwnsLease(w)
               THEN [row EXCEPT ![s] =
                       [state |-> IF GivesUp(attempt) THEN "error" ELSE t.state,
                        desired |-> @.desired, due |-> FALSE,
                        attempts |-> attempt, recovery |-> @.recovery,
                        holder |-> None, expired |-> FALSE]]
               ELSE row
     /\ Release(w)
     /\ UNCHANGED <<pods, scan, asked>>

\* A panic in the step, or a write-back the database refuses: the goroutine
\* ends and leaves the lease behind.
AbandonStep(w) ==
  /\ Busy(w)
  /\ Release(w)
  /\ UNCHANGED <<row, pods, scan, asked>>

\* reconcile_after passes.
BackoffElapses(s) ==
  /\ row[s].state \in Claimable
  /\ ~ row[s].due
  /\ row' = [row EXCEPT ![s].due = TRUE]
  /\ UNCHANGED <<task, pods, scan, asked>>

\* The lease grows older than LeaseTimeout.  PerRowTimeout is shorter, so while
\* steps honour their context no task that holds the lease is still running.
LeaseExpires(s) ==
  /\ Leased(s)
  /\ ~ row[s].expired
  /\ \/ StepsOutliveLease
     \/ \A w \in Worker : Works(w, s) /\ Pod(w) = row[s].holder => task[w].stale
  /\ row' = [row EXCEPT ![s].expired = TRUE]
  /\ UNCHANGED <<task, pods, scan, asked>>

StartPod(p) ==
  /\ pods[p] = "new"
  /\ pods' = [pods EXCEPT ![p] = "up"]
  /\ UNCHANGED <<row, task, scan, asked>>

\* A pod dies with its goroutines.  A restart is another pod: LeaderID carries
\* a fresh uuid.  The deployment always has a pod left to start or running.
CrashPod(p) ==
  /\ pods[p] = "up"
  /\ \E q \in Pods \ {p} : pods[q] # "dead"
  /\ pods' = [pods EXCEPT ![p] = "dead"]
  /\ task' = [w \in Worker |-> IF Pod(w) = p THEN Idle ELSE task[w]]
  /\ UNCHANGED <<row, scan, asked>>

-----------------------------------------------------------------------------
(* The checkers.  Each reads a list in one query and acts on it row by row *)
(* later, so the row may have moved in between.                            *)

\* The lifecycle part of each sweep's WHERE clause; the time windows may or
\* may not have passed.
Eligible(k, s) ==
  \/ k \in {"idle", "health"} /\ row[s].state = "running" /\ row[s].desired = "running"
  \/ k = "special" /\ row[s].state = "running"
  \/ k = "archive" /\ row[s].state = "sleeping" /\ row[s].desired = "sleeping"
  \/ /\ k = "delete"
     /\ row[s].state \in {"sleeping", "archived", "error"}
     /\ row[s].desired # "terminated"

Select(k, s) ==
  /\ Eligible(k, s)
  /\ s \notin scan[k]
  /\ scan' = [scan EXCEPT ![k] = @ \cup {s}]
  /\ UNCHANGED <<row, task, pods, asked>>

Deselect(k, s) == scan' = [scan EXCEPT ![k] = @ \ {s}]

\* IdleChecker, ArchiveChecker.tickArchive and tickDelete: SetDesiredState.
SweepTarget == [idle |-> "sleeping", archive |-> "archived", delete |-> "terminated"]

Sweep(k, s) ==
  /\ k \in {"idle", "archive", "delete"}
  /\ s \in scan[k]
  /\ IF row[s].state \in Stored
     THEN WriteDesired(s, SweepTarget[k])
     ELSE UNCHANGED <<row, asked>>
  /\ Deselect(k, s)
  /\ UNCHANGED <<task, pods>>

\* IdleChecker.SpecialCandidates: the manager proposes what it has in memory and
\* has not seen used.  The entry was made while the sandbox ran, and stays until
\* this process evicts it.
SpecialCandidate(s) ==
  /\ s \in scan["special"]
  /\ WriteDesired(s, "sleeping")
  /\ UNCHANGED <<task, pods, scan>>

\* HealthSweeper after the second miss: MarkError moves a running row only.
MarkError(s) ==
  /\ s \in scan["health"]
  /\ row' = IF row[s].state = "running"
            THEN [row EXCEPT ![s] =
                    [state |-> "error", desired |-> @.desired, due |-> @.due,
                     attempts |-> @.attempts, recovery |-> @.recovery,
                     holder |-> None, expired |-> FALSE]]
            ELSE row
  /\ Deselect("health", s)
  /\ UNCHANGED <<task, pods, asked>>

\* The VM answers after all, or the sweeping pod dies with its list.
DropSelection(k, s) ==
  /\ s \in scan[k]
  /\ Deselect(k, s)
  /\ UNCHANGED <<row, task, pods, asked>>

\* RecoveryChecker: retry an error row while its recovery budget lasts.  Only
\* this checker raises the counter, so its scan cannot overrun the bound.

\* Mutants: one recovery too many, and a recovery that is not counted.
RecoveryLeftOffByOne(s) == row[s].recovery <= MaxRecovery
AutoRecoverUncounted(s) ==
  /\ row[s].recovery < MaxRecovery
  /\ Reenter(s, row[s].recovery)
  /\ UNCHANGED <<task, pods, scan>>

RecoveryLeft(s) == row[s].recovery < MaxRecovery

AutoRecover(s) ==
  /\ RecoveryLeft(s)
  /\ Reenter(s, row[s].recovery + 1)
  /\ UNCHANGED <<task, pods, scan>>

-----------------------------------------------------------------------------
API ==
  \E s \in Sandboxes :
    \/ InsertPending(s)
    \/ \E desired \in DesiredState : SetDesiredState(s, desired)
    \/ Recover(s)
    \/ Purge(s)
    \/ \E gone \in BOOLEAN : DirectDestroy(s, gone)

Reconciler ==
  \/ \E w \in Worker : \/ \E s \in Sandboxes : ClaimDue(w, s)
                       \/ ApplyTransition(w)
                       \/ RecordFailure(w)
                       \/ AbandonStep(w)
  \/ \E s \in Sandboxes : BackoffElapses(s) \/ LeaseExpires(s)
  \/ \E p \in Pods : StartPod(p) \/ CrashPod(p)

Checking ==
  \E s \in Sandboxes :
    \/ \E k \in Checkers : Select(k, s) \/ Sweep(k, s) \/ DropSelection(k, s)
    \/ SpecialCandidate(s)
    \/ MarkError(s)
    \/ AutoRecover(s)

Next == API \/ Reconciler \/ Checking

Spec == Init /\ [][Next]_vars

(***************************************************************************)
(* Scheduling.  The reconciler and the recovery checker tick forever, time *)
(* passes, a pod that was scheduled starts.  A step that is retried over   *)
(* and over is not abandoned every time (strong fairness): a step that     *)
(* panics on every attempt is retried forever by the code.                 *)
(***************************************************************************)
Finish(w) == ApplyTransition(w) \/ RecordFailure(w)

Fairness ==
  /\ \A p \in Pods : WF_vars(StartPod(p))
  /\ \A s \in Sandboxes :
       /\ SF_vars(\E w \in Worker : ClaimDue(w, s))
       /\ SF_vars(\E w \in Worker : Works(w, s) /\ ~ task[w].stale /\ Finish(w))
       /\ WF_vars(BackoffElapses(s))
       /\ WF_vars(LeaseExpires(s))
       /\ WF_vars(AutoRecover(s))
  /\ \A w \in Worker : WF_vars(Finish(w) \/ AbandonStep(w))

FairSpec == Spec /\ Fairness

-----------------------------------------------------------------------------
(* Properties.                                                             *)

\* One sandbox is never stepped by two workers at once: the executor's calls
\* for a row do not overlap (the reason a claim stamps a lease).
OneStepperPerRow ==
  \A v, w \in Worker : Busy(v) /\ Busy(w) /\ task[v].sandbox = task[w].sandbox => v = w

\* A worker whose row was claimed or destroyed again under it changes nothing
\* when its step ends: the write-back is refused with ErrLeaseLost.
StaleResultDiscarded ==
  [][\A w \in Worker : task[w].stale /\ task'[w] # task[w] => row' = row]_vars

\* SetDesiredState, ApplyTransition: a request that took effect is lost in one way
\* only.  A later write that meets the row converging or in error redirects nothing
\* by itself, but it stays in the desired column, and a recovery then follows it, be
\* it a stale sweep's over an accepted termination.  Otherwise the row comes to
\* rest only where the request wanted it, through retries, crashes, takeovers, late
\* results and recoveries; and until such a write it goes on desiring that.
IntentHonoured ==
  \A s \in Sandboxes :
    row[s].state \in Stored =>
      /\ asked[s].over # "recovered" /\ row[s].state \in Quiescent \cup {"terminated"}
           => row[s].state = asked[s].want
      /\ asked[s].over = "no" => row[s].desired = asked[s].want

\* A row that is converging has attempts left before it becomes an error, so one
\* transient failure does not cost it its budget.  Termination is the exception:
\* SetDesiredState and the direct destroy leave reconcile_attempts as they were.
RetryBudget ==
  \A s \in Sandboxes :
    row[s].state \in Claimable \ {"terminating"} => row[s].attempts < MaxAttempts

\* What the public API shows moves only along the edges SandboxPromise allows.
shown == [s \in Sandboxes |-> PublicState(row[s].state)]
Promise == INSTANCE SandboxPromise WITH label <- shown
KeepsPromise == Promise!Spec

\* The rows as their executor sees them: who has each in hand.
stateOf   == [s \in Sandboxes |-> row[s].state]
desiredOf == [s \in Sandboxes |-> row[s].desired]
stepperOf ==
  [s \in Sandboxes |->
     IF \E w \in Worker : Works(w, s)
     THEN LET w == CHOOSE w \in Worker : Works(w, s)
          IN [pod |-> Pod(w), desired |-> task[w].desired]
     ELSE [pod |-> None, desired |-> "running"]]
Stepping == INSTANCE SandboxStepping
              WITH state <- stateOf, desired <- desiredOf, stepper <- stepperOf

\* While steps end before their lease does, the claims, the guard of the write-back
\* and the takeovers amount to this: a row has one worker at a time, nobody moves it
\* under that worker, and the row gets the worker's result or stays as it was.
SteppedAlone == Stepping!Spec

\* Every convergence ends, at rest or in error, whatever crashes, fails or
\* expires: no row is left in a state that only a step can leave.
ConvergenceEnds ==
  \A s \in Sandboxes : row[s].state \in Claimable ~> row[s].state \notin Claimable

\* Left alone, a sandbox that keeps failing is not retried forever: once nobody
\* asks anything new of it and only the recovery checker takes it out of error,
\* it comes to rest or stays in error.
LeftAlone(s) ==
  /\ asked'[s] = asked[s]
  /\ row[s].state = "error" /\ row'[s].state # "error" => AutoRecover(s)

RetriesEnd ==
  \A s \in Sandboxes : <>[][LeftAlone(s)]_vars => <>[](row[s].state \notin Claimable)

(* What the source says and the code does not do.                          *)

\* SetDesiredState: without its advance a stopped row "would stay in
\* lifecycle_state='running' forever and the user's action would silently
\* never apply"; so a running row that should not run does not stay so.
NotStranded ==
  \A s \in Sandboxes :
    row[s].state = "running" /\ row[s].desired # "running"
      ~> ~ (row[s].state = "running" /\ row[s].desired # "running")
=============================================================================

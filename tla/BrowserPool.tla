---------------------------- MODULE BrowserPool -----------------------------
(***************************************************************************)
(* The pool of browser pods of one gateway process: leases, the calls that *)
(* make and end them, the reaper, Close, and what a dead process leaves.   *)
(*                                                                         *)
(* A call is a goroutine in EnsureBrowser or Release.  It takes the mutex  *)
(* for one look at the maps and gives it back before every call to         *)
(* Kubernetes, to Chromium or to the database, so an action is either one  *)
(* critical section or one outcome of such a call.  Two calls for one      *)
(* session never work side by side: the second waits for the channel the   *)
(* first one closes.                                                       *)
(*                                                                         *)
(* Time is abstracted: a plan deadline passes, and an idle pod outlives    *)
(* its TTL, whenever the model says so.  All pods have the same settings.  *)
(***************************************************************************)
EXTENDS Integers, FiniteSets

CONSTANTS
  Sessions,
  TenantOf(_),   \* the tenant of a session
  Calls,         \* goroutines that call the pool
  Reaper,        \* the goroutine of runReaper
  Names,         \* pod names; the code draws a new one for every pod
  MaxPods,       \* Config.MaxPodsTotal
  MaxIdle,       \* Config.MaxIdlePerTenant
  Limit,         \* TenantLimits.MaxConcurrent
  None,
  MaxRestarts    \* bound: how often the process is started again

ASSUME BrowserPoolAssumption ==
  /\ None \notin Names \cup Sessions \cup Calls \cup {Reaper}
  /\ Reaper \notin Calls
  /\ IsFiniteSet(Names) /\ IsFiniteSet(Sessions) /\ IsFiniteSet(Calls)
  /\ MaxPods \in Nat /\ MaxIdle \in Nat /\ Limit \in Nat /\ MaxRestarts \in Nat

VARIABLES
  alive,      \* per name: "no", "mine", or "orphan", a pod of an earlier process
  pods,       \* the pods the process knows, p.pods, each with the sessions that
              \* left something in its Chromium
  lease,      \* p.leases, and
  late,       \* the sessions whose lease the reaper saw past its deadline
  ensures,    \* the call that is making a session's lease
  releases,   \* the call that is ending it
  pending,    \* p.pendingCreates
  closing,    \* how far Close is
  task,       \* where each goroutine is
  reap,       \* what a tick of the reaper still has to do
  window,     \* sessions with an open row in browser_usage_windows
  restarts

leases  == <<lease, late>>
flight  == <<ensures, releases>>
vars == <<alive, pods, leases, flight, pending, closing, task, reap, window, restarts>>

Actors  == Calls \cup {Reaper}
Tenants == {TenantOf(s) : s \in Sessions}

PodState == {"none", "idle", "binding", "bound", "resetting", "deleting"}
Pod      == [state: PodState, tenant: Tenants \cup {None}, session: Sessions \cup {None},
             dirt: SUBSET Sessions]
NoPod    == [state |-> "none", tenant |-> None, session |-> None, dirt |-> {}]
\* Nothing is read any more of a pod that is to be deleted.
Doomed   == [state |-> "deleting", tenant |-> None, session |-> None, dirt |-> {}]

Stage == {"none", "loop", "await_ensure", "await_release", "provision", "meter", "publish",
          "unmeter", "finish", "reset", "delete", "complete"}
Task   == [op: {"none", "ensure", "release"}, at: Stage, session: Sessions \cup {None},
           pod: Names \cup {None}, todo: SUBSET Names]
NoTask == [op |-> "none", at |-> "none", session |-> None, pod |-> None, todo |-> {}]
NoTick == [on |-> FALSE, expired |-> {}, delete |-> {}]

TypeOK ==
  /\ alive    \in [Names -> {"no", "mine", "orphan"}]
  /\ pods     \in [Names -> Pod]
  /\ lease    \in [Sessions -> Names \cup {None}]
  /\ late     \in SUBSET Sessions
  /\ ensures  \in [Sessions -> Actors \cup {None}]
  /\ releases \in [Sessions -> Actors \cup {None}]
  /\ pending  \in Nat
  /\ closing  \in {"open", "closed", "done"}
  /\ task     \in [Actors -> Task]
  /\ reap     \in [on: BOOLEAN, expired: SUBSET Sessions, delete: SUBSET Names]
  /\ window   \in SUBSET Sessions
  /\ restarts \in 0..MaxRestarts

Init ==
  /\ alive    = [n \in Names |-> "no"]
  /\ pods     = [n \in Names |-> NoPod]
  /\ lease    = [s \in Sessions |-> None]
  /\ late     = {}
  /\ ensures  = [s \in Sessions |-> None]
  /\ releases = [s \in Sessions |-> None]
  /\ pending  = 0
  /\ closing  = "open"
  /\ task     = [c \in Actors |-> NoTask]
  /\ reap     = NoTick
  /\ window   = {}
  /\ restarts = 0

-----------------------------------------------------------------------------
(* Pieces.                                                                 *)

At(c, op, stage) == task[c].op = op /\ task[c].at = stage
Session(c) == task[c].session
PodOf(c)   == task[c].pod

\* The next stage of a call, with the pod it has in hand and those it must delete.
GotoWith(c, stage, pod, names) ==
  task' = [task EXCEPT ![c] = [op |-> @.op, at |-> stage, session |-> @.session,
                               pod |-> pod, todo |-> names]]

Goto(c, stage)       == GotoWith(c, stage, PodOf(c), {})
GotoDelete(c, names) ==
  GotoWith(c, IF names = {} THEN "complete" ELSE "delete", None, names)
Return(c)            == task' = [task EXCEPT ![c] = NoTask]

Tracked == {n \in Names : pods[n].state # "none"}
InState(state) == {n \in Names : pods[n].state = state}

\* A provisioned pod is in the hands of its call until Publish tracks it; the
\* call holds one of pendingCreates for it.
Reserves(c) ==
  \/ At(c, "ensure", "provision")
  \/ task[c].at \in {"meter", "publish"} /\ pods[PodOf(c)].state = "none"

\* Mutant of Unreserved: a reused pod gives back a slot it never took.
UnreservedAlways(c) == pending - 1

Unreserved(c) == IF Reserves(c) THEN pending - 1 ELSE pending

\* Mutant of Quarantined: a pod that was never tracked is not tracked now.
QuarantinedIfTracked(c) == [pods EXCEPT ![PodOf(c)] = IF @.state = "none" THEN @ ELSE Doomed]

\* quarantineAndDelete and its like: no longer selected, but tracked.
Quarantined(c) == [pods EXCEPT ![PodOf(c)] = Doomed]

\* Mutant of LimitReached: only finished leases count.
LimitReachedByLeases(t) ==
  Cardinality({s \in Sessions : TenantOf(s) = t /\ lease[s] # None}) >= Limit

\* tenantAllocationCountLocked counts a session twice between Publish and Complete.
LimitReached(t) ==
  Cardinality({s \in Sessions : TenantOf(s) = t /\ lease[s] # None})
    + Cardinality({s \in Sessions : TenantOf(s) = t /\ ensures[s] # None}) >= Limit

\* Mutant of Full: one more.
FullOffByOne == Cardinality(Tracked) + pending > MaxPods

Full == Cardinality(Tracked) + pending >= MaxPods

\* idlePodsToTrim: what is over the tenant's share, and what outlived its TTL.
Trims(known, names) ==
  /\ names \subseteq {n \in Names : known[n].state = "idle"}
  /\ \A t \in Tenants :
       Cardinality({n \in Names \ names : known[n].state = "idle" /\ known[n].tenant = t})
         <= MaxIdle
MarkDeleting(known, names) ==
  [n \in Names |-> IF n \in names THEN Doomed ELSE known[n]]

\* randomPodName: no pod of that name is left anywhere.
Fresh ==
  {n \in Names : /\ alive[n] = "no" /\ pods[n].state = "none" /\ n \notin reap.delete
                 /\ \A c \in Actors : task[c].pod # n /\ n \notin task[c].todo}

\* Mutant of MustWait: a release in flight is not waited for.
MustWaitForEnsure(s) == ensures[s] # None

MustWait(s) == ensures[s] # None \/ releases[s] # None

-----------------------------------------------------------------------------
(* EnsureBrowser and Release: entry, and the loop at the top of each.      *)

Entered(op, s) == [op |-> op, at |-> "loop", session |-> s, pod |-> None, todo |-> {}]

\* beginOperation.
Begin(c, op, s) ==
  /\ closing = "open"
  /\ task[c] = NoTask
  /\ task' = [task EXCEPT ![c] = Entered(op, s)]
  /\ UNCHANGED <<alive, pods, leases, flight, pending, closing, reap, window, restarts>>

\* EnsureBrowser returns the lease there is.
FindLease(c) ==
  /\ At(c, "ensure", "loop")
  /\ lease[Session(c)] # None
  /\ Return(c)
  /\ UNCHANGED <<alive, pods, leases, flight, pending, closing, reap, window, restarts>>

\* Either waits for the other, and for its own kind.
Await(c) ==
  /\ task[c].at = "loop"
  /\ MustWait(Session(c))
  /\ task[c].op = "ensure" => lease[Session(c)] = None
  /\ Goto(c, IF releases[Session(c)] # None THEN "await_release" ELSE "await_ensure")
  /\ UNCHANGED <<alive, pods, leases, flight, pending, closing, reap, window, restarts>>

\* waitForSignal: the caller's context ends first.
CancelWait(c) ==
  /\ task[c].at \in {"await_ensure", "await_release"}
  /\ Return(c)
  /\ UNCHANGED <<alive, pods, leases, flight, pending, closing, reap, window, restarts>>

Unleased(c) ==
  At(c, "ensure", "loop") /\ lease[Session(c)] = None /\ ~ MustWait(Session(c))

RefuseLimit(c) ==
  /\ Unleased(c)
  /\ LimitReached(TenantOf(Session(c)))
  /\ Return(c)
  /\ UNCHANGED <<alive, pods, leases, flight, pending, closing, reap, window, restarts>>

\* Mutant of IdleOf: a pod that is being reset is taken too.
UnboundOf(t) == {n \in InState("idle") \cup InState("resetting") : pods[n].tenant = t}

IdleOf(t) == {n \in InState("idle") : pods[n].tenant = t}

\* The call is registered, and takes an idle pod of its tenant, ...
Reuse(c) ==
  /\ Unleased(c)
  /\ ~ LimitReached(TenantOf(Session(c)))
  /\ \E n \in IdleOf(TenantOf(Session(c))) :
       /\ pods' = [pods EXCEPT ![n] = [state |-> "binding", tenant |-> @.tenant,
                                       session |-> Session(c), dirt |-> @.dirt]]
       /\ GotoWith(c, "meter", n, {})
  /\ ensures' = [ensures EXCEPT ![Session(c)] = c]
  /\ UNCHANGED <<alive, leases, releases, pending, closing, reap, window, restarts>>

\* ... a slot for a new one, or nothing.
Create(c) ==
  /\ Unleased(c)
  /\ ~ LimitReached(TenantOf(Session(c)))
  /\ IdleOf(TenantOf(Session(c))) = {}
  /\ ensures' = [ensures EXCEPT ![Session(c)] = c]
  /\ IF Full THEN Goto(c, "complete") /\ UNCHANGED pending
             ELSE Goto(c, "provision") /\ pending' = pending + 1
  /\ UNCHANGED <<alive, pods, leases, releases, closing, reap, window, restarts>>

\* Release of a session without a lease.
NothingToRelease(c) ==
  /\ At(c, "release", "loop")
  /\ ~ MustWait(Session(c))
  /\ lease[Session(c)] = None
  /\ Return(c)
  /\ UNCHANGED <<alive, pods, leases, flight, pending, closing, reap, window, restarts>>

BoundTo(s, n) == pods[n].state = "bound" /\ pods[n].session = s

\* The lease is taken from the session; "inconsistent pod state" drops it too.
BeginRelease(c) ==
  /\ At(c, "release", "loop")
  /\ LET s == Session(c)
         n == lease[s]
     IN /\ ~ MustWait(s)
        /\ n # None
        /\ lease' = [lease EXCEPT ![s] = None]
        /\ late'  = late \ {s}
        /\ IF BoundTo(s, n)
           THEN /\ releases' = [releases EXCEPT ![s] = c]
                /\ pods' = [pods EXCEPT ![n].state = "resetting"]
                /\ GotoWith(c, "finish", n, {})
           ELSE Return(c) /\ UNCHANGED <<releases, pods>>
  /\ UNCHANGED <<alive, ensures, pending, closing, reap, window, restarts>>

-----------------------------------------------------------------------------
(* The rest of EnsureBrowser.                                              *)

Provision(c) ==
  /\ At(c, "ensure", "provision")
  /\ \E n \in Fresh :
       /\ alive' = [alive EXCEPT ![n] = "mine"]
       /\ GotoWith(c, "meter", n, {})
  /\ UNCHANGED <<pods, leases, flight, pending, closing, reap, window, restarts>>

\* With an error comes the name of the pod that may be there, so that it is
\* deleted, or none if no name was found.
ProvisionFails(c) ==
  /\ At(c, "ensure", "provision")
  /\ pending' = pending - 1
  /\ \/ Goto(c, "complete") /\ UNCHANGED <<alive, pods>>
     \/ \E n \in Fresh :
          /\ alive' \in {alive, [alive EXCEPT ![n] = "mine"]}
          /\ pods'  = [pods EXCEPT ![n] = Doomed]
          /\ GotoDelete(c, {n})
  /\ UNCHANGED <<leases, flight, closing, reap, window, restarts>>

\* startUsage, after prepare for a reused pod.
StartUsage(c) ==
  /\ At(c, "ensure", "meter")
  /\ window' = window \cup {Session(c)}
  /\ Goto(c, "publish")
  /\ UNCHANGED <<alive, pods, leases, flight, pending, closing, reap, restarts>>

\* Either of them fails; the row may have been inserted all the same.
StartUsageFails(c) ==
  /\ At(c, "ensure", "meter")
  /\ window' \in {window, window \cup {Session(c)}}
  /\ pods' = Quarantined(c)
  /\ pending' = Unreserved(c)
  /\ GotoDelete(c, {PodOf(c)})
  /\ UNCHANGED <<alive, leases, flight, closing, reap, restarts>>

\* The lease is there for all to see, unless the pool was closed meanwhile.
Publish(c) ==
  /\ At(c, "ensure", "publish")
  /\ pending' = Unreserved(c)
  /\ IF closing = "open"
     THEN /\ pods'  = [pods EXCEPT ![PodOf(c)] =
                         [state |-> "bound", tenant |-> TenantOf(Session(c)),
                          session |-> Session(c), dirt |-> @.dirt]]
          /\ lease' = [lease EXCEPT ![Session(c)] = PodOf(c)]
          /\ late'  = late \ {Session(c)}
          /\ GotoDelete(c, {})
     ELSE /\ pods' = Quarantined(c)
          /\ Goto(c, "unmeter")
          /\ UNCHANGED leases
  /\ UNCHANGED <<alive, flight, closing, reap, window, restarts>>

\* finishUsage with the context that Close has just cancelled.
Unmeter(c) ==
  /\ At(c, "ensure", "unmeter")
  /\ window' \in {window, window \ {Session(c)}}
  /\ GotoDelete(c, {PodOf(c)})
  /\ UNCHANGED <<alive, pods, leases, flight, pending, closing, reap, restarts>>

-----------------------------------------------------------------------------
(* The rest of Release.                                                    *)

FinishUsage(c) ==
  /\ At(c, "release", "finish")
  /\ window' \in {window, window \ {Session(c)}}
  /\ Goto(c, "reset")
  /\ UNCHANGED <<alive, pods, leases, flight, pending, closing, reap, restarts>>

\* Mutant of Cleaned: a pod goes back to the others although its reset failed.
CleanedOrNot(n) == {{}, pods[n].dirt}

\* resetDefaultBrowserContext, which verifies what it has done.
Cleaned(n) == {{}}

\* releasePod: idle, or deleting if the pool is closed, and the idle pods trimmed.
Reset(c) ==
  /\ At(c, "release", "reset")
  /\ \E clean \in Cleaned(PodOf(c)), names \in SUBSET Names :
       LET known == [pods EXCEPT ![PodOf(c)] =
                       IF closing = "open"
                       THEN [state |-> "idle", tenant |-> @.tenant, session |-> None,
                             dirt |-> clean]
                       ELSE Doomed]
       IN /\ Trims(known, names)
          /\ pods' = MarkDeleting(known, names)
          /\ GotoDelete(c, names)
  /\ UNCHANGED <<alive, leases, flight, pending, closing, reap, window, restarts>>

\* An error or a panic of the reset, or the session label cannot be cleared.
ResetFails(c) ==
  /\ At(c, "release", "reset")
  /\ pods' = Quarantined(c)
  /\ GotoDelete(c, {PodOf(c)})
  /\ UNCHANGED <<alive, leases, flight, pending, closing, reap, window, restarts>>

-----------------------------------------------------------------------------
(* deleteTrackedPod, and the end of a call.                                *)

\* A pod that cannot be deleted stays tracked.  One that is gone is no error.
Deletion(n) ==
  \/ /\ alive' = [alive EXCEPT ![n] = "no"]
     /\ pods'  = [pods EXCEPT ![n] = NoPod]
  \/ UNCHANGED <<alive, pods>>

DeletePod(c) ==
  /\ task[c].at = "delete"
  /\ \E n \in task[c].todo :
       /\ Deletion(n)
       /\ GotoDelete(c, task[c].todo \ {n})
  /\ UNCHANGED <<leases, flight, pending, closing, reap, window, restarts>>

Channel(op) == IF op = "ensure" THEN "await_ensure" ELSE "await_release"

\* Mutant of Woken: who waits for its own kind is forgotten.
WokenOther(d, op, s) ==
  IF task[d].session = s /\ task[d].at = Channel(op) /\ task[d].op # op
  THEN [task[d] EXCEPT !.at = "loop"] ELSE task[d]

\* The channel of the call is closed: a call of the same kind returns its result,
\* one of the other kind looks again.
Woken(d, op, s) ==
  IF task[d].session # s \/ task[d].at # Channel(op) THEN task[d]
  ELSE IF task[d].op = op THEN NoTask ELSE [task[d] EXCEPT !.at = "loop"]

\* completeEnsure and completeRelease.
Complete(c) ==
  /\ task[c].at = "complete"
  /\ LET s == Session(c)
     IN /\ IF task[c].op = "ensure"
           THEN ensures'  = [ensures EXCEPT ![s] = None]  /\ UNCHANGED releases
           ELSE releases' = [releases EXCEPT ![s] = None] /\ UNCHANGED ensures
        /\ task' = [d \in Actors |-> IF d = c THEN NoTask ELSE Woken(d, task[c].op, s)]
  /\ UNCHANGED <<alive, pods, leases, pending, closing, reap, window, restarts>>

-----------------------------------------------------------------------------
(* The reaper.                                                             *)

\* reap, under the mutex: what it will do in this tick.  Plan deadlines may have
\* passed since the last one.
Tick ==
  /\ closing = "open"
  /\ ~ reap.on
  /\ \E names \in SUBSET Names, passed \in SUBSET {s \in Sessions : lease[s] # None} :
       /\ Trims(pods, names)
       /\ pods' = MarkDeleting(pods, names)
       /\ late' = late \cup passed
       /\ reap' = [on |-> TRUE, delete |-> names \cup InState("deleting"),
                   expired |-> late \cup passed]
  /\ UNCHANGED <<alive, lease, flight, pending, closing, task, window, restarts>>

\* The sessions past their deadline, one release after the other.
ReapExpired(s) ==
  /\ reap.on /\ task[Reaper] = NoTask
  /\ s \in reap.expired
  /\ reap' = [reap EXCEPT !.expired = @ \ {s}]
  /\ task' = IF closing = "open"
             THEN [task EXCEPT ![Reaper] = Entered("release", s)]
             ELSE task
  /\ UNCHANGED <<alive, pods, leases, flight, pending, closing, window, restarts>>

ReapPod(n) ==
  /\ reap.on /\ task[Reaper] = NoTask
  /\ reap.expired = {}
  /\ n \in reap.delete
  /\ Deletion(n)
  /\ reap' = [reap EXCEPT !.delete = @ \ {n}]
  /\ UNCHANGED <<leases, flight, pending, closing, task, window, restarts>>

\* reapClusterOrphans: those whose heartbeats have stopped for long enough.
ReapOrphans ==
  /\ reap.on /\ task[Reaper] = NoTask
  /\ reap.expired = {} /\ reap.delete = {}
  /\ \E gone \in SUBSET {n \in Names : alive[n] = "orphan"} :
       alive' = [n \in Names |-> IF n \in gone THEN "no" ELSE alive[n]]
  /\ reap' = NoTick
  /\ UNCHANGED <<pods, leases, flight, pending, closing, task, window, restarts>>

-----------------------------------------------------------------------------
(* Close, the end of the process, and the world.                           *)

Close ==
  /\ closing = "open"
  /\ closing' = "closed"
  /\ UNCHANGED <<alive, pods, leases, flight, pending, task, reap, window, restarts>>

\* After operations.Wait and reaperDone.Wait: windows, then pods, one try each.
CloseAll ==
  /\ closing = "closed"
  /\ ~ reap.on /\ \A c \in Actors : task[c] = NoTask
  /\ \E kept \in SUBSET {s \in Sessions : lease[s] # None}, left \in SUBSET Tracked :
       /\ window' = {s \in window : lease[s] # None => s \in kept}
       /\ alive'  = [n \in Names |-> IF n \in Tracked \ left THEN "no" ELSE alive[n]]
       /\ pods'   = [n \in Names |-> IF n \in left THEN pods[n] ELSE NoPod]
  /\ closing' = "done"
  /\ UNCHANGED <<leases, flight, pending, task, reap, restarts>>

\* The process ends, at any time, and is started again; RecoverStale closes the
\* windows if it was away for longer than LeaseTTL.
Restart ==
  /\ restarts < MaxRestarts
  /\ restarts' = restarts + 1
  /\ alive'    = [n \in Names |-> IF alive[n] = "mine" THEN "orphan" ELSE alive[n]]
  /\ pods'     = [n \in Names |-> NoPod]
  /\ lease'    = [s \in Sessions |-> None]
  /\ late'     = {}
  /\ ensures'  = [s \in Sessions |-> None]
  /\ releases' = [s \in Sessions |-> None]
  /\ pending'  = 0
  /\ closing'  = "open"
  /\ task'     = [c \in Actors |-> NoTask]
  /\ reap'     = NoTick
  /\ window'  \in {window, {}}

\* The session works in the browser it was leased.
Browse(s) ==
  /\ lease[s] # None
  /\ closing # "done"
  /\ pods' = [pods EXCEPT ![lease[s]].dirt = @ \cup {s}]
  /\ UNCHANGED <<alive, leases, flight, pending, closing, task, reap, window, restarts>>

-----------------------------------------------------------------------------
\* What a goroutine does next, when it is not waiting for another.
Proceed(c) ==
  \/ FindLease(c) \/ Await(c) \/ RefuseLimit(c) \/ Reuse(c) \/ Create(c)
  \/ NothingToRelease(c) \/ BeginRelease(c)
  \/ Provision(c) \/ ProvisionFails(c) \/ StartUsage(c) \/ StartUsageFails(c)
  \/ Publish(c) \/ Unmeter(c)
  \/ FinishUsage(c) \/ Reset(c) \/ ResetFails(c) \/ DeletePod(c) \/ Complete(c)

ReaperGoesOn ==
  Tick \/ (\E s \in Sessions : ReapExpired(s)) \/ (\E n \in Names : ReapPod(n)) \/ ReapOrphans

Next ==
  \/ \E c \in Calls, op \in {"ensure", "release"}, s \in Sessions : Begin(c, op, s)
  \/ \E c \in Actors : Proceed(c) \/ CancelWait(c)
  \/ ReaperGoesOn
  \/ Close \/ CloseAll \/ Restart
  \/ \E s \in Sessions : Browse(s)

Spec == Init /\ [][Next]_vars

-----------------------------------------------------------------------------
(* Properties.                                                             *)

\* Release: a lease is one of a bound pod that belongs to its session alone, so
\* the branch "inconsistent pod state" is never taken.
LeasesAreBound ==
  closing # "done" => \A s \in Sessions : lease[s] # None => BoundTo(s, lease[s])

\* releasePod, bindIdlePod: what a session did in a browser it leased is not there
\* when another session is given that browser, through failed resets, failed
\* deletions and reuse.
CleanHandover ==
  \A n \in Names : pods[n].state \in {"idle", "binding", "bound"} =>
                     pods[n].dirt \subseteq {pods[n].session}

\* ensureBrowser, provisionPod: tracked pods and creations in flight stay within
\* MaxPodsTotal, and pendingCreates is what the calls in flight hold, so that no
\* error path leaks a slot.
CapacityKept ==
  /\ Cardinality(Tracked) + pending <= MaxPods
  /\ pending = Cardinality({c \in Actors : Reserves(c)})

\* ensureBrowser: leases, and the calls that are about to be leases, stay within
\* the tenant's plan.
LimitKept ==
  \A t \in Tenants :
    Cardinality({s \in Sessions : TenantOf(s) = t /\ (lease[s] # None \/ ensures[s] # None)})
      <= Limit

\* "New leases fail closed if a billable window cannot be persisted": no release,
\* retry or call that failed closes the window of a lease that is in use.
LeasedIsMetered == closing # "done" => \A s \in Sessions : lease[s] # None => s \in window

\* Every pod the process made is one it knows of or one a call has in hand, until
\* Close has tried to delete it.
NothingLeaks ==
  \A n \in Names : alive[n] = "mine" =>
    \/ n \in Tracked
    \/ \E c \in Actors : PodOf(c) = n /\ task[c].at \in {"meter", "publish"}

Works(c, op, s) ==
  /\ task[c].op = op /\ task[c].session = s
  /\ task[c].at \notin {"none", "loop", "await_ensure", "await_release"}

\* waitForSignal: whoever waits, waits for a call that is at work on that session
\* and waits for nobody: no wakeup is lost and no two calls wait for each other.
WaitsAreForWork ==
  \A s \in Sessions :
    /\ \A c \in Actors : Session(c) = s =>
         /\ task[c].at = "await_ensure"  => ensures[s] # None
         /\ task[c].at = "await_release" => releases[s] # None
    /\ ensures[s] # None  => Works(ensures[s], "ensure", s)
    /\ releases[s] # None => Works(releases[s], "release", s)
=============================================================================

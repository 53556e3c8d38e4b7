------------------------- MODULE BrowserPoolProofs --------------------------
(* Proofs about BrowserPool.                                               *)
EXTENDS BrowserPool, FiniteSetTheorems, TLAPS

Waiting == {"await_ensure", "await_release"}
\* The stages at which a call has not registered itself for its session.
Outside == {"none", "loop"} \cup Waiting
\* The stages at which a call has a pod in hand, and those of them at which nobody
\* else may touch it.
Handling == {"meter", "publish", "unmeter", "finish", "reset"}
Keeping  == Handling \ {"unmeter"}
Making   == {"provision", "meter", "publish", "unmeter"}
Ending   == {"finish", "reset"}

\* What a goroutine is doing fits together.
TaskInOrder(c) ==
  /\ task[c].op = "none" => task[c] = NoTask
  /\ task[c].op # "none" => task[c].at # "none" /\ Session(c) \in Sessions
  /\ task[c].at \in Making => task[c].op = "ensure"
  /\ task[c].at \in Ending => task[c].op = "release"
  /\ (PodOf(c) # None) <=> (task[c].at \in Handling)
  /\ task[c].at # "delete" => task[c].todo = {}

\* The calls at work are the registered ones, and no other.
Registered(c) ==
  /\ Works(c, "ensure", Session(c))  => ensures[Session(c)] = c
  /\ Works(c, "release", Session(c)) => releases[Session(c)] = c
SessionInOrder(s) ==
  /\ ensures[s] # None  => Works(ensures[s], "ensure", s) /\ releases[s] = None
  /\ releases[s] # None => Works(releases[s], "release", s) /\ lease[s] = None

\* Whoever waits, waits for a registered call.
WaitsForCall(c) ==
  /\ task[c].at = "await_ensure"  => ensures[Session(c)] # None
  /\ task[c].at = "await_release" => releases[Session(c)] # None

\* A lease in the making is not there yet, and is metered before it is.
LeaseToCome(c) ==
  /\ task[c].at \in Making => lease[Session(c)] = None
  /\ task[c].at = "publish" => Session(c) \in window

\* After Close nothing moves.
AtRest == closing = "done" => (~ reap.on /\ \A c \in Actors : task[c] = NoTask)

CallsInv ==
  /\ \A c \in Actors : TaskInOrder(c) /\ Registered(c) /\ WaitsForCall(c) /\ LeaseToCome(c)
  /\ \A s \in Sessions : SessionInOrder(s)
  /\ AtRest

Keeps(c, n) == task[c].at \in Keeping /\ PodOf(c) = n

\* The pod a call keeps is new, or its session's, and nobody else's.
PodKept(c) ==
  /\ task[c].at \in {"meter", "publish"} =>
       \/ pods[PodOf(c)].state = "none"
       \/ pods[PodOf(c)].state = "binding" /\ pods[PodOf(c)].session = Session(c)
  /\ task[c].at \in Ending =>
       pods[PodOf(c)].state = "resetting" /\ pods[PodOf(c)].session = Session(c)
OnePodEach == \A c, d \in Actors : \A n \in Names : Keeps(c, n) /\ Keeps(d, n) => c = d

\* A pod that somebody is to delete is of no use to anybody.
Discarded(n) ==
  /\ pods[n].state \in {"none", "deleting"}
  /\ \A c \in Actors : ~ Keeps(c, n)
Discards(c) ==
  /\ \A n \in task[c].todo : Discarded(n)
  /\ task[c].at = "unmeter" => Discarded(PodOf(c))

\* What is left in the browser of a pod.
PodInOrder(n) ==
  /\ pods[n].state = "none" => pods[n] = NoPod
  /\ pods[n].state \in {"idle", "binding"} => pods[n].dirt = {}
  /\ pods[n].state = "bound" => pods[n].dirt \subseteq {pods[n].session}

PodsInv ==
  /\ \A c \in Actors : PodKept(c) /\ Discards(c)
  /\ OnePodEach
  /\ \A n \in reap.delete : Discarded(n)
  /\ \A n \in Names : PodInOrder(n)
  /\ LeasesAreBound
  /\ NothingLeaks

\* The inductive invariant: calls and registrations, pods and who has them, and
\* the counts.
PoolInv == TypeOK /\ CallsInv /\ PodsInv /\ LeasedIsMetered /\ CapacityKept /\ LimitKept

-----------------------------------------------------------------------------
(* Facts about the pieces.                                                 *)

USE DEF leases, flight

LEMMA Distinct ==
  /\ \A c \in Actors : c # None
  /\ \A n \in Names : n # None
  /\ \A s \in Sessions : s # None /\ TenantOf(s) \in Tenants
BY BrowserPoolAssumption DEF Actors, Tenants

\* A call that is not at rest is in a pool that is not closed for good.
LEMMA ActiveIsOpen ==
  ASSUME CallsInv, NEW c \in Actors, task[c].op # "none" \/ task[c].at # "none"
  PROVE  closing # "done" /\ task[c].op # "none" /\ task[c].at # "none" /\ Session(c) \in Sessions
BY DEF CallsInv, AtRest, NoTask, TaskInOrder

\* A call goes from one stage of its work to the next.
Advances(c, stage, pod, names) ==
  /\ GotoWith(c, stage, pod, names)
  /\ task[c].at \notin Outside
  /\ stage \in Stage \ Outside
  /\ stage \in Making => task[c].op = "ensure" /\ lease[Session(c)] = None
  /\ stage \in Ending => task[c].op = "release"
  /\ (pod # None) <=> (stage \in Handling)
  /\ stage # "delete" => names = {}
  /\ UNCHANGED <<ensures, releases, closing, reap>>

\* What it does to a lease and a window is its own session's.
LEMMA AdvanceKeepsCalls ==
  ASSUME TypeOK, CallsInv, NEW c \in Actors, NEW stage, NEW pod, NEW names,
         Advances(c, stage, pod, names),
         stage \in Making => lease'[Session(c)] = None,
         stage = "publish" => Session(c) \in window',
         task[c].op = "release" => lease' = lease,
         \A s \in Sessions : s # Session(c) =>
           lease'[s] = lease[s] /\ (s \in window => s \in window')
  PROVE  CallsInv'
<1>1. closing # "done" /\ task[c].op # "none" /\ Session(c) \in Sessions
  BY ActiveIsOpen DEF Advances, Outside
<1>2. /\ task'[c] = [op |-> task[c].op, at |-> stage, session |-> Session(c),
                     pod |-> pod, todo |-> names]
      /\ \A d \in Actors : d # c => task'[d] = task[d]
  BY DEF Advances, GotoWith, TypeOK, Task, Pod, Session
<1>w. Works(c, task[c].op, Session(c)) /\ task[c].op \in {"ensure", "release"}
  BY <1>1 DEF Works, Advances, Outside, Waiting, TypeOK, Task, Pod, Session
<1>3. ASSUME NEW d \in Actors
      PROVE  TaskInOrder(d)' /\ WaitsForCall(d)'
  <2>1. CASE d = c
    BY <1>1, <1>2, <2>1 DEF TaskInOrder, WaitsForCall, Session, PodOf, Advances, Outside,
       Waiting, NoTask
  <2>2. CASE d # c
    BY <1>2, <2>2 DEF CallsInv, TaskInOrder, WaitsForCall, Session, PodOf, Advances
  <2> QED
    BY <2>1, <2>2
<1>r. ASSUME NEW d \in Actors, NEW op, NEW s
      PROVE  Works(d, op, s)' <=> Works(d, op, s)
  BY <1>2 DEF Works, Advances, Outside, Waiting, Session
<1>4. \A d \in Actors : Registered(d)'
  BY <1>1, <1>2, <1>r DEF CallsInv, Registered, Session, Advances
<1>s. \A s \in Sessions : s = Session(c) => (task[c].op = "ensure" => releases[s] = None)
  BY <1>w, Distinct DEF CallsInv, SessionInOrder, Registered
<1>5. \A s \in Sessions : SessionInOrder(s)'
  <2> SUFFICES ASSUME NEW s \in Sessions PROVE SessionInOrder(s)'
    OBVIOUS
  <2>1. releases[s] # None => lease'[s] = None
    BY <1>s, <1>w DEF CallsInv, SessionInOrder
  <2>2. /\ ensures[s] \in Actors \cup {None} /\ releases[s] \in Actors \cup {None}
        /\ ensures'[s] = ensures[s] /\ releases'[s] = releases[s]
    BY DEF TypeOK, Task, Pod, Advances
  <2>3. SessionInOrder(s)
    BY DEF CallsInv
  <2>4. ensures[s] # None => Works(ensures[s], "ensure", s)' /\ releases[s] = None
    BY <1>r, <2>2, <2>3 DEF SessionInOrder
  <2>5. releases[s] # None => Works(releases[s], "release", s)'
    BY <1>r, <2>2, <2>3 DEF SessionInOrder
  <2> QED
    BY <2>1, <2>2, <2>4, <2>5 DEF SessionInOrder
<1>6. \A d \in Actors : LeaseToCome(d)'
  <2> SUFFICES ASSUME NEW d \in Actors PROVE LeaseToCome(d)'
    OBVIOUS
  <2>1. CASE d = c
    BY <1>1, <1>2, <2>1 DEF LeaseToCome, Session
  <2>2. CASE d # c /\ task[d].at \in Making
    <3>1. task[d].op = "ensure" /\ Session(d) \in Sessions /\ ensures[Session(d)] = d
      BY <2>2 DEF CallsInv, TaskInOrder, Registered, Works, Making, Session
    <3>2. Session(d) # Session(c)
      BY <1>w, <2>2, <3>1, Distinct DEF CallsInv, SessionInOrder, Registered
    <3> QED
      BY <1>2, <2>2, <3>1, <3>2 DEF CallsInv, LeaseToCome, Session
  <2>3. CASE d # c /\ task[d].at \notin Making
    BY <1>2, <2>3 DEF LeaseToCome, Making
  <2> QED
    BY <2>1, <2>2, <2>3
<1>7. AtRest'
  BY <1>1 DEF AtRest, Advances
<1> QED
  BY <1>3, <1>4, <1>5, <1>6, <1>7 DEF CallsInv

\* A call leaves the loop and registers itself for its session.
Registers(c, stage, pod) ==
  /\ task[c].op # "none" /\ task[c].at = "loop"
  /\ ~ MustWait(Session(c))
  /\ GotoWith(c, stage, pod, {})
  /\ stage \in Stage \ (Outside \cup {"publish", "delete"})
  /\ stage \in Making => task[c].op = "ensure"
  /\ stage \in Ending => task[c].op = "release"
  /\ (pod # None) <=> (stage \in Handling)
  /\ lease' = [lease EXCEPT ![Session(c)] = None]
  /\ ensures' = IF task[c].op = "ensure" THEN [ensures EXCEPT ![Session(c)] = c] ELSE ensures
  /\ releases' = IF task[c].op = "release" THEN [releases EXCEPT ![Session(c)] = c] ELSE releases
  /\ UNCHANGED <<closing, reap, window>>

LEMMA RegisterKeepsCalls ==
  ASSUME TypeOK, CallsInv, NEW c \in Actors, NEW stage, NEW pod, Registers(c, stage, pod)
  PROVE  CallsInv'
<1>1. closing # "done" /\ Session(c) \in Sessions /\ task[c].op \in {"ensure", "release"}
  BY ActiveIsOpen DEF Registers, TypeOK, Task, Pod
<1>2. /\ task'[c] = [op |-> task[c].op, at |-> stage, session |-> Session(c),
                     pod |-> pod, todo |-> {}]
      /\ \A d \in Actors : d # c => task'[d] = task[d]
  BY DEF Registers, GotoWith, TypeOK, Task, Pod, Session
<1>3. /\ ensures[Session(c)] = None /\ releases[Session(c)] = None
      /\ ensures' \in [Sessions -> Actors \cup {None}]
      /\ releases' \in [Sessions -> Actors \cup {None}]
      /\ \A s \in Sessions : s # Session(c) =>
           /\ ensures'[s] = ensures[s] /\ releases'[s] = releases[s]
           /\ lease'[s] = lease[s]
      /\ lease'[Session(c)] = None
      /\ ensures'[Session(c)] = IF task[c].op = "ensure" THEN c ELSE None
      /\ releases'[Session(c)] = IF task[c].op = "release" THEN c ELSE None
  BY <1>1 DEF Registers, MustWait, TypeOK, Task, Pod
<1>4. \A d \in Actors, op \in {"ensure", "release"} :
        d # c /\ Works(d, op, Session(d)) => Session(d) # Session(c) /\ Session(d) \in Sessions
  BY <1>3, Distinct DEF CallsInv, Registered, TaskInOrder, Works
<1>5. ASSUME NEW d \in Actors
      PROVE  TaskInOrder(d)' /\ WaitsForCall(d)' /\ Registered(d)' /\ LeaseToCome(d)'
  <2>1. CASE d = c
    BY <1>1, <1>2, <1>3, <2>1 DEF TaskInOrder, WaitsForCall, Registered, LeaseToCome, Works,
       Session, PodOf, Registers, Outside, Waiting, NoTask
  <2>2. CASE d # c
    <3>1. TaskInOrder(d)'
      BY <1>2, <2>2 DEF CallsInv, TaskInOrder, Session, PodOf
    <3>2. WaitsForCall(d)'
      <4>1. task[d].at \in Waiting => Session(d) \in Sessions
        BY DEF CallsInv, TaskInOrder, Waiting, NoTask
      <4> QED
        BY <1>2, <1>3, <2>2, <4>1 DEF CallsInv, WaitsForCall, Waiting, Session
    <3>3. Registered(d)'
      BY <1>2, <1>3, <1>4, <2>2 DEF CallsInv, Registered, Session, Works
    <3>4. LeaseToCome(d)'
      <4>1. task[d].at \in Making =>
              task[d].op = "ensure" /\ Works(d, "ensure", Session(d))
        BY DEF CallsInv, TaskInOrder, Works, Session, Making
      <4> QED
        BY <1>2, <1>3, <1>4, <2>2, <4>1 DEF CallsInv, LeaseToCome, Session, Registers,
           Making
    <3> QED
      BY <3>1, <3>2, <3>3, <3>4
  <2> QED
    BY <2>1, <2>2
<1>6. ASSUME NEW s \in Sessions PROVE SessionInOrder(s)'
  <2>1. CASE s = Session(c)
    BY <1>1, <1>2, <1>3, <2>1, Distinct DEF SessionInOrder, Works, Registers, Outside,
       Waiting
  <2>2. CASE s # Session(c)
    <3>1. /\ ensures[s] # None => ensures[s] # c
          /\ releases[s] # None => releases[s] # c
      BY <2>2 DEF CallsInv, SessionInOrder, Works, Session
    <3>2. ensures[s] \in Actors \cup {None} /\ releases[s] \in Actors \cup {None}
      BY DEF TypeOK, Task, Pod
    <3> QED
      BY <1>2, <1>3, <2>2, <3>1, <3>2 DEF CallsInv, SessionInOrder, Works
  <2> QED
    BY <2>1, <2>2
<1>7. AtRest'
  BY <1>1 DEF AtRest, Registers
<1> QED
  BY <1>5, <1>6, <1>7 DEF CallsInv

\* A goroutine that is not at work, and does not begin to be.
Idles(c, t) ==
  /\ closing # "done"
  /\ task[c].at \in Outside /\ task' = [task EXCEPT ![c] = t]
  /\ \/ t = NoTask
     \/ /\ t \in Task /\ t.op \in {"ensure", "release"} /\ t.at \in {"loop"} \cup Waiting
        /\ t.session \in Sessions /\ t.pod = None /\ t.todo = {}
  /\ t.at = "await_ensure"  => ensures[t.session] # None
  /\ t.at = "await_release" => releases[t.session] # None
  /\ reap'.on = reap.on /\ reap'.delete = reap.delete
  /\ UNCHANGED <<alive, pods, leases, flight, pending, closing, window, restarts>>

LEMMA IdlingKeepsCalls ==
  ASSUME TypeOK, CallsInv, NEW c \in Actors, NEW t, Idles(c, t)
  PROVE  CallsInv'
<1>1. task'[c] = t /\ \A d \in Actors : d # c => task'[d] = task[d]
  BY DEF Idles, TypeOK, Task, Pod
<1>2. \A d \in Actors : \A op, s : Works(d, op, s)' <=> Works(d, op, s)
  BY <1>1 DEF Works, Idles, Outside, Waiting, NoTask
<1>3. ASSUME NEW d \in Actors
      PROVE  TaskInOrder(d)' /\ WaitsForCall(d)' /\ LeaseToCome(d)'
  <2>1. CASE d = c
    BY <1>1, <2>1 DEF TaskInOrder, WaitsForCall, LeaseToCome, Idles, Outside, Waiting,
       Making,
       Ending, Handling, NoTask, Session, PodOf
  <2>2. CASE d # c
    BY <1>1, <2>2 DEF CallsInv, TaskInOrder, WaitsForCall, LeaseToCome, Idles, Session,
       PodOf
  <2> QED
    BY <2>1, <2>2
<1>4. ASSUME NEW d \in Actors PROVE Registered(d)'
  <2>1. CASE d = c
    BY <1>1, <2>1 DEF Registered, Works, Idles, Outside, Waiting, NoTask
  <2>2. CASE d # c
    BY <1>1, <1>2, <2>2 DEF CallsInv, Registered, Idles, Session
  <2> QED
    BY <2>1, <2>2
<1>5. ASSUME NEW s \in Sessions PROVE SessionInOrder(s)'
  BY <1>2 DEF CallsInv, SessionInOrder, Idles, TypeOK, Task, Pod
<1>6. AtRest'
  BY DEF AtRest, Idles
<1> QED
  BY <1>3, <1>4, <1>5, <1>6 DEF CallsInv

\* A call ends: its session is free, and who waited for it is woken.
LEMMA CompleteKeepsCalls ==
  ASSUME TypeOK, CallsInv, NEW c \in Actors, Complete(c)
  PROVE  CallsInv'
<1> DEFINE s0 == Session(c)
           op == task[c].op
<1>1. /\ closing # "done" /\ s0 \in Sessions /\ op \in {"ensure", "release"}
      /\ Works(c, op, s0)
  BY ActiveIsOpen DEF Complete, TypeOK, Task, Pod, Works, Session
<1>2. /\ op = "ensure"  => ensures[s0] = c /\ releases[s0] = None
      /\ op = "release" => releases[s0] = c /\ ensures[s0] = None
  BY <1>1, Distinct DEF CallsInv, Registered, SessionInOrder, TypeOK, Task, Pod
<1>3. /\ ensures' \in [Sessions -> Actors \cup {None}]
      /\ releases' \in [Sessions -> Actors \cup {None}]
      /\ ensures'[s0] = None /\ releases'[s0] = None
      /\ \A s \in Sessions : s # s0 => ensures'[s] = ensures[s] /\ releases'[s] = releases[s]
  BY <1>1, <1>2 DEF Complete, TypeOK, Task, Pod
<1>4. /\ task'[c] = NoTask
      /\ \A d \in Actors : d # c => task'[d] = Woken(d, op, s0)
  BY DEF Complete
<1>5. ASSUME NEW d \in Actors, d # c, task[d].session = s0
      PROVE  task[d].at \in Outside
  BY <1>1, <1>2, <1>5, Distinct DEF CallsInv, Registered, TaskInOrder, Works, Session,
     Outside,
     Waiting, TypeOK, Task, Pod, NoTask
<1>6. ASSUME NEW d \in Actors
      PROVE  TaskInOrder(d)' /\ WaitsForCall(d)' /\ LeaseToCome(d)' /\ Registered(d)'
  <2>1. CASE d = c
    BY <1>4, <2>1 DEF TaskInOrder, WaitsForCall, LeaseToCome, Registered, Works, NoTask,
       Session,
       PodOf, Making, Ending, Handling
  <2>2. CASE d # c /\ task[d].session = s0
    <3>1. \/ task'[d] = NoTask
          \/ task'[d] = task[d] /\ task[d].at \in {"none", "loop"}
          \/ task[d].at \in Waiting /\ task'[d] = [task[d] EXCEPT !.at = "loop"]
      <4>1. task[d].at = Channel(op) \/ task[d].at \in {"none", "loop"}
        BY <1>1, <1>2, <1>5, <2>2 DEF CallsInv, WaitsForCall, Channel, Outside, Waiting,
           Session
      <4> QED
        BY <1>4, <2>2, <4>1 DEF Woken, Channel, Waiting
    <3>2. task[d].at \in Waiting => task[d].op # "none" /\ task[d].todo = {} /\ PodOf(d) = None
      BY DEF CallsInv, TaskInOrder, Waiting, NoTask, Handling
    <3>3. task'[d].at \in {"none", "loop"}
      BY <3>1 DEF NoTask, TypeOK, Task, Pod
    <3>4. TaskInOrder(d)'
      <4>1. CASE task'[d] = NoTask
        BY <4>1 DEF TaskInOrder, NoTask, PodOf, Session, Making, Ending, Handling
      <4>2. CASE task'[d] = task[d]
        BY <4>2 DEF CallsInv, TaskInOrder, PodOf, Session
      <4>3. CASE task[d].at \in Waiting /\ task'[d] = [task[d] EXCEPT !.at = "loop"]
        <5>1. /\ task'[d].op = task[d].op /\ task'[d].at = "loop"
              /\ task'[d].session = task[d].session
              /\ task'[d].pod = task[d].pod /\ task'[d].todo = task[d].todo
          BY <4>3 DEF TypeOK, Task, Pod
        <5> QED
          BY <2>2, <3>2, <4>3, <5>1, <1>1 DEF TaskInOrder, PodOf, Session, Making, Ending,
             Handling
      <4> QED
        BY <3>1, <4>1, <4>2, <4>3
    <3> QED
      BY <3>3, <3>4 DEF WaitsForCall, LeaseToCome, Registered, Works, Making
  <2>3. CASE d # c /\ task[d].session # s0
    <3>1. task'[d] = task[d]
      BY <1>4, <2>3 DEF Woken
    <3>2. task[d].op = "none" \/ Session(d) \in Sessions
      BY DEF CallsInv, TaskInOrder
    <3>3. task[d].op = "none" => task[d].at = "none"
      BY DEF CallsInv, TaskInOrder, NoTask
    <3>4. TaskInOrder(d)' /\ LeaseToCome(d)'
      BY <3>1 DEF CallsInv, TaskInOrder, LeaseToCome, Session, PodOf, Complete
    <3>5. WaitsForCall(d)'
      BY <1>3, <2>3, <3>1, <3>2, <3>3 DEF CallsInv, WaitsForCall, Session
    <3>6. Registered(d)'
      BY <1>3, <2>3, <3>1, <3>2, <3>3 DEF CallsInv, Registered, Works, Session
    <3> QED
      BY <3>4, <3>5, <3>6
  <2> QED
    BY <2>1, <2>2, <2>3
<1>7. ASSUME NEW s \in Sessions PROVE SessionInOrder(s)'
  <2>1. CASE s = s0
    BY <1>3, <2>1 DEF SessionInOrder
  <2>2. CASE s # s0
    <3>1. SessionInOrder(s)
      BY DEF CallsInv
    <3>2. ASSUME NEW d \in Actors, NEW o, Works(d, o, s) PROVE Works(d, o, s)'
      BY <1>4, <2>2, <3>2 DEF Works, Woken, Session
    <3>3. ensures[s] \in Actors \cup {None} /\ releases[s] \in Actors \cup {None} /\ lease' = lease
      BY DEF TypeOK, Task, Pod, Complete
    <3> QED
      BY <1>3, <2>2, <3>1, <3>2, <3>3 DEF SessionInOrder
  <2> QED
    BY <2>1, <2>2
<1>8. AtRest'
  BY <1>1 DEF AtRest, Complete
<1> QED
  BY <1>6, <1>7, <1>8 DEF CallsInv

-----------------------------------------------------------------------------
(* Pods, when one call moves on.                                           *)

Wants(c, n)   == n \in task[c].todo \/ (task[c].at = "unmeter" /\ PodOf(c) = n)
\* The call has a pod that may not be tracked.
Carries(c, n) == PodOf(c) = n /\ task[c].at \in {"meter", "publish"}

\* A goroutine that has nothing to do with pods, before and after.
Bystander(d) ==
  \/ task'[d] = task[d]
  \/ task[d].at \in Outside /\ task'[d].at \in Outside /\ task'[d].todo = {}

\* A step of c leaves a pod as it was, or changes it where nobody else minds.
Untouched(c, n) ==
  /\ pods'[n] = pods[n] /\ (alive'[n] = "mine" => alive[n] = "mine")
  /\ n \in reap'.delete => n \in reap.delete
  /\ Keeps(c, n)' <=> Keeps(c, n)
  /\ Carries(c, n) => Carries(c, n)'
  /\ Wants(c, n)' => Wants(c, n)
Touched(c, n) ==
  /\ \A d \in Actors \ {c} : ~ Keeps(d, n)
  /\ (n \in reap'.delete \/ \E d \in Actors : Wants(d, n)') =>
       pods'[n].state \in {"none", "deleting"} /\ ~ Keeps(c, n)'
  /\ PodInOrder(n)'
  /\ alive'[n] = "mine" => pods'[n].state # "none" \/ Carries(c, n)'

LEMMA StepKeepsPods ==
  ASSUME TypeOK, TypeOK', CallsInv, CallsInv', PodsInv, NEW c \in Actors,
         \A d \in Actors \ {c} : Bystander(d),
         \A n \in Names : Untouched(c, n) \/ Touched(c, n),
         PodKept(c)', LeasesAreBound'
  PROVE  PodsInv'
<1>1. \A d \in Actors \ {c}, n \in Names :
        /\ Keeps(d, n)' <=> Keeps(d, n)
        /\ Wants(d, n)' => Wants(d, n)
        /\ Carries(d, n) => Carries(d, n)'
  BY DEF Bystander, Keeps, Wants, Carries, PodOf, Outside, Waiting, Keeping, Handling
<1>2. ASSUME NEW d \in Actors PROVE PodKept(d)'
  <2>1. CASE task'[d].at \notin Keeping
    BY <2>1 DEF PodKept, Keeping, Handling, Ending
  <2>2. CASE d # c /\ task'[d].at \in Keeping
    <3>1. task'[d] = task[d]
      BY <2>2 DEF Bystander, Keeping, Handling, Outside, Waiting
    <3>2. PodOf(d) \in Names
      BY <2>2, <3>1 DEF CallsInv, TaskInOrder, Keeping, TypeOK, Task, Pod, PodOf
    <3>3. pods'[PodOf(d)] = pods[PodOf(d)]
      BY <2>2, <3>1, <3>2 DEF Touched, Untouched, Keeps
    <3> QED
      BY <3>1, <3>2, <3>3 DEF PodsInv, PodKept, PodOf, Session
  <2> QED
    BY <2>1, <2>2
<1>3. ASSUME NEW n \in Names, n \in reap'.delete \/ \E d \in Actors : Wants(d, n)'
      PROVE  Discarded(n)'
  <2>1. CASE Touched(c, n)
    BY <1>1, <1>3, <2>1 DEF Touched, Discarded
  <2>2. CASE Untouched(c, n)
    <3>1. n \in reap.delete \/ \E d \in Actors : Wants(d, n)
      BY <1>1, <1>3, <2>2 DEF Untouched
    <3>2. Discarded(n)
      BY <3>1 DEF PodsInv, Discards, Wants
    <3> QED
      BY <1>1, <2>2, <3>2 DEF Discarded, Untouched
  <2> QED
    BY <2>1, <2>2
<1>4. ASSUME NEW d \in Actors PROVE Discards(d)'
  <2>1. task'[d].todo \in SUBSET Names /\ task'[d].pod \in Names \cup {None}
    BY DEF TypeOK, Task, Pod
  <2>2. task'[d].at = "unmeter" => task'[d].pod \in Names
    BY <2>1 DEF CallsInv, TaskInOrder, PodOf, Handling
  <2>3. ASSUME NEW n \in Names, n \in task'[d].todo PROVE Discarded(n)'
    <3>1. Wants(d, n)'
      BY <2>3 DEF Wants
    <3> QED
      BY <1>3, <3>1
  <2>4. ASSUME NEW n \in Names, task'[d].at = "unmeter", task'[d].pod = n PROVE Discarded(n)'
    BY <1>3, <2>4 DEF Wants, PodOf
  <2>5. task'[d].at = "unmeter" => Discarded(PodOf(d))'
    BY <2>2, <2>4 DEF PodOf, Discarded
  <2> QED
    BY <2>1, <2>3, <2>5 DEF Discards
<1>5. OnePodEach'
  BY <1>1 DEF OnePodEach, PodsInv, Touched, Untouched
<1>6. \A n \in reap'.delete : Discarded(n)'
  BY <1>3 DEF TypeOK, Task, Pod
<1>7. \A n \in Names : PodInOrder(n)'
  BY DEF PodsInv, PodInOrder, Touched, Untouched
<1>8. NothingLeaks'
  <2> SUFFICES ASSUME NEW n \in Names, alive'[n] = "mine"
               PROVE  pods'[n].state # "none" \/ \E d \in Actors : Carries(d, n)'
    BY DEF NothingLeaks, Tracked, Carries
  <2>1. CASE Touched(c, n)
    BY <2>1 DEF Touched
  <2>2. CASE Untouched(c, n)
    <3>1. pods[n].state # "none" \/ \E d \in Actors : Carries(d, n)
      BY <2>2 DEF Untouched, PodsInv, NothingLeaks, Tracked, Carries
    <3> QED
      BY <1>1, <2>2, <3>1 DEF Untouched
  <2> QED
    BY <2>1, <2>2
<1> QED
  BY <1>2, <1>4, <1>5, <1>6, <1>7, <1>8 DEF PodsInv

-----------------------------------------------------------------------------
(* Counting.                                                               *)

LEMMA ActorsFinite == IsFiniteSet(Actors) /\ IsFiniteSet(Names) /\ IsFiniteSet(Sessions)
BY BrowserPoolAssumption, FS_AddElement DEF Actors

Reserving == {c \in Actors : Reserves(c)}

LEMMA ReservingFinite ==
  ASSUME NEW c \in Actors
  PROVE  /\ IsFiniteSet(Reserving) /\ IsFiniteSet(Reserving \ {c})
         /\ Cardinality(Reserving) \in Nat /\ Cardinality(Reserving \ {c}) \in Nat
         /\ Reserves(c) => Cardinality(Reserving) = Cardinality(Reserving \ {c}) + 1
         /\ ~ Reserves(c) => Cardinality(Reserving) = Cardinality(Reserving \ {c})
<1>1. IsFiniteSet(Reserving) /\ IsFiniteSet(Reserving \ {c})
  BY ActorsFinite, FS_Subset DEF Reserving
<1>2. Cardinality(Reserving) \in Nat /\ Cardinality(Reserving \ {c}) \in Nat
  BY <1>1, FS_CardinalityType
<1>3. Reserves(c) => Cardinality(Reserving \ {c}) = Cardinality(Reserving) - 1
  <2>1. Reserves(c) => c \in Reserving
    BY DEF Reserving
  <2> QED
    BY <1>1, <2>1, FS_RemoveElement
<1>4. ~ Reserves(c) => Reserving \ {c} = Reserving
  BY DEF Reserving
<1> QED
  BY <1>1, <1>2, <1>3, <1>4

\* One element more.
LEMMA AddOne ==
  ASSUME NEW S, IsFiniteSet(S), NEW x
  PROVE  IsFiniteSet(S \cup {x}) /\ Cardinality(S \cup {x}) <= Cardinality(S) + 1
<1>1. /\ IsFiniteSet(S \cup {x})
      /\ Cardinality(S \cup {x}) = Cardinality(S) \/ Cardinality(S \cup {x}) = Cardinality(S) + 1
  BY FS_AddElement
<1>2. Cardinality(S) \in Nat
  BY FS_CardinalityType
<1> QED
  BY <1>1, <1>2

\* The number of reservations follows those of the one call that moves.
LEMMA ReservingCounts ==
  ASSUME NEW c \in Actors, \A d \in Actors \ {c} : Reserves(d)' <=> Reserves(d)
  PROVE  Cardinality(Reserving') =
           Cardinality(Reserving) - (IF Reserves(c) THEN 1 ELSE 0) + (IF Reserves(c)' THEN 1 ELSE 0)
<1>1. Cardinality(Reserving' \ {c}) = Cardinality(Reserving \ {c})
  <2>1. Reserving' \ {c} = Reserving \ {c}
    BY DEF Reserving
  <2> QED
    BY <2>1, Zenon
<1>2. /\ IsFiniteSet(Reserving')
      /\ Reserves(c)' => Cardinality(Reserving' \ {c}) = Cardinality(Reserving') - 1
      /\ ~ Reserves(c)' => Cardinality(Reserving' \ {c}) = Cardinality(Reserving')
  <2>1. IsFiniteSet(Reserving')
    BY ActorsFinite, FS_Subset DEF Reserving
  <2>2. Reserves(c)' => c \in Reserving'
    BY DEF Reserving
  <2>3. ~ Reserves(c)' => Cardinality(Reserving' \ {c}) = Cardinality(Reserving')
    <3>1. ~ Reserves(c)' => Reserving' \ {c} = Reserving'
      BY DEF Reserving
    <3> QED
      BY <3>1, Zenon
  <2> QED
    BY <2>1, <2>2, <2>3, FS_RemoveElement
<1>3. Cardinality(Reserving') \in Nat
  BY <1>2, FS_CardinalityType
<1>4. /\ Cardinality(Reserving \ {c}) \in Nat /\ Cardinality(Reserving) \in Nat
      /\ Reserves(c) => Cardinality(Reserving) = Cardinality(Reserving \ {c}) + 1
      /\ ~ Reserves(c) => Cardinality(Reserving) = Cardinality(Reserving \ {c})
  BY ReservingFinite
<1>5. /\ Reserves(c)' => Cardinality(Reserving') = Cardinality(Reserving \ {c}) + 1
      /\ ~ Reserves(c)' => Cardinality(Reserving') = Cardinality(Reserving \ {c})
  BY <1>1, <1>2, <1>3, <1>4
<1> QED
  BY <1>4, <1>5

\* A change of the pending creations that fits, and as many tracked pods as fit.
LEMMA StepKeepsCapacity ==
  ASSUME CapacityKept, TypeOK, NEW c \in Actors,
         \A d \in Actors \ {c} : Reserves(d)' <=> Reserves(d),
         pending' = pending - (IF Reserves(c) THEN 1 ELSE 0) + (IF Reserves(c)' THEN 1 ELSE 0),
         \/ Tracked' \subseteq Tracked /\ pending' <= pending
         \/ Tracked' \subseteq Tracked /\ ~ Full /\ pending' = pending + 1
         \/ \E n \in Names : Tracked' \subseteq Tracked \cup {n} /\ pending' = pending - 1
  PROVE  CapacityKept' /\ pending' \in Nat
<1>1. pending = Cardinality(Reserving) /\ pending \in Nat
  BY DEF CapacityKept, Reserving, TypeOK, Task, Pod
<1>2. pending' = Cardinality(Reserving')
  BY <1>1, ReservingCounts
<1>3. IsFiniteSet(Reserving')
  BY ActorsFinite, FS_Subset DEF Reserving
<1>4. pending' \in Nat
  BY <1>2, <1>3, FS_CardinalityType
<1>5. /\ IsFiniteSet(Tracked) /\ IsFiniteSet(Tracked')
      /\ Cardinality(Tracked) \in Nat /\ Cardinality(Tracked') \in Nat
  BY ActorsFinite, FS_Subset, FS_CardinalityType DEF Tracked
<1>6. Tracked' \subseteq Tracked => Cardinality(Tracked') <= Cardinality(Tracked)
  BY <1>5, FS_Subset
<1>7. ASSUME NEW n \in Names, Tracked' \subseteq Tracked \cup {n}
      PROVE  Cardinality(Tracked') <= Cardinality(Tracked) + 1
  <2>1. /\ IsFiniteSet(Tracked \cup {n})
        /\ Cardinality(Tracked \cup {n}) <= Cardinality(Tracked) + 1
    BY <1>5, AddOne
  <2>2. Cardinality(Tracked') <= Cardinality(Tracked \cup {n})
    BY <1>7, <2>1, FS_Subset
  <2>3. Cardinality(Tracked \cup {n}) \in Nat
    BY <2>1, FS_CardinalityType
  <2> QED
    BY <1>5, <2>1, <2>2, <2>3
<1>8. Cardinality(Tracked') + pending' <= MaxPods
  <2>1. Cardinality(Tracked) + pending <= MaxPods /\ MaxPods \in Nat
    BY BrowserPoolAssumption DEF CapacityKept
  <2>2. ~ Full => Cardinality(Tracked) + pending < MaxPods
    BY <1>1, <1>5, <2>1 DEF Full
  <2> QED
    BY <1>1, <1>4, <1>5, <1>6, <1>7, <2>1, <2>2
<1> QED
  BY <1>2, <1>4, <1>8 DEF CapacityKept, Reserving

Allocated(t) == {s \in Sessions : TenantOf(s) = t /\ (lease[s] # None \/ ensures[s] # None)}

\* No session that had neither lease nor call gets one.
LEMMA StepKeepsLimit ==
  ASSUME LimitKept,
         \A s \in Sessions : lease'[s] # None \/ ensures'[s] # None =>
                               lease[s] # None \/ ensures[s] # None
  PROVE  LimitKept'
<1> SUFFICES ASSUME NEW t \in Tenants PROVE Cardinality(Allocated(t)') <= Limit
  BY DEF LimitKept, Allocated, Tenants
<1>1. IsFiniteSet(Allocated(t)) /\ Allocated(t)' \subseteq Allocated(t)
  BY ActorsFinite, FS_Subset DEF Allocated
<1>2. /\ Cardinality(Allocated(t)') <= Cardinality(Allocated(t))
      /\ Cardinality(Allocated(t)') \in Nat /\ Cardinality(Allocated(t)) \in Nat
  BY <1>1, FS_Subset, FS_CardinalityType
<1>3. Cardinality(Allocated(t)) <= Limit
  BY DEF LimitKept, Allocated
<1> QED
  BY <1>2, <1>3, BrowserPoolAssumption

\* One that gets a call while its tenant is below the limit.
LEMMA RegisterKeepsLimit ==
  ASSUME TypeOK, LimitKept, NEW s \in Sessions, NEW c \in Actors,
         ~ LimitReached(TenantOf(s)),
         lease' = lease, ensures' = [ensures EXCEPT ![s] = c]
  PROVE  LimitKept'
<1> SUFFICES ASSUME NEW t \in Tenants PROVE Cardinality(Allocated(t)') <= Limit
  BY DEF LimitKept, Allocated, Tenants
<1>1. IsFiniteSet(Allocated(t)) /\ IsFiniteSet(Allocated(t)')
  BY ActorsFinite, FS_Subset DEF Allocated
<1>2. CASE t # TenantOf(s)
  <2>1. Allocated(t)' = Allocated(t)
    BY <1>2 DEF Allocated, TypeOK, Task, Pod
  <2> QED
    BY <2>1 DEF LimitKept, Allocated
<1>3. CASE t = TenantOf(s)
  <2> DEFINE A == {r \in Sessions : TenantOf(r) = t /\ lease[r] # None}
             B == {r \in Sessions : TenantOf(r) = t /\ ensures[r] # None}
  <2>1. /\ IsFiniteSet(A) /\ IsFiniteSet(B) /\ IsFiniteSet(A \cup B) /\ IsFiniteSet(A \cap B)
        /\ Cardinality(A) \in Nat /\ Cardinality(B) \in Nat /\ Cardinality(A \cap B) \in Nat
        /\ Cardinality(A \cup B) \in Nat
    BY ActorsFinite, FS_Subset, FS_Union, FS_Intersection, FS_CardinalityType
  <2>2. Cardinality(A) + Cardinality(B) < Limit
    BY <1>3, <2>1, BrowserPoolAssumption DEF LimitReached
  <2>3. Cardinality(A \cup B) = Cardinality(A) + Cardinality(B) - Cardinality(A \cap B)
    BY <2>1, FS_Union
  <2>4. Allocated(t)' \subseteq (A \cup B) \cup {s}
    BY DEF Allocated, TypeOK, Task, Pod
  <2>5. /\ IsFiniteSet((A \cup B) \cup {s})
        /\ Cardinality((A \cup B) \cup {s}) <= Cardinality(A \cup B) + 1
    BY <2>1, AddOne
  <2>6. /\ Cardinality((A \cup B) \cup {s}) \in Nat /\ Cardinality(Allocated(t)') \in Nat
        /\ Cardinality(Allocated(t)') <= Cardinality((A \cup B) \cup {s})
    BY <1>1, <2>4, <2>5, FS_Subset, FS_CardinalityType
  <2> HIDE DEF A, B
  <2> QED
    BY <2>1, <2>2, <2>3, <2>5, <2>6, BrowserPoolAssumption
<1> QED
  BY <1>2, <1>3

-----------------------------------------------------------------------------
(* Pods that nobody else has a claim to.                                   *)

Unwanted(n) == n \notin reap.delete /\ \A d \in Actors : ~ Wants(d, n)
Unleasable(n) == \A s \in Sessions : lease[s] # n

LEMMA KeptPod ==
  ASSUME TypeOK, CallsInv, PodsInv, NEW c \in Actors, task[c].at \in Keeping
  PROVE  /\ PodOf(c) \in Names /\ Keeps(c, PodOf(c))
         /\ \A d \in Actors \ {c} : ~ Keeps(d, PodOf(c))
         /\ Unwanted(PodOf(c))
         /\ Unleasable(PodOf(c))
<1>1. PodOf(c) \in Names /\ Keeps(c, PodOf(c))
  BY DEF CallsInv, TaskInOrder, Keeping, Keeps, TypeOK, Task, PodOf
<1>2. \A d \in Actors \ {c} : ~ Keeps(d, PodOf(c))
  BY <1>1 DEF PodsInv, OnePodEach
<1>3. Unwanted(PodOf(c))
  BY <1>1 DEF PodsInv, Discards, Discarded, Unwanted, Wants
<1>4. Unleasable(PodOf(c))
  <2>1. closing # "done"
    BY ActiveIsOpen DEF Keeping, Handling
  <2>2. pods[PodOf(c)].state # "bound"
    BY DEF PodsInv, PodKept, Keeping, Handling, Ending
  <2> QED
    BY <1>1, <2>1, <2>2, Distinct DEF PodsInv, LeasesAreBound, BoundTo, Unleasable
<1> QED
  BY <1>1, <1>2, <1>3, <1>4

LEMMA FreshPod ==
  ASSUME TypeOK, CallsInv, PodsInv, closing # "done", NEW n \in Fresh
  PROVE  /\ n \in Names /\ pods[n].state = "none"
         /\ \A d \in Actors : ~ Keeps(d, n)
         /\ Unwanted(n)
         /\ Unleasable(n)
<1>1. /\ n \in Names /\ pods[n].state = "none"
      /\ \A d \in Actors : ~ Keeps(d, n)
      /\ Unwanted(n)
  BY DEF Fresh, Keeps, Unwanted, Wants, PodOf
<1>2. Unleasable(n)
  BY <1>1, Distinct DEF PodsInv, LeasesAreBound, BoundTo, Unleasable
<1> QED
  BY <1>1, <1>2

LEMMA SparePod ==
  ASSUME TypeOK, CallsInv, PodsInv, NEW n \in Names, pods[n].state \in {"idle", "bound"}
  PROVE  /\ \A d \in Actors : ~ Keeps(d, n)
         /\ Unwanted(n)
<1>1. \A d \in Actors : ~ Keeps(d, n)
  BY DEF PodsInv, PodKept, Keeps, Keeping, Handling, Ending
<1>2. Unwanted(n)
  BY DEF PodsInv, Discards, Discarded, Unwanted, Wants
<1> QED
  BY <1>1, <1>2

\* A call that has a reservation is counted.
LEMMA ReservationCounted ==
  ASSUME TypeOK, CapacityKept, NEW c \in Actors, Reserves(c)
  PROVE  pending \in Nat \ {0}
<1>1. pending = Cardinality(Reserving)
  BY DEF CapacityKept, Reserving
<1>2. /\ Cardinality(Reserving \ {c}) \in Nat
      /\ Cardinality(Reserving) = Cardinality(Reserving \ {c}) + 1
  BY ReservingFinite
<1> QED
  BY <1>1, <1>2

-----------------------------------------------------------------------------
(* A step of one call, as all of them are put together.                    *)

LEMMA Moved ==
  ASSUME TypeOK, NEW c \in Actors, NEW stage \in Stage, NEW pod \in Names \cup {None},
         NEW names \in SUBSET Names, GotoWith(c, stage, pod, names)
  PROVE  /\ task' \in [Actors -> Task]
         /\ task'[c] = [op |-> task[c].op, at |-> stage, session |-> Session(c),
                        pod |-> pod, todo |-> names]
         /\ PodOf(c)' = pod /\ Session(c)' = Session(c)
         /\ \A d \in Actors \ {c} : task'[d] = task[d] /\ Bystander(d)
<1>1. task'[c] = [op |-> task[c].op, at |-> stage, session |-> task[c].session,
                  pod |-> pod, todo |-> names]
  BY DEF TypeOK, GotoWith
<1>2. \A d \in Actors \ {c} : task'[d] = task[d]
  BY DEF TypeOK, GotoWith
<1>3. /\ task[c].op \in {"none", "ensure", "release"} /\ task[c].session \in Sessions \cup {None}
      /\ \A d \in Actors : task[d] \in Task
      /\ DOMAIN task' = Actors /\ task' = [d \in Actors |-> task'[d]]
  BY DEF TypeOK, Task, GotoWith
<1>4. task'[c] \in Task
  BY <1>1, <1>3 DEF Task
<1>5. task' \in [Actors -> Task]
  BY <1>2, <1>3, <1>4
<1> QED
  BY <1>1, <1>2, <1>5 DEF PodOf, Session, Bystander

LEMMA StepKeeps ==
  ASSUME PoolInv, TypeOK', CallsInv', NEW c \in Actors,
         \A d \in Actors \ {c} : Bystander(d),
         \A n \in Names : Untouched(c, n) \/ Touched(c, n),
         PodKept(c)', LeasesAreBound', LeasedIsMetered', LimitKept',
         pending' = pending - (IF Reserves(c) THEN 1 ELSE 0) + (IF Reserves(c)' THEN 1 ELSE 0),
         \/ Tracked' \subseteq Tracked /\ pending' <= pending
         \/ Tracked' \subseteq Tracked /\ ~ Full /\ pending' = pending + 1
         \/ \E n \in Names : Tracked' \subseteq Tracked \cup {n} /\ pending' = pending - 1
  PROVE  PoolInv'
<1>1. PodsInv'
  BY StepKeepsPods DEF PoolInv
<1>2. ASSUME NEW d \in Actors \ {c} PROVE Reserves(d)' <=> Reserves(d)
  <2>1. CASE task'[d] = task[d] /\ task[d].at \in {"meter", "publish"}
    <3>1. PodOf(d) \in Names /\ Keeps(d, PodOf(d))
      BY <2>1, KeptPod DEF PoolInv, Keeping, Handling
    <3>2. pods'[PodOf(d)] = pods[PodOf(d)]
      BY <3>1 DEF Untouched, Touched
    <3> QED
      BY <2>1, <3>2 DEF Reserves, At, PodOf
  <2>2. CASE task'[d] = task[d] /\ task[d].at \notin {"meter", "publish"}
    BY <2>2 DEF Reserves, At
  <2>3. CASE task'[d] # task[d]
    BY <2>3 DEF Bystander, Reserves, At, Outside, Waiting
  <2> QED
    BY <2>1, <2>2, <2>3
<1>3. CapacityKept'
  BY <1>2, StepKeepsCapacity DEF PoolInv
<1> QED
  BY <1>1, <1>3 DEF PoolInv

-----------------------------------------------------------------------------
(* The actions.                                                            *)

\* Goroutines that look, wait, or give up waiting.
LEMMA IdlingKeeps ==
  ASSUME PoolInv, NEW c \in Actors, NEW t, Idles(c, t),
         reap' \in [on: BOOLEAN, expired: SUBSET Sessions, delete: SUBSET Names]
  PROVE  PoolInv'
<1>1. task'[c] = t /\ \A d \in Actors \ {c} : task'[d] = task[d]
  BY DEF Idles, PoolInv, TypeOK
<1>2. TypeOK'
  <2>1. t \in Task
    BY DEF Idles, NoTask, Task, Stage
  <2> QED
    BY <2>1 DEF Idles, PoolInv, TypeOK
<1>3. CallsInv'
  BY IdlingKeepsCalls DEF PoolInv
<1>4. /\ \A d \in Actors \ {c} : Bystander(d)
      /\ \A n \in Names : Untouched(c, n)
  <2>1. /\ task[c].at \in Outside /\ t.at \in Outside
        /\ t.todo = {}
    BY DEF Idles, Outside, NoTask
  <2>2. \A n \in Names : ~ Keeps(c, n) /\ ~ Keeps(c, n)' /\ ~ Carries(c, n) /\ ~ Wants(c, n)'
    BY <1>1, <2>1 DEF Keeps, Carries, Wants, Keeping, Handling, Outside, Waiting
  <2> QED
    BY <1>1, <2>2 DEF Bystander, Untouched, Idles
<1>5. ~ Reserves(c) /\ ~ Reserves(c)'
  BY <1>1 DEF Idles, Reserves, At, Outside, Waiting, NoTask
<1>6. PodKept(c)'
  BY <1>1 DEF Idles, PodKept, Outside, Waiting, NoTask, Ending
<1>7. LeasesAreBound' /\ LeasedIsMetered' /\ LimitKept'
  BY DEF PoolInv, PodsInv, LeasesAreBound, LeasedIsMetered, LimitKept, Idles, BoundTo
<1>8. pending' = pending /\ pending \in Nat /\ Tracked' \subseteq Tracked
  BY DEF Idles, PoolInv, TypeOK, Tracked
<1> QED
  BY <1>2, <1>3, <1>4, <1>5, <1>6, <1>7, <1>8, StepKeeps

LEMMA LookingKeeps ==
  ASSUME PoolInv, NEW c \in Actors,
         \/ \E op \in {"ensure", "release"}, s \in Sessions : Begin(c, op, s)
         \/ FindLease(c) \/ Await(c) \/ CancelWait(c) \/ RefuseLimit(c) \/ NothingToRelease(c)
  PROVE  PoolInv'
<1>t. TypeOK /\ CallsInv
  BY DEF PoolInv
<1>1. ASSUME NEW op \in {"ensure", "release"}, NEW s \in Sessions, Begin(c, op, s)
      PROVE  PoolInv'
  <2>1. Idles(c, Entered(op, s)) /\ reap' = reap
    <3>1. Entered(op, s) \in Task
      BY DEF Entered, Task, Stage
    <3> QED
      BY <1>1, <3>1 DEF Begin, Idles, Entered, NoTask, Outside
  <2> QED
    BY <1>t, <2>1, IdlingKeeps DEF TypeOK
<1>2. CASE FindLease(c) \/ RefuseLimit(c) \/ NothingToRelease(c) \/ CancelWait(c)
  <2>1. Idles(c, NoTask) /\ reap' = reap
    <3>1. task[c].at \in Outside \ {"none"}
      BY <1>2 DEF FindLease, RefuseLimit, Unleased, NothingToRelease, CancelWait, At,
         Outside, Waiting
    <3> QED
      BY <1>t, <1>2, <3>1, ActiveIsOpen DEF FindLease, RefuseLimit, NothingToRelease,
         CancelWait,
         Return, Idles, NoTask, Outside
  <2> QED
    BY <1>t, <2>1, IdlingKeeps DEF TypeOK
<1>3. CASE Await(c)
  <2> DEFINE stage == IF releases[Session(c)] # None THEN "await_release" ELSE "await_ensure"
             t == [op |-> task[c].op, at |-> stage, session |-> Session(c), pod |-> PodOf(c),
                   todo |-> {}]
  <2>1. /\ task[c].at = "loop" /\ task[c].op \in {"ensure", "release"} /\ closing # "done"
        /\ Session(c) \in Sessions /\ PodOf(c) = None
    BY <1>t, <1>3, ActiveIsOpen DEF Await, CallsInv, TaskInOrder, TypeOK, Task, Handling
  <2>2. task' = [task EXCEPT ![c] = t]
    BY <1>3 DEF Await, Goto, GotoWith, Session
  <2>3. stage = "await_ensure" => ensures[Session(c)] # None
    BY <1>3 DEF Await, MustWait
  <2>4. t \in Task
    BY <2>1 DEF Task, Stage
  <2>5. Idles(c, t) /\ reap' = reap
    BY <1>3, <2>1, <2>2, <2>3, <2>4 DEF Await, Idles, Outside, Waiting
  <2> HIDE DEF t
  <2> QED
    BY <1>t, <2>5, IdlingKeeps DEF TypeOK
<1> QED
  BY <1>1, <1>2, <1>3

\* An idle pod is bound.
LEMMA ReuseKeeps ==
  ASSUME PoolInv, NEW c \in Actors, Reuse(c)
  PROVE  PoolInv'
<1>t. TypeOK /\ CallsInv /\ PodsInv
  BY DEF PoolInv
<1>1. /\ closing # "done" /\ Session(c) \in Sessions /\ task[c].op = "ensure"
      /\ task[c].at = "loop" /\ lease[Session(c)] = None /\ ~ MustWait(Session(c))
  BY <1>t, ActiveIsOpen DEF Reuse, Unleased, At
<1>2. PICK n \in IdleOf(TenantOf(Session(c))) :
        /\ pods' = [pods EXCEPT ![n] = [state |-> "binding", tenant |-> @.tenant,
                                        session |-> Session(c), dirt |-> @.dirt]]
        /\ GotoWith(c, "meter", n, {})
  BY DEF Reuse
<1>3. n \in Names /\ pods[n].state = "idle" /\ pods[n].dirt = {} /\ n # None
  BY <1>t, Distinct DEF IdleOf, InState, PodsInv, PodInOrder
<1>4. /\ pods'[n] = [state |-> "binding", tenant |-> pods[n].tenant, session |-> Session(c),
                     dirt |-> {}]
      /\ \A m \in Names : m # n => pods'[m] = pods[m]
      /\ pods' \in [Names -> Pod]
  <2>1. pods[n].tenant \in Tenants \cup {None}
    BY <1>t, <1>3 DEF TypeOK, Pod
  <2> QED
    BY <1>t, <1>1, <1>2, <1>3, <2>1 DEF TypeOK, Pod, PodState
<1>5. /\ task' \in [Actors -> Task]
      /\ task'[c] = [op |-> "ensure", at |-> "meter", session |-> Session(c), pod |-> n, todo |-> {}]
      /\ \A d \in Actors \ {c} : task'[d] = task[d] /\ Bystander(d)
  <2>1. "meter" \in Stage /\ n \in Names \cup {None} /\ {} \in SUBSET Names
    BY <1>3 DEF Stage
  <2>2. /\ task' \in [Actors -> Task]
        /\ task'[c] = [op |-> task[c].op, at |-> "meter", session |-> Session(c), pod |-> n,
                       todo |-> {}]
        /\ \A d \in Actors \ {c} : task'[d] = task[d] /\ Bystander(d)
    BY <1>t, <1>2, <2>1, Moved
  <2> QED
    BY <1>1, <2>2
<1>6. TypeOK'
  BY <1>t, <1>1, <1>4, <1>5 DEF Reuse, TypeOK
<1>7. CallsInv'
  <2>1. Registers(c, "meter", n)
    BY <1>t, <1>1, <1>2, <1>3 DEF Reuse, Registers, Stage, Outside, Waiting, Making, Ending,
       Handling,
       TypeOK
  <2> QED
    BY <1>t, <2>1, RegisterKeepsCalls
<1>8. \A m \in Names : Untouched(c, m) \/ Touched(c, m)
  <2>1. \A d \in Actors : ~ Keeps(d, n)
    BY <1>t, <1>3, SparePod
  <2>2. Unwanted(n)
    BY <1>t, <1>3, SparePod
  <2>3. Touched(c, n)
    BY <1>4, <1>5, <2>1, <2>2 DEF Touched, Unwanted, Wants, PodOf, PodInOrder, Reuse
  <2>4. \A m \in Names : m # n => Untouched(c, m)
    BY <1>1, <1>4, <1>5 DEF Untouched, Keeps, Carries, Wants, Keeping, Handling, PodOf,
       Reuse
  <2> QED
    BY <2>3, <2>4
<1>9. PodKept(c)'
  BY <1>4, <1>5 DEF PodKept, PodOf, Session, Ending
<1>10. LeasesAreBound' /\ LeasedIsMetered'
  BY <1>t, <1>3, <1>4 DEF PoolInv, PodsInv, LeasesAreBound, LeasedIsMetered, BoundTo, Reuse,
     TypeOK
<1>11. LimitKept'
  BY <1>t, <1>1, RegisterKeepsLimit DEF PoolInv, Reuse
<1>12. /\ ~ Reserves(c) /\ ~ Reserves(c)'
       /\ pending' = pending /\ pending \in Nat /\ Tracked' \subseteq Tracked
  BY <1>t, <1>1, <1>3, <1>4, <1>5 DEF Reserves, At, PodOf, Reuse, TypeOK, Tracked
<1> QED
  BY <1>5, <1>6, <1>7, <1>8, <1>9, <1>10, <1>11, <1>12, StepKeeps

\* A slot for a new pod, or nothing.
LEMMA CreateKeeps ==
  ASSUME PoolInv, NEW c \in Actors, Create(c)
  PROVE  PoolInv'
<1> DEFINE stage == IF Full THEN "complete" ELSE "provision"
<1>t. TypeOK /\ CallsInv /\ PodsInv
  BY DEF PoolInv
<1>1. /\ closing # "done" /\ Session(c) \in Sessions /\ task[c].op = "ensure"
      /\ task[c].at = "loop" /\ lease[Session(c)] = None /\ ~ MustWait(Session(c))
      /\ PodOf(c) = None
  BY <1>t, ActiveIsOpen DEF Create, Unleased, At, CallsInv, TaskInOrder, Handling
<1>2. GotoWith(c, stage, None, {}) /\ pending' = pending + (IF Full THEN 0 ELSE 1)
  BY <1>1, <1>t DEF Create, Goto, TypeOK
<1>5. /\ task' \in [Actors -> Task]
      /\ task'[c] = [op |-> "ensure", at |-> stage, session |-> Session(c), pod |-> None, todo |-> {}]
      /\ \A d \in Actors \ {c} : task'[d] = task[d] /\ Bystander(d)
  <2>1. stage \in Stage /\ None \in Names \cup {None} /\ {} \in SUBSET Names
    BY DEF Stage
  <2>2. /\ task' \in [Actors -> Task]
        /\ task'[c] = [op |-> task[c].op, at |-> stage, session |-> Session(c), pod |-> None,
                       todo |-> {}]
        /\ \A d \in Actors \ {c} : task'[d] = task[d] /\ Bystander(d)
    BY <1>t, <1>2, <2>1, Moved
  <2> QED
    BY <1>1, <2>2
<1>6. TypeOK'
  BY <1>t, <1>1, <1>2, <1>5 DEF Create, TypeOK
<1>7. CallsInv'
  <2>1. Registers(c, stage, None)
    BY <1>t, <1>1, <1>2 DEF Create, Registers, Stage, Outside, Waiting, Making, Ending,
       Handling,
       TypeOK
  <2> QED
    BY <1>t, <2>1, RegisterKeepsCalls
<1>8. \A m \in Names : Untouched(c, m)
  BY <1>1, <1>5 DEF Untouched, Keeps, Carries, Wants, Keeping, Handling, PodOf, Create
<1>9. PodKept(c)'
  BY <1>5 DEF PodKept, Ending
<1>10. LeasesAreBound' /\ LeasedIsMetered'
  BY DEF PoolInv, PodsInv, LeasesAreBound, LeasedIsMetered, BoundTo, Create
<1>11. LimitKept'
  BY <1>t, <1>1, RegisterKeepsLimit DEF PoolInv, Create
<1>12. /\ ~ Reserves(c) /\ (Reserves(c)' <=> ~ Full)
       /\ pending \in Nat /\ Tracked' \subseteq Tracked
  BY <1>t, <1>1, <1>5 DEF Reserves, At, Create, TypeOK, Tracked
<1> HIDE DEF stage
<1> QED
  BY <1>2, <1>5, <1>6, <1>7, <1>8, <1>9, <1>10, <1>11, <1>12, StepKeeps

\* The lease is taken from the session, and its pod is to be reset.
LEMMA BeginReleaseKeeps ==
  ASSUME PoolInv, NEW c \in Actors, BeginRelease(c)
  PROVE  PoolInv'
<1> DEFINE s0 == Session(c)
<1>t. TypeOK /\ CallsInv /\ PodsInv
  BY DEF PoolInv
<1>1. /\ closing # "done" /\ s0 \in Sessions /\ task[c].op = "release"
      /\ task[c].at = "loop" /\ ~ MustWait(s0) /\ lease[s0] # None
  BY <1>t, ActiveIsOpen DEF BeginRelease, At
<1>2. PICK n \in Names : n = lease[s0] /\ n # None /\ BoundTo(s0, n)
  BY <1>t, <1>1 DEF PodsInv, LeasesAreBound, TypeOK
<1>3. /\ lease' = [lease EXCEPT ![s0] = None] /\ late' = late \ {s0}
      /\ releases' = [releases EXCEPT ![s0] = c]
      /\ pods' = [pods EXCEPT ![n].state = "resetting"]
      /\ GotoWith(c, "finish", n, {})
      /\ UNCHANGED <<alive, ensures, pending, closing, reap, window, restarts>>
  BY <1>2 DEF BeginRelease
<1>4. /\ pods'[n].state = "resetting" /\ pods'[n].session = s0
      /\ \A m \in Names : m # n => pods'[m] = pods[m]
      /\ pods' \in [Names -> Pod]
  <2>1. /\ pods'[n] = [pods[n] EXCEPT !.state = "resetting"]
        /\ \A m \in Names : m # n => pods'[m] = pods[m]
        /\ DOMAIN pods' = Names /\ pods' = [m \in Names |-> pods'[m]]
    BY <1>t, <1>2, <1>3 DEF TypeOK
  <2>2. \A m \in Names : pods[m] \in Pod
    BY <1>t DEF TypeOK
  <2>3. pods'[n] = [state |-> "resetting", tenant |-> pods[n].tenant, session |-> s0,
                    dirt |-> pods[n].dirt]
    BY <1>2, <2>1, <2>2 DEF Pod, BoundTo
  <2>4. pods'[n] \in Pod
    BY <1>1, <2>2, <2>3 DEF Pod, PodState
  <2> QED
    BY <2>1, <2>2, <2>3, <2>4
<1>5. /\ task' \in [Actors -> Task]
      /\ task'[c] = [op |-> task[c].op, at |-> "finish", session |-> s0, pod |-> n, todo |-> {}]
      /\ \A d \in Actors \ {c} : task'[d] = task[d] /\ Bystander(d)
  <2>1. "finish" \in Stage /\ n \in Names \cup {None} /\ {} \in SUBSET Names
    BY <1>2 DEF Stage
  <2> QED
    BY <1>t, <1>3, <2>1, Moved
<1>6. TypeOK'
  BY <1>t, <1>1, <1>3, <1>4, <1>5 DEF TypeOK
<1>7. CallsInv'
  <2>1. Registers(c, "finish", n)
    BY <1>t, <1>1, <1>2, <1>3 DEF Registers, Stage, Outside, Waiting, Making, Ending,
       Handling
  <2> QED
    BY <1>t, <2>1, RegisterKeepsCalls
<1>8. \A m \in Names : Untouched(c, m) \/ Touched(c, m)
  <2>1. (\A d \in Actors : ~ Keeps(d, n)) /\ Unwanted(n)
    BY <1>t, <1>2, SparePod DEF BoundTo
  <2>2. Touched(c, n)
    BY <1>3, <1>4, <1>5, <2>1 DEF Touched, Unwanted, Wants, PodOf, PodInOrder
  <2>3. \A m \in Names : m # n => Untouched(c, m)
    BY <1>1, <1>3, <1>4, <1>5 DEF Untouched, Keeps, Carries, Wants, Keeping, Handling, PodOf
  <2> QED
    BY <2>2, <2>3
<1>9. PodKept(c)'
  BY <1>4, <1>5 DEF PodKept, PodOf, Session, Ending
<1>10. LeasesAreBound' /\ LeasedIsMetered'
  BY <1>t, <1>1, <1>2, <1>3, <1>4 DEF PoolInv, PodsInv, LeasesAreBound, LeasedIsMetered,
     BoundTo, TypeOK
<1>11. LimitKept'
  <2>1. \A s \in Sessions : lease'[s] # None => lease[s] # None
    BY <1>t, <1>3 DEF TypeOK
  <2> QED
    BY <1>3, <2>1, StepKeepsLimit DEF PoolInv
<1>12. /\ ~ Reserves(c) /\ ~ Reserves(c)'
       /\ pending' = pending /\ pending \in Nat /\ Tracked' \subseteq Tracked
  BY <1>t, <1>1, <1>2, <1>3, <1>4, <1>5 DEF Reserves, At, PodOf, TypeOK, Tracked, BoundTo
<1> QED
  BY <1>5, <1>6, <1>7, <1>8, <1>9, <1>10, <1>11, <1>12, StepKeeps

\* A new pod.
LEMMA ProvisionKeeps ==
  ASSUME PoolInv, NEW c \in Actors, Provision(c)
  PROVE  PoolInv'
<1>t. TypeOK /\ CallsInv /\ PodsInv
  BY DEF PoolInv
<1>1. /\ closing # "done" /\ Session(c) \in Sessions /\ task[c].op = "ensure"
      /\ task[c].at = "provision" /\ lease[Session(c)] = None
  BY <1>t, ActiveIsOpen DEF Provision, At, CallsInv, LeaseToCome, Making
<1>2. PICK n \in Fresh : alive' = [alive EXCEPT ![n] = "mine"] /\ GotoWith(c, "meter", n, {})
  BY DEF Provision
<1>3. /\ n \in Names /\ n # None /\ pods[n].state = "none" /\ Unwanted(n)
      /\ \A d \in Actors : ~ Keeps(d, n)
  BY <1>t, <1>1, FreshPod, Distinct
<1>5. /\ task' \in [Actors -> Task]
      /\ task'[c] = [op |-> task[c].op, at |-> "meter", session |-> Session(c), pod |-> n, todo |-> {}]
      /\ \A d \in Actors \ {c} : task'[d] = task[d] /\ Bystander(d)
  <2>1. "meter" \in Stage /\ n \in Names \cup {None} /\ {} \in SUBSET Names
    BY <1>3 DEF Stage
  <2> QED
    BY <1>t, <1>2, <2>1, Moved
<1>6. TypeOK'
  BY <1>t, <1>2, <1>3, <1>5 DEF Provision, TypeOK
<1>7. CallsInv'
  <2>1. Advances(c, "meter", n, {})
    BY <1>1, <1>2, <1>3 DEF Provision, Advances, Stage, Outside, Waiting, Making, Ending,
       Handling
  <2> QED
    BY <1>t, <1>1, <2>1, AdvanceKeepsCalls DEF Provision
<1>8. \A m \in Names : Untouched(c, m) \/ Touched(c, m)
  <2>1. Touched(c, n)
    BY <1>t, <1>3, <1>5 DEF Touched, Unwanted, Wants, Carries, PodOf, PodInOrder, PodsInv,
       Provision
  <2>2. \A m \in Names : m # n => Untouched(c, m)
    BY <1>t, <1>1, <1>2, <1>5 DEF Untouched, Keeps, Carries, Wants, Keeping, Handling,
       PodOf,
       Provision, TypeOK
  <2> QED
    BY <2>1, <2>2
<1>9. PodKept(c)'
  BY <1>3, <1>5 DEF PodKept, PodOf, Ending, Provision
<1>10. LeasesAreBound' /\ LeasedIsMetered' /\ LimitKept'
  BY DEF PoolInv, PodsInv, LeasesAreBound, LeasedIsMetered, LimitKept, BoundTo, Provision
<1>12. /\ Reserves(c) /\ Reserves(c)'
       /\ pending' = pending /\ pending \in Nat /\ Tracked' \subseteq Tracked
  BY <1>t, <1>1, <1>3, <1>5 DEF Reserves, At, PodOf, TypeOK, Tracked, Provision
<1> QED
  BY <1>5, <1>6, <1>7, <1>8, <1>9, <1>10, <1>12, StepKeeps

\* None, or one that must be deleted.
LEMMA ProvisionFailsKeeps ==
  ASSUME PoolInv, NEW c \in Actors, ProvisionFails(c)
  PROVE  PoolInv'
<1>t. TypeOK /\ CallsInv /\ PodsInv
  BY DEF PoolInv
<1>1. /\ closing # "done" /\ Session(c) \in Sessions /\ task[c].op = "ensure"
      /\ task[c].at = "provision" /\ PodOf(c) = None /\ Reserves(c)
  BY <1>t, ActiveIsOpen DEF ProvisionFails, At, CallsInv, TaskInOrder, Handling, Reserves
<1>2. pending \in Nat \ {0} /\ pending' = pending - 1
  BY <1>t, <1>1, ReservationCounted DEF ProvisionFails, PoolInv
<1>3. ASSUME NEW stage \in {"complete", "delete"}, NEW names \in SUBSET Names,
             stage # "delete" => names = {}, GotoWith(c, stage, None, names)
      PROVE  /\ task' \in [Actors -> Task]
             /\ task'[c] = [op |-> task[c].op, at |-> stage, session |-> Session(c), pod |-> None,
                            todo |-> names]
             /\ \A d \in Actors \ {c} : task'[d] = task[d] /\ Bystander(d)
             /\ CallsInv'
             /\ PodKept(c)' /\ ~ Reserves(c)'
  <2>1. stage \in Stage /\ None \in Names \cup {None}
    BY DEF Stage
  <2>2. /\ task' \in [Actors -> Task]
        /\ task'[c] = [op |-> task[c].op, at |-> stage, session |-> Session(c), pod |-> None,
                       todo |-> names]
        /\ \A d \in Actors \ {c} : task'[d] = task[d] /\ Bystander(d)
    BY <1>t, <1>3, <2>1, Moved
  <2>3. Advances(c, stage, None, names)
    BY <1>1, <1>3, <2>1 DEF ProvisionFails, Advances, Outside, Waiting, Making, Ending,
       Handling
  <2>4. CallsInv'
    BY <1>t, <1>1, <2>3, AdvanceKeepsCalls DEF ProvisionFails, Making
  <2> QED
    BY <2>2, <2>4 DEF PodKept, Ending, Reserves, At
<1>4. LeasedIsMetered' /\ LimitKept'
  BY DEF PoolInv, LeasedIsMetered, LimitKept, ProvisionFails
<1>5. CASE Goto(c, "complete") /\ UNCHANGED <<alive, pods>>
  <2>1. GotoWith(c, "complete", None, {})
    BY <1>1, <1>5 DEF Goto
  <2>2. /\ task' \in [Actors -> Task]
        /\ task'[c] = [op |-> task[c].op, at |-> "complete", session |-> Session(c), pod |-> None,
                       todo |-> {}]
        /\ \A d \in Actors \ {c} : task'[d] = task[d] /\ Bystander(d)
        /\ CallsInv' /\ PodKept(c)' /\ ~ Reserves(c)'
    BY <1>3, <2>1
  <2>3. TypeOK'
    BY <1>t, <1>2, <1>5, <2>2 DEF ProvisionFails, TypeOK
  <2>4. \A m \in Names : Untouched(c, m)
    BY <1>1, <1>5, <2>2 DEF ProvisionFails, Untouched, Keeps, Carries, Wants, Keeping,
       Handling, PodOf
  <2>5. LeasesAreBound' /\ Tracked' \subseteq Tracked
    BY <1>5 DEF PoolInv, PodsInv, LeasesAreBound, BoundTo, ProvisionFails, Tracked
  <2> QED
    BY <1>1, <1>2, <1>4, <2>2, <2>3, <2>4, <2>5, StepKeeps
<1>6. ASSUME NEW n \in Fresh, alive' \in {alive, [alive EXCEPT ![n] = "mine"]},
             pods' = [pods EXCEPT ![n] = Doomed], GotoDelete(c, {n})
      PROVE  PoolInv'
  <2>1. /\ n \in Names /\ pods[n].state = "none" /\ Unwanted(n) /\ Unleasable(n)
        /\ \A d \in Actors : ~ Keeps(d, n)
    BY <1>t, <1>1, FreshPod
  <2>2. /\ task' \in [Actors -> Task]
        /\ task'[c] = [op |-> task[c].op, at |-> "delete", session |-> Session(c), pod |-> None,
                       todo |-> {n}]
        /\ \A d \in Actors \ {c} : task'[d] = task[d] /\ Bystander(d)
        /\ CallsInv' /\ PodKept(c)' /\ ~ Reserves(c)'
    <3>1. GotoWith(c, "delete", None, {n}) /\ {n} \in SUBSET Names
      BY <1>6, <2>1 DEF GotoDelete
    <3> QED
      BY <1>3, <3>1
  <2>3. /\ pods'[n] = Doomed /\ pods' \in [Names -> Pod]
        /\ \A m \in Names : m # n => pods'[m] = pods[m] /\ alive'[m] = alive[m]
        /\ alive' \in [Names -> {"no", "mine", "orphan"}]
    BY <1>t, <1>6, <2>1 DEF TypeOK, Pod, PodState, Doomed
  <2>4. TypeOK'
    BY <1>t, <1>2, <2>2, <2>3 DEF ProvisionFails, TypeOK
  <2>5. \A m \in Names : Untouched(c, m) \/ Touched(c, m)
    <3>1. Touched(c, n)
      BY <2>1, <2>2, <2>3 DEF Touched, PodInOrder, Doomed, Keeps, Keeping, Handling
    <3>2. \A m \in Names : m # n => Untouched(c, m)
      BY <1>1, <2>2, <2>3 DEF ProvisionFails, Untouched, Keeps, Carries, Wants, Keeping,
         Handling,
         PodOf
    <3> QED
      BY <3>1, <3>2
  <2>6. LeasesAreBound'
    BY <1>t, <2>1, <2>3 DEF PodsInv, LeasesAreBound, BoundTo, ProvisionFails, Unleasable,
       TypeOK
  <2>7. Tracked' \subseteq Tracked \cup {n}
    BY <2>3 DEF Tracked
  <2> QED
    BY <1>1, <1>2, <1>4, <2>1, <2>2, <2>4, <2>5, <2>6, <2>7, StepKeeps
<1> QED
  BY <1>5, <1>6 DEF ProvisionFails

\* A window is opened or closed while the pod stays as it is.
LEMMA MeteringKeeps ==
  ASSUME PoolInv, NEW c \in Actors, StartUsage(c) \/ FinishUsage(c) \/ Unmeter(c)
  PROVE  PoolInv'
<1> DEFINE n == PodOf(c)
           stage == IF task[c].at = "meter" THEN "publish"
                    ELSE IF task[c].at = "finish" THEN "reset" ELSE "delete"
           pod == IF stage = "delete" THEN None ELSE n
           names == IF stage = "delete" THEN {n} ELSE {}
<1>t. TypeOK /\ CallsInv /\ PodsInv
  BY DEF PoolInv
<1>1. /\ closing # "done" /\ Session(c) \in Sessions
      /\ \/ task[c].at = "meter" /\ StartUsage(c) /\ task[c].op = "ensure"
         \/ task[c].at = "finish" /\ FinishUsage(c) /\ task[c].op = "release"
         \/ task[c].at = "unmeter" /\ Unmeter(c) /\ task[c].op = "ensure"
  BY <1>t, ActiveIsOpen DEF StartUsage, FinishUsage, Unmeter, At
<1>2. lease[Session(c)] = None
  <2>1. task[c].op = "ensure" => lease[Session(c)] = None
    BY <1>t, <1>1 DEF CallsInv, LeaseToCome, Making
  <2>2. task[c].op = "release" => releases[Session(c)] = c
    BY <1>t, <1>1 DEF CallsInv, Registered, Works, Session
  <2> QED
    BY <1>t, <1>1, <2>1, <2>2, Distinct DEF CallsInv, SessionInOrder
<1>3. n \in Names /\ n # None
  BY <1>t, <1>1, Distinct DEF CallsInv, TaskInOrder, Handling, TypeOK, Task, PodOf
<1>4. GotoWith(c, stage, pod, names)
  BY <1>1 DEF StartUsage, FinishUsage, Unmeter, Goto, GotoDelete
<1>5. /\ UNCHANGED <<alive, pods, lease, late, ensures, releases, pending, closing, reap, restarts>>
      /\ window' \in SUBSET Sessions
      /\ \A s \in Sessions : s # Session(c) => (s \in window' <=> s \in window)
      /\ stage = "publish" => Session(c) \in window'
  BY <1>t, <1>1 DEF StartUsage, FinishUsage, Unmeter, TypeOK
<1>6. stage \in Stage \ Outside /\ pod \in Names \cup {None} /\ names \in SUBSET Names
  BY <1>3 DEF Stage, Outside, Waiting
<1>7. /\ task' \in [Actors -> Task]
      /\ task'[c] = [op |-> task[c].op, at |-> stage, session |-> Session(c), pod |-> pod,
                     todo |-> names]
      /\ \A d \in Actors \ {c} : task'[d] = task[d] /\ Bystander(d)
  <2> HIDE DEF stage, pod, names
  <2> QED
    BY <1>t, <1>4, <1>6, Moved
<1>8. TypeOK'
  BY <1>t, <1>5, <1>7 DEF TypeOK
<1>9. CallsInv'
  <2>1. Advances(c, stage, pod, names)
    BY <1>1, <1>2, <1>3, <1>4, <1>5, <1>6 DEF Advances, Outside, Waiting, Making, Ending,
       Handling
  <2> HIDE DEF stage, pod, names
  <2> QED
    BY <1>t, <1>2, <1>5, <2>1, AdvanceKeepsCalls
<1>10. \A m \in Names : Untouched(c, m)
  <2>1. \A m \in Names : (Keeps(c, m)' <=> Keeps(c, m)) /\ (Carries(c, m) => Carries(c, m)')
    BY <1>1, <1>7 DEF Keeps, Carries, Keeping, Handling, PodOf
  <2>2. \A m \in Names : Wants(c, m)' => Wants(c, m)
    BY <1>1, <1>7 DEF Wants, PodOf
  <2> QED
    BY <1>5, <2>1, <2>2 DEF Untouched
<1>11. PodKept(c)'
  BY <1>t, <1>1, <1>5, <1>7 DEF PodsInv, PodKept, PodOf, Session, Ending
<1>12. LeasesAreBound' /\ LeasedIsMetered' /\ LimitKept'
  BY <1>2, <1>5 DEF PoolInv, PodsInv, LeasesAreBound, LeasedIsMetered, LimitKept, BoundTo
<1>13. /\ Reserves(c)' <=> Reserves(c)
       /\ pending' = pending /\ pending \in Nat /\ Tracked' \subseteq Tracked
  BY <1>t, <1>1, <1>5, <1>7 DEF Reserves, At, PodOf, TypeOK, Tracked
<1> HIDE DEF n, stage, pod, names
<1> QED
  BY <1>7, <1>8, <1>9, <1>10, <1>11, <1>12, <1>13, StepKeeps

\* The pod a call has in hand is given up.
LEMMA QuarantineKeeps ==
  ASSUME PoolInv, NEW c \in Actors, NEW stage, NEW pod, NEW names,
         task[c].at \in Keeping,
         pods' = Quarantined(c), pending' = Unreserved(c), GotoWith(c, stage, pod, names),
         \/ stage = "delete" /\ pod = None /\ names = {PodOf(c)}
         \/ stage = "unmeter" /\ pod = PodOf(c) /\ names = {} /\ task[c].at = "publish",
         window' \in {window, window \cup {Session(c)}},
         UNCHANGED <<alive, lease, late, ensures, releases, closing, reap, restarts>>
  PROVE  PoolInv'
<1>t. TypeOK /\ CallsInv /\ PodsInv
  BY DEF PoolInv
<1>1. /\ closing # "done" /\ Session(c) \in Sessions
      /\ task[c].at \notin Outside
      /\ stage = "unmeter" => task[c].op = "ensure" /\ lease[Session(c)] = None
  BY <1>t, ActiveIsOpen DEF Keeping, Handling, Outside, Waiting, CallsInv, TaskInOrder,
     LeaseToCome,
     Making
<1>2. PICK n \in Names : n = PodOf(c)
  BY <1>t, KeptPod
<1>3. /\ \A d \in Actors \ {c} : ~ Keeps(d, n)
      /\ Keeps(c, n) /\ Unwanted(n) /\ Unleasable(n) /\ n # None
  BY <1>t, <1>2, KeptPod, Distinct
<1>4. /\ pods'[n] = Doomed /\ pods' \in [Names -> Pod]
      /\ \A m \in Names : m # n => pods'[m] = pods[m]
  BY <1>t, <1>2 DEF Quarantined, TypeOK, Pod, PodState, Doomed
<1>5. stage \in Stage \ Outside /\ pod \in Names \cup {None} /\ names \in SUBSET Names
  BY <1>2 DEF Stage, Outside, Waiting
<1>7. /\ task' \in [Actors -> Task]
      /\ task'[c] = [op |-> task[c].op, at |-> stage, session |-> Session(c), pod |-> pod,
                     todo |-> names]
      /\ \A d \in Actors \ {c} : task'[d] = task[d] /\ Bystander(d)
  BY <1>t, <1>5, Moved
<1>8. /\ pending' = pending - (IF Reserves(c) THEN 1 ELSE 0) /\ pending' \in Nat
      /\ pending \in Nat
  BY <1>t, ReservationCounted DEF Unreserved, TypeOK, PoolInv
<1>9. TypeOK'
  BY <1>t, <1>1, <1>4, <1>7, <1>8 DEF TypeOK
<1>10. CallsInv'
  <2>1. Advances(c, stage, pod, names)
    BY <1>1, <1>2, <1>3, <1>5 DEF Advances, Making, Ending, Handling
  <2>2. stage \in Making => lease'[Session(c)] = None
    BY <1>1 DEF Making
  <2>3. stage # "publish"
    OBVIOUS
  <2>4. \A s \in Sessions : lease'[s] = lease[s] /\ (s \in window => s \in window')
    OBVIOUS
  <2> QED
    BY <1>t, <2>1, <2>2, <2>3, <2>4, AdvanceKeepsCalls
<1>11. \A m \in Names : Untouched(c, m) \/ Touched(c, m)
  <2>1. Touched(c, n)
    BY <1>3, <1>4, <1>7 DEF Touched, PodInOrder, Doomed, Keeps, Keeping, Handling
  <2>2. ASSUME NEW m \in Names, m # n PROVE Untouched(c, m)
    <3>1. ~ Keeps(c, m) /\ ~ Carries(c, m)
      BY <1>2, <2>2 DEF Keeps, Carries
    <3>2. ~ Keeps(c, m)'
      BY <1>7, <1>2, <2>2 DEF Keeps, Keeping, Handling, PodOf
    <3>3. ~ Wants(c, m)'
      BY <1>7, <1>2, <2>2 DEF Wants, PodOf
    <3> QED
      BY <1>4, <2>2, <3>1, <3>2, <3>3 DEF Untouched
  <2> QED
    BY <2>1, <2>2
<1>12. PodKept(c)' /\ ~ Reserves(c)'
  BY <1>7 DEF PodKept, Ending, Reserves, At
<1>13. LeasesAreBound' /\ LeasedIsMetered' /\ LimitKept'
  BY <1>t, <1>3, <1>4 DEF PoolInv, PodsInv, LeasesAreBound, LeasedIsMetered, LimitKept,
     BoundTo,
     Unleasable, TypeOK
<1>14. /\ Tracked' \subseteq Tracked \cup {n}
       /\ ~ Reserves(c) => Tracked' \subseteq Tracked
  <2>1. ~ Reserves(c) => pods[n].state # "none"
    BY <1>t, <1>2, <1>3 DEF Reserves, PodsInv, PodKept, Keeps, Keeping, Handling, Ending
  <2> QED
    BY <1>4, <2>1 DEF Tracked
<1> QED
  BY <1>7, <1>8, <1>9, <1>10, <1>11, <1>12, <1>13, <1>14, StepKeeps

LEMMA GivingUpKeeps ==
  ASSUME PoolInv, NEW c \in Actors, StartUsageFails(c) \/ ResetFails(c)
  PROVE  PoolInv'
<1>1. task[c].at \in Keeping
  BY DEF StartUsageFails, ResetFails, At, Keeping, Handling
<1>2. GotoWith(c, "delete", None, {PodOf(c)})
  BY DEF StartUsageFails, ResetFails, GotoDelete
<1>3. pods' = Quarantined(c) /\ pending' = Unreserved(c)
  BY DEF StartUsageFails, ResetFails, At, Unreserved, Reserves
<1>4. /\ window' \in {window, window \cup {Session(c)}}
      /\ UNCHANGED <<alive, lease, late, ensures, releases, closing, reap, restarts>>
  BY DEF StartUsageFails, ResetFails
<1> QED
  BY <1>1, <1>2, <1>3, <1>4, QuarantineKeeps

\* The lease is there for all to see.
LEMMA PublishKeeps ==
  ASSUME PoolInv, NEW c \in Actors, Publish(c)
  PROVE  PoolInv'
<1>t. TypeOK /\ CallsInv /\ PodsInv
  BY DEF PoolInv
<1>1. /\ closing # "done" /\ Session(c) \in Sessions /\ task[c].op = "ensure"
      /\ task[c].at = "publish" /\ task[c].at \in Keeping
  BY <1>t, ActiveIsOpen DEF Publish, At, Keeping, Handling
<1>2. CASE closing # "open"
  <2>1. GotoWith(c, "unmeter", PodOf(c), {})
    BY <1>2 DEF Publish, Goto
  <2> QED
    BY <1>1, <1>2, <2>1, QuarantineKeeps DEF Publish
<1>3. CASE closing = "open"
  <2>1. PICK n \in Names : n = PodOf(c)
    BY <1>t, <1>1, KeptPod
  <2>2. /\ \A d \in Actors \ {c} : ~ Keeps(d, n)
        /\ Keeps(c, n) /\ Unwanted(n) /\ Unleasable(n) /\ n # None
    BY <1>t, <1>1, <2>1, KeptPod, Distinct
  <2>3. /\ pods' = [pods EXCEPT ![n] = [state |-> "bound", tenant |-> TenantOf(Session(c)),
                                       session |-> Session(c), dirt |-> @.dirt]]
        /\ lease' = [lease EXCEPT ![Session(c)] = n]
        /\ late' = late \ {Session(c)}
        /\ GotoWith(c, "complete", None, {})
        /\ pending' = Unreserved(c)
        /\ UNCHANGED <<alive, ensures, releases, closing, reap, window, restarts>>
    BY <1>3, <2>1 DEF Publish, GotoDelete
  <2>4. pods[n].dirt = {}
    BY <1>t, <1>1, <2>1 DEF PodsInv, PodKept, PodInOrder, NoPod
  <2>5. /\ pods'[n] = [state |-> "bound", tenant |-> TenantOf(Session(c)),
                       session |-> Session(c), dirt |-> {}]
        /\ \A m \in Names : m # n => pods'[m] = pods[m]
        /\ pods' \in [Names -> Pod]
    BY <1>t, <1>1, <2>3, <2>4, Distinct DEF TypeOK, Pod, PodState
  <2>6. /\ lease'[Session(c)] = n /\ lease' \in [Sessions -> Names \cup {None}]
        /\ \A s \in Sessions : s # Session(c) => lease'[s] = lease[s]
    BY <1>t, <1>1, <2>3 DEF TypeOK
  <2>7. /\ task' \in [Actors -> Task]
        /\ task'[c] = [op |-> task[c].op, at |-> "complete", session |-> Session(c), pod |-> None,
                       todo |-> {}]
        /\ \A d \in Actors \ {c} : task'[d] = task[d] /\ Bystander(d)
    <3>1. "complete" \in Stage /\ None \in Names \cup {None} /\ {} \in SUBSET Names
      BY DEF Stage
    <3> QED
      BY <1>t, <2>3, <3>1, Moved
  <2>8. /\ pending' = pending - (IF Reserves(c) THEN 1 ELSE 0) /\ pending' \in Nat
        /\ pending \in Nat
    BY <1>t, <2>3, ReservationCounted DEF Unreserved, TypeOK, PoolInv
  <2>9. TypeOK'
    BY <1>t, <2>3, <2>5, <2>6, <2>7, <2>8 DEF TypeOK
  <2>10. CallsInv'
    <3>1. Advances(c, "complete", None, {})
      BY <1>1, <2>3 DEF Advances, Stage, Outside, Waiting, Making, Ending, Handling
    <3> QED
      BY <1>t, <1>1, <2>3, <2>6, <3>1, AdvanceKeepsCalls DEF Making
  <2>11. \A m \in Names : Untouched(c, m) \/ Touched(c, m)
    <3>1. Touched(c, n)
      <4>1. \A d \in Actors : ~ Wants(d, n)'
        BY <2>2, <2>7 DEF Unwanted, Wants, PodOf
      <4>2. PodInOrder(n)' /\ pods'[n].state # "none"
        BY <2>5 DEF PodInOrder
      <4> QED
        BY <2>2, <2>3, <4>1, <4>2 DEF Touched, Unwanted
    <3>2. ASSUME NEW m \in Names, m # n PROVE Untouched(c, m)
      BY <1>1, <2>1, <2>3, <2>5, <2>7, <3>2 DEF Untouched, Keeps, Carries, Wants, Keeping,
         Handling,
         PodOf
    <3> QED
      BY <3>1, <3>2
  <2>12. PodKept(c)' /\ ~ Reserves(c)'
    BY <2>7 DEF PodKept, Ending, Reserves, At
  <2>13. LeasesAreBound'
    <3>1. \A s \in Sessions : s # Session(c) /\ lease[s] # None => lease[s] # n /\ BoundTo(s, lease[s])
      BY <1>t, <1>1, <2>2 DEF PodsInv, LeasesAreBound, Unleasable
    <3> QED
      BY <1>t, <2>5, <2>6, <3>1 DEF LeasesAreBound, BoundTo, TypeOK
  <2>14. LeasedIsMetered'
    BY <1>t, <1>1, <2>3, <2>6 DEF PoolInv, LeasedIsMetered, CallsInv, LeaseToCome
  <2>15. LimitKept'
    <3>1. ensures[Session(c)] = c /\ c # None
      BY <1>t, <1>1, Distinct DEF CallsInv, Registered, Works, Session
    <3> QED
      BY <2>3, <2>6, <3>1, StepKeepsLimit DEF PoolInv
  <2>16. /\ Tracked' \subseteq Tracked \cup {n}
         /\ ~ Reserves(c) => Tracked' \subseteq Tracked
    <3>1. ~ Reserves(c) => pods[n].state # "none"
      BY <1>1, <2>1 DEF Reserves
    <3> QED
      BY <2>5, <3>1 DEF Tracked
  <2> QED
    BY <2>7, <2>8, <2>9, <2>10, <2>11, <2>12, <2>13, <2>14, <2>15, <2>16, StepKeeps
<1> QED
  BY <1>2, <1>3

\* A pod goes back to the others, and the idle ones are trimmed.
LEMMA ResetKeeps ==
  ASSUME PoolInv, NEW c \in Actors, Reset(c)
  PROVE  PoolInv'
<1>t. TypeOK /\ CallsInv /\ PodsInv
  BY DEF PoolInv
<1>1. /\ closing # "done" /\ Session(c) \in Sessions /\ task[c].op = "release"
      /\ task[c].at = "reset" /\ task[c].at \in Keeping
  BY <1>t, ActiveIsOpen DEF Reset, At, Keeping, Handling
<1>2. PICK n \in Names : n = PodOf(c)
  BY <1>t, <1>1, KeptPod
<1>3. /\ \A d \in Actors \ {c} : ~ Keeps(d, n)
      /\ Keeps(c, n) /\ Unwanted(n) /\ Unleasable(n) /\ pods[n].state = "resetting"
  BY <1>t, <1>1, <1>2, KeptPod DEF PodsInv, PodKept, Ending
<1> DEFINE after == IF closing = "open"
                    THEN [state |-> "idle", tenant |-> pods[n].tenant, session |-> None,
                    dirt |-> {}]
                    ELSE Doomed
           known == [pods EXCEPT ![n] = after]
<1>4. PICK names \in SUBSET Names :
        /\ Trims(known, names) /\ pods' = MarkDeleting(known, names)
        /\ GotoDelete(c, names)
  BY <1>t, <1>2 DEF Reset, Cleaned, TypeOK
<1>5. /\ known[n] = after /\ \A m \in Names : m # n => known[m] = pods[m]
      /\ \A m \in Names : known[m] \in Pod
  <2>1. after \in Pod
    BY <1>t DEF TypeOK, Pod, PodState, Doomed
  <2> HIDE DEF after
  <2> QED
    BY <1>t, <2>1 DEF TypeOK
<1> HIDE DEF known
<1>6. /\ \A m \in names : pods'[m] = Doomed /\ known[m].state = "idle"
      /\ \A m \in Names \ names : pods'[m] = known[m]
      /\ pods' \in [Names -> Pod]
  <2>1. Doomed \in Pod
    BY DEF Doomed, Pod, PodState
  <2> QED
    BY <1>4, <1>5, <2>1 DEF MarkDeleting, Trims
<1>7. PICK stage \in {"complete", "delete"} :
        (stage # "delete" => names = {}) /\ GotoWith(c, stage, None, names)
  BY <1>4 DEF GotoDelete
<1>8. /\ task' \in [Actors -> Task]
      /\ task'[c] = [op |-> task[c].op, at |-> stage, session |-> Session(c), pod |-> None,
                     todo |-> names]
      /\ \A d \in Actors \ {c} : task'[d] = task[d] /\ Bystander(d)
  <2>1. stage \in Stage /\ None \in Names \cup {None}
    BY DEF Stage
  <2> QED
    BY <1>t, <1>7, <2>1, Moved
<1>9. UNCHANGED <<alive, lease, late, ensures, releases, pending, closing, reap, window, restarts>>
  BY DEF Reset
<1>10. TypeOK'
  BY <1>t, <1>6, <1>8, <1>9 DEF TypeOK
<1>11. CallsInv'
  <2>1. Advances(c, stage, None, names)
    BY <1>1, <1>7, <1>9 DEF Advances, Stage, Outside, Waiting, Making, Ending, Handling
  <2> QED
    BY <1>t, <1>9, <2>1, AdvanceKeepsCalls DEF Making
<1>12. \A m \in Names : Untouched(c, m) \/ Touched(c, m)
  <2>1. ASSUME NEW m \in Names PROVE ~ Keeps(c, m)' /\ ~ Carries(c, m)' /\ (Wants(c, m)' <=> m \in names)
    BY <1>8 DEF Keeps, Carries, Wants, Keeping, Handling, PodOf
  <2>2. ASSUME NEW m \in names PROVE Touched(c, m)
    <3>1. \A d \in Actors \ {c} : ~ Keeps(d, m)
      <4>1. CASE m = n
        BY <1>3, <4>1
      <4>2. CASE m # n
        BY <1>t, <1>5, <1>6, <4>2, SparePod
      <4> QED
        BY <4>1, <4>2
    <3> QED
      BY <1>6, <2>1, <3>1 DEF Touched, PodInOrder, Doomed
  <2>3. ASSUME n \notin names PROVE Touched(c, n)
    <3>1. \A d \in Actors : ~ Wants(d, n)'
      BY <1>3, <1>8, <2>1, <2>3 DEF Unwanted, Wants, PodOf
    <3>2. PodInOrder(n)' /\ pods'[n].state # "none"
      BY <1>5, <1>6, <2>3 DEF PodInOrder, Doomed
    <3> QED
      BY <1>3, <1>9, <2>1, <3>1, <3>2 DEF Touched, Unwanted
  <2>4. ASSUME NEW m \in Names \ names, m # n PROVE Untouched(c, m)
    <3>1. ~ Keeps(c, m) /\ ~ Carries(c, m)
      BY <1>2, <2>4 DEF Keeps, Carries
    <3> QED
      BY <1>5, <1>6, <1>9, <2>1, <2>4, <3>1 DEF Untouched
  <2> QED
    BY <2>2, <2>3, <2>4
<1>13. PodKept(c)' /\ ~ Reserves(c)' /\ ~ Reserves(c)
  BY <1>1, <1>8 DEF PodKept, Ending, Reserves, At
<1>14. LeasesAreBound' /\ LeasedIsMetered' /\ LimitKept'
  <2>1. \A m \in Names : pods[m].state = "bound" => pods'[m] = pods[m]
    BY <1>3, <1>5, <1>6
  <2> QED
    BY <1>t, <1>9, <2>1 DEF PoolInv, PodsInv, LeasesAreBound, LeasedIsMetered, LimitKept,
       BoundTo,
       TypeOK
<1>15. Tracked' \subseteq Tracked /\ pending' = pending /\ pending \in Nat
  <2>1. \A m \in Names : pods'[m].state # "none" => pods[m].state # "none"
    BY <1>3, <1>5, <1>6 DEF Doomed
  <2> QED
    BY <1>t, <1>9, <2>1 DEF Tracked, TypeOK
<1> QED
  BY <1>8, <1>10, <1>11, <1>12, <1>13, <1>14, <1>15, StepKeeps

\* One of the pods a call must delete is deleted, or is not.
LEMMA DeletePodKeeps ==
  ASSUME PoolInv, NEW c \in Actors, DeletePod(c)
  PROVE  PoolInv'
<1>t. TypeOK /\ CallsInv /\ PodsInv
  BY DEF PoolInv
<1>1. /\ closing # "done" /\ Session(c) \in Sessions /\ task[c].at = "delete"
      /\ UNCHANGED <<lease, late, ensures, releases, pending, closing, reap, window, restarts>>
  BY <1>t, ActiveIsOpen DEF DeletePod
<1>2. PICK n \in task[c].todo : Deletion(n) /\ GotoDelete(c, task[c].todo \ {n})
  BY DEF DeletePod
<1>3. n \in Names /\ task[c].todo \in SUBSET Names /\ Discarded(n)
  BY <1>t, <1>2 DEF TypeOK, Task, PodsInv, Discards
<1>4. PICK stage \in {"complete", "delete"}, names \in SUBSET task[c].todo :
        (stage # "delete" => names = {}) /\ GotoWith(c, stage, None, names)
  BY <1>2 DEF GotoDelete
<1>5. /\ task' \in [Actors -> Task]
      /\ task'[c] = [op |-> task[c].op, at |-> stage, session |-> Session(c), pod |-> None,
                     todo |-> names]
      /\ \A d \in Actors \ {c} : task'[d] = task[d] /\ Bystander(d)
  <2>1. stage \in Stage /\ None \in Names \cup {None} /\ names \in SUBSET Names
    BY <1>3 DEF Stage
  <2> QED
    BY <1>t, <1>4, <2>1, Moved
<1>6. /\ \A m \in Names : m # n => pods'[m] = pods[m] /\ alive'[m] = alive[m]
      /\ \/ pods'[n] = NoPod /\ alive'[n] = "no"
         \/ pods'[n] = pods[n] /\ alive'[n] = alive[n]
      /\ pods' \in [Names -> Pod] /\ alive' \in [Names -> {"no", "mine", "orphan"}]
  <2>1. NoPod \in Pod
    BY DEF NoPod, Pod, PodState
  <2> QED
    BY <1>t, <1>2, <1>3, <2>1 DEF Deletion, TypeOK
<1>7. TypeOK'
  BY <1>t, <1>1, <1>5, <1>6 DEF TypeOK
<1>8. CallsInv'
  <2>1. Advances(c, stage, None, names)
    BY <1>1, <1>4 DEF Advances, Stage, Outside, Waiting, Making, Ending, Handling
  <2> QED
    BY <1>t, <1>1, <2>1, AdvanceKeepsCalls DEF Making
<1>9. \A m \in Names : Untouched(c, m) \/ Touched(c, m)
  <2>1. ASSUME NEW m \in Names
        PROVE  ~ Keeps(c, m) /\ ~ Keeps(c, m)' /\ ~ Carries(c, m) /\ (Wants(c, m)' => Wants(c, m))
    BY <1>1, <1>5 DEF Keeps, Carries, Wants, Keeping, Handling, PodOf
  <2>2. CASE pods'[n] = NoPod /\ alive'[n] = "no"
    <3>1. Touched(c, n)
      BY <1>3, <2>1, <2>2 DEF Touched, Discarded, PodInOrder, NoPod
    <3> QED
      BY <1>1, <1>6, <2>1, <3>1 DEF Untouched
  <2>3. CASE pods'[n] = pods[n] /\ alive'[n] = alive[n]
    BY <1>1, <1>6, <2>1, <2>3 DEF Untouched
  <2> QED
    BY <1>6, <2>2, <2>3
<1>10. PodKept(c)' /\ ~ Reserves(c)' /\ ~ Reserves(c)
  BY <1>1, <1>5 DEF PodKept, Ending, Reserves, At
<1>11. LeasesAreBound' /\ LeasedIsMetered' /\ LimitKept'
  <2>1. \A m \in Names : pods[m].state = "bound" => pods'[m] = pods[m]
    BY <1>3, <1>6 DEF Discarded
  <2> QED
    BY <1>t, <1>1, <2>1 DEF PoolInv, PodsInv, LeasesAreBound, LeasedIsMetered, LimitKept,
       BoundTo,
       TypeOK
<1>12. Tracked' \subseteq Tracked /\ pending' = pending /\ pending \in Nat
  BY <1>t, <1>1, <1>6 DEF Tracked, TypeOK, NoPod
<1> QED
  BY <1>5, <1>7, <1>8, <1>9, <1>10, <1>11, <1>12, StepKeeps

\* A call ends and wakes the others.
LEMMA CompleteKeeps ==
  ASSUME PoolInv, NEW c \in Actors, Complete(c)
  PROVE  PoolInv'
<1>t. TypeOK /\ CallsInv /\ PodsInv
  BY DEF PoolInv
<1>1. /\ task[c].at = "complete" /\ Session(c) \in Sessions
      /\ UNCHANGED <<alive, pods, lease, late, pending, closing, reap, window, restarts>>
      /\ task' = [d \in Actors |-> IF d = c THEN NoTask ELSE Woken(d, task[c].op, Session(c))]
      /\ ensures' \in [Sessions -> Actors \cup {None}]
      /\ releases' \in [Sessions -> Actors \cup {None}]
      /\ \A s \in Sessions : ensures'[s] # None => ensures[s] # None
  BY <1>t, ActiveIsOpen DEF Complete, TypeOK
<1>2. ASSUME NEW d \in Actors PROVE task'[d] \in Task /\ (d # c => Bystander(d))
  <2>1. NoTask \in Task
    BY DEF NoTask, Task, Stage
  <2>2. CASE task'[d] = NoTask /\ d = c
    BY <2>1, <2>2
  <2>3. CASE d # c /\ task'[d] = task[d]
    BY <1>t, <2>3 DEF Bystander, TypeOK
  <2>4. CASE d # c /\ task[d].at \in Waiting /\ task'[d] = NoTask
    BY <2>1, <2>4 DEF Bystander, Outside, NoTask
  <2>5. CASE d # c /\ task[d].at \in Waiting /\ task'[d] = [task[d] EXCEPT !.at = "loop"]
    <3>1. /\ task[d] \in Task /\ task[d].todo = {}
      BY <1>t, <2>5 DEF TypeOK, CallsInv, TaskInOrder, Waiting
    <3>2. /\ task'[d] = [op |-> task[d].op, at |-> "loop", session |-> task[d].session,
                         pod |-> task[d].pod, todo |-> task[d].todo]
      BY <2>5, <3>1 DEF Task
    <3> QED
      BY <2>5, <3>1, <3>2 DEF Bystander, Outside, Task, Stage
  <2> QED
    BY <1>1, <2>2, <2>3, <2>4, <2>5 DEF Woken, Channel, Waiting
<1>3. TypeOK'
  BY <1>t, <1>1, <1>2 DEF TypeOK
<1>4. CallsInv'
  BY <1>t, CompleteKeepsCalls
<1>5. task'[c] = NoTask
  BY <1>1
<1>6. \A m \in Names : Untouched(c, m)
  BY <1>1, <1>5 DEF Untouched, Keeps, Carries, Wants, Keeping, Handling, PodOf, NoTask
<1>7. PodKept(c)' /\ ~ Reserves(c)' /\ ~ Reserves(c)
  BY <1>1, <1>5 DEF PodKept, Ending, Reserves, At, NoTask
<1>8. LeasesAreBound' /\ LeasedIsMetered'
  BY <1>1 DEF PoolInv, PodsInv, LeasesAreBound, LeasedIsMetered, BoundTo
<1>9. LimitKept'
  BY <1>1, StepKeepsLimit DEF PoolInv
<1>10. Tracked' \subseteq Tracked /\ pending' = pending /\ pending \in Nat
  BY <1>t, <1>1 DEF Tracked, TypeOK
<1> QED
  BY <1>2, <1>3, <1>4, <1>6, <1>7, <1>8, <1>9, <1>10, StepKeeps

\* The process does something that is not a step of a call.
LEMMA QuietKeeps ==
  ASSUME PoolInv, TypeOK', closing # "done", closing' # "done",
         UNCHANGED <<task, ensures, releases, lease, window, pending>>,
         \A n \in Names :
           \/ /\ pods'[n] = pods[n] /\ (alive'[n] = "mine" => alive[n] = "mine")
              /\ n \in reap'.delete => n \in reap.delete
           \/ /\ \A d \in Actors : ~ Keeps(d, n)
              /\ n \in reap'.delete \/ (\E d \in Actors : Wants(d, n)) =>
                   pods'[n].state \in {"none", "deleting"}
              /\ PodInOrder(n)'
              /\ alive'[n] = "mine" => pods'[n].state # "none",
         LeasesAreBound', Tracked' \subseteq Tracked
  PROVE  PoolInv'
<1>t. TypeOK /\ CallsInv /\ PodsInv
  BY DEF PoolInv
<1>1. Reaper \in Actors /\ \A d \in Actors \ {Reaper} : Bystander(d)
  BY DEF Actors, Bystander
<1>2. CallsInv'
  <2>1. \A c \in Actors : TaskInOrder(c)' /\ Registered(c)' /\ WaitsForCall(c)' /\ LeaseToCome(c)'
    BY <1>t DEF CallsInv, TaskInOrder, Registered, WaitsForCall, LeaseToCome, Works,
       Session, PodOf
  <2>2. \A s \in Sessions : SessionInOrder(s)'
    BY <1>t DEF CallsInv, SessionInOrder, Works
  <2> QED
    BY <2>1, <2>2 DEF CallsInv, AtRest
<1>3. \A d \in Actors, n \in Names :
        /\ Keeps(d, n)' <=> Keeps(d, n)
        /\ Carries(d, n)' <=> Carries(d, n)
        /\ Wants(d, n)' <=> Wants(d, n)
  BY DEF Keeps, Carries, Wants, PodOf
<1>4. \A n \in Names : Untouched(Reaper, n) \/ Touched(Reaper, n)
  BY <1>1, <1>3 DEF Untouched, Touched
<1>5. PodKept(Reaper)' /\ (Reserves(Reaper)' <=> Reserves(Reaper))
  <2>1. CASE task[Reaper].at \in Keeping
    <3>1. PodOf(Reaper) \in Names /\ Keeps(Reaper, PodOf(Reaper))
      BY <1>t, <1>1, <2>1, KeptPod
    <3>2. pods'[PodOf(Reaper)] = pods[PodOf(Reaper)]
      BY <1>1, <3>1
    <3> QED
      BY <1>t, <1>1, <3>2 DEF PodsInv, PodKept, PodOf, Session, Reserves, At
  <2>2. CASE task[Reaper].at \notin Keeping
    BY <2>2 DEF PodKept, Reserves, At, Keeping, Handling, Ending
  <2> QED
    BY <2>1, <2>2
<1>6. LeasedIsMetered' /\ LimitKept'
  BY DEF PoolInv, LeasedIsMetered, LimitKept
<1>7. pending' = pending /\ pending \in Nat
  BY <1>t DEF TypeOK
<1> QED
  BY <1>1, <1>2, <1>4, <1>5, <1>6, <1>7, StepKeeps

\* Bound pods stay what they are.
LEMMA BoundStay ==
  ASSUME TypeOK, LeasesAreBound, UNCHANGED <<lease, closing>>,
         \A n \in Names : pods[n].state = "bound" =>
                            pods'[n].state = "bound" /\ pods'[n].session = pods[n].session
  PROVE  LeasesAreBound'
BY DEF LeasesAreBound, BoundTo, TypeOK

LEMMA TickKeeps ==
  ASSUME PoolInv, Tick
  PROVE  PoolInv'
<1>t. TypeOK /\ CallsInv /\ PodsInv
  BY DEF PoolInv
<1>1. PICK names \in SUBSET Names, passed \in SUBSET {s \in Sessions : lease[s] # None} :
        /\ Trims(pods, names)
        /\ pods' = MarkDeleting(pods, names)
        /\ late' = late \cup passed
        /\ reap' = [on |-> TRUE, delete |-> names \cup InState("deleting"),
                    expired |-> late \cup passed]
  BY DEF Tick
<1>2. /\ \A n \in names : pods'[n] = Doomed /\ pods[n].state = "idle"
      /\ \A n \in Names \ names : pods'[n] = pods[n]
      /\ pods' \in [Names -> Pod]
  <2>1. Doomed \in Pod
    BY DEF Doomed, Pod, PodState
  <2> QED
    BY <1>t, <1>1, <2>1 DEF MarkDeleting, Trims, TypeOK
<1>3. TypeOK'
  BY <1>t, <1>1, <1>2 DEF Tick, TypeOK, InState
<1>4. ASSUME NEW n \in Names, n \in reap'.delete
      PROVE  /\ \A d \in Actors : ~ Keeps(d, n)
             /\ pods'[n].state = "deleting" /\ PodInOrder(n)'
  <2>1. pods[n].state \in {"idle", "deleting"} /\ pods'[n].state = "deleting"
    BY <1>1, <1>2, <1>4 DEF InState, Doomed
  <2> QED
    BY <1>t, <2>1 DEF PodsInv, PodKept, PodInOrder, Keeps, Keeping, Handling, Ending
<1>5. \A n \in Names : n \notin reap'.delete => pods'[n] = pods[n]
  BY <1>1, <1>2
<1>6. LeasesAreBound' /\ Tracked' \subseteq Tracked
  BY <1>t, <1>2, BoundStay DEF PodsInv, Tick, Tracked
<1> QED
  BY <1>3, <1>4, <1>5, <1>6, QuietKeeps DEF Tick

LEMMA ReapingKeeps ==
  ASSUME PoolInv, \/ \E s \in Sessions : ReapExpired(s)
                  \/ \E n \in Names : ReapPod(n)
                  \/ ReapOrphans
  PROVE  PoolInv'
<1>t. TypeOK /\ CallsInv /\ PodsInv /\ LeasesAreBound
  BY DEF PoolInv, PodsInv
<1>1. ASSUME NEW s \in Sessions, ReapExpired(s) PROVE PoolInv'
  <2>1. /\ reap.on /\ closing # "done" /\ task[Reaper] = NoTask /\ Reaper \in Actors
        /\ reap' = [reap EXCEPT !.expired = @ \ {s}]
    BY <1>t, <1>1 DEF ReapExpired, CallsInv, AtRest, Actors
  <2>2. /\ reap' \in [on: BOOLEAN, expired: SUBSET Sessions, delete: SUBSET Names]
        /\ reap'.on = reap.on /\ reap'.delete = reap.delete
    BY <1>t, <2>1 DEF TypeOK
  <2>3. CASE closing = "open"
    <3>1. Entered("release", s) \in Task
      BY DEF Entered, Task, Stage
    <3>2. /\ task' = [task EXCEPT ![Reaper] = Entered("release", s)]
          /\ UNCHANGED <<alive, pods, leases, flight, pending, closing, window, restarts>>
      BY <1>1, <2>3 DEF ReapExpired
    <3>3. task[Reaper].at \in Outside
      BY <2>1 DEF NoTask, Outside
    <3>4. Idles(Reaper, Entered("release", s))
      BY <2>1, <2>2, <3>1, <3>2, <3>3 DEF Idles, Entered
    <3> QED
      BY <2>1, <2>2, <3>4, IdlingKeeps
  <2>4. CASE closing # "open"
    <3>1. UNCHANGED <<alive, pods, lease, late, ensures, releases, pending, closing, task, window,
                      restarts>>
      BY <1>1, <2>4 DEF ReapExpired
    <3>2. TypeOK' /\ LeasesAreBound' /\ Tracked' \subseteq Tracked
      BY <1>t, <2>2, <3>1 DEF TypeOK, LeasesAreBound, BoundTo, Tracked
    <3> QED
      BY <2>1, <2>2, <3>1, <3>2, QuietKeeps
  <2> QED
    BY <2>3, <2>4
<1>2. ASSUME NEW n \in Names, ReapPod(n) PROVE PoolInv'
  <2>1. /\ reap.on /\ closing # "done" /\ n \in reap.delete /\ Discarded(n)
        /\ reap' = [reap EXCEPT !.delete = @ \ {n}] /\ Deletion(n)
    BY <1>t, <1>2 DEF ReapPod, CallsInv, AtRest, PodsInv
  <2>2. /\ reap' \in [on: BOOLEAN, expired: SUBSET Sessions, delete: SUBSET Names]
        /\ reap'.delete \subseteq reap.delete
    BY <1>t, <2>1 DEF TypeOK
  <2>3. /\ \A m \in Names : m # n => pods'[m] = pods[m] /\ alive'[m] = alive[m]
        /\ \/ pods'[n] = NoPod /\ alive'[n] = "no"
           \/ pods'[n] = pods[n] /\ alive'[n] = alive[n]
        /\ pods' \in [Names -> Pod] /\ alive' \in [Names -> {"no", "mine", "orphan"}]
    <3>1. NoPod \in Pod
      BY DEF NoPod, Pod, PodState
    <3> QED
      BY <1>t, <2>1, <3>1 DEF Deletion, TypeOK
  <2>4. TypeOK'
    BY <1>t, <1>2, <2>2, <2>3 DEF ReapPod, TypeOK
  <2>5. LeasesAreBound' /\ Tracked' \subseteq Tracked
    BY <1>t, <1>2, <2>1, <2>3, BoundStay DEF Discarded, ReapPod, Tracked, NoPod
  <2>6. pods'[n] = NoPod => PodInOrder(n)' /\ pods'[n].state = "none"
    BY DEF PodInOrder, NoPod
  <2> QED
    BY <1>2, <2>1, <2>2, <2>3, <2>4, <2>5, <2>6, QuietKeeps DEF Discarded, ReapPod
<1>3. CASE ReapOrphans
  <2>1. PICK gone \in SUBSET {n \in Names : alive[n] = "orphan"} :
          alive' = [n \in Names |-> IF n \in gone THEN "no" ELSE alive[n]]
    BY <1>3 DEF ReapOrphans
  <2>2. /\ reap' = NoTick /\ closing # "done"
        /\ UNCHANGED <<pods, lease, late, ensures, releases, pending, closing, task, window,
                       restarts>>
    BY <1>t, <1>3 DEF ReapOrphans, CallsInv, AtRest
  <2>3. TypeOK' /\ LeasesAreBound' /\ Tracked' \subseteq Tracked
    BY <1>t, <2>1, <2>2 DEF TypeOK, LeasesAreBound, BoundTo, Tracked, NoTick
  <2> QED
    BY <2>1, <2>2, <2>3, QuietKeeps DEF NoTick
<1> QED
  BY <1>1, <1>2, <1>3

LEMMA CloseKeeps ==
  ASSUME PoolInv, Close
  PROVE  PoolInv'
<1>1. TypeOK' /\ closing = "open" /\ closing' = "closed" /\ LeasesAreBound'
      /\ Tracked' \subseteq Tracked
  BY DEF Close, PoolInv, TypeOK, PodsInv, LeasesAreBound, BoundTo, Tracked
<1> QED
  BY <1>1, QuietKeeps DEF Close

\* When every operation has returned there is nothing left but pods.
LEMMA CloseAllKeeps ==
  ASSUME PoolInv, CloseAll
  PROVE  PoolInv'
<1>t. TypeOK /\ CallsInv /\ PodsInv
  BY DEF PoolInv
<1>1. /\ closing' = "done" /\ ~ reap.on /\ \A c \in Actors : task[c] = NoTask
      /\ UNCHANGED <<lease, late, ensures, releases, pending, task, reap, restarts>>
      /\ window' \in SUBSET window
  BY DEF CloseAll
<1>2. PICK left \in SUBSET Tracked :
        /\ alive' = [n \in Names |-> IF n \in Tracked \ left THEN "no" ELSE alive[n]]
        /\ pods'  = [n \in Names |-> IF n \in left THEN pods[n] ELSE NoPod]
  BY DEF CloseAll
<1>3. TypeOK'
  <2>1. NoPod \in Pod
    BY DEF NoPod, Pod, PodState
  <2> QED
    BY <1>t, <1>1, <1>2, <2>1 DEF TypeOK
<1>4. \A c \in Actors : task'[c] = NoTask
  BY <1>1
<1>5. CallsInv'
  <2>1. \A s \in Sessions : ensures[s] = None /\ releases[s] = None
    BY <1>t, <1>1 DEF CallsInv, SessionInOrder, Works, NoTask, TypeOK
  <2>2. \A s \in Sessions : SessionInOrder(s)'
    BY <1>1, <2>1 DEF SessionInOrder
  <2>3. \A c \in Actors : TaskInOrder(c)' /\ Registered(c)' /\ WaitsForCall(c)' /\ LeaseToCome(c)'
    BY <1>4 DEF TaskInOrder, Registered, WaitsForCall, LeaseToCome, Works, NoTask, PodOf,
       Making,
       Ending, Handling
  <2>4. AtRest'
    BY <1>1, <1>4 DEF AtRest
  <2> QED
    BY <2>2, <2>3, <2>4 DEF CallsInv
<1>6. Reaper \in Actors /\ \A d \in Actors : Bystander(d)
  BY <1>1 DEF Actors, Bystander
<1>7. \A d \in Actors, n \in Names :
        /\ ~ Keeps(d, n) /\ ~ Keeps(d, n)' /\ ~ Carries(d, n) /\ ~ Wants(d, n) /\ ~ Wants(d, n)'
  BY <1>1, <1>4 DEF Keeps, Carries, Wants, Keeping, Handling, NoTask, PodOf
<1>8. ASSUME NEW n \in Names PROVE Untouched(Reaper, n) \/ Touched(Reaper, n)
  <2>1. CASE n \in left
    BY <1>1, <1>2, <1>6, <1>7, <2>1 DEF Untouched
  <2>2. CASE n \notin left
    <3>1. pods'[n] = NoPod
      BY <1>2, <2>2
    <3>2. alive'[n] # "mine"
      BY <1>t, <1>2, <1>6, <1>7, <2>2 DEF PodsInv, NothingLeaks, Carries
    <3> QED
      BY <1>6, <1>7, <3>1, <3>2 DEF Touched, PodInOrder, NoPod
  <2> QED
    BY <2>1, <2>2
<1>9. PodKept(Reaper)' /\ ~ Reserves(Reaper) /\ ~ Reserves(Reaper)'
  BY <1>1, <1>4, <1>6 DEF PodKept, Ending, Reserves, At, NoTask
<1>10. LeasesAreBound' /\ LeasedIsMetered' /\ LimitKept'
  BY <1>1 DEF PoolInv, LeasesAreBound, LeasedIsMetered, LimitKept
<1>11. Tracked' \subseteq Tracked /\ pending' = pending /\ pending \in Nat
  BY <1>t, <1>1, <1>2 DEF Tracked, TypeOK, NoPod
<1> QED
  BY <1>3, <1>5, <1>6, <1>8, <1>9, <1>10, <1>11, StepKeeps

\* A session works in its browser.
LEMMA BrowseKeeps ==
  ASSUME PoolInv, NEW s \in Sessions, Browse(s)
  PROVE  PoolInv'
<1>t. TypeOK /\ CallsInv /\ PodsInv
  BY DEF PoolInv
<1>1. PICK n \in Names : /\ n = lease[s] /\ BoundTo(s, n)
                         /\ pods' = [pods EXCEPT ![n].dirt = @ \cup {s}]
  BY <1>t DEF Browse, PodsInv, LeasesAreBound, TypeOK
<1>2. /\ closing # "done"
      /\ UNCHANGED <<alive, lease, late, ensures, releases, pending, closing, task, reap, window,
                     restarts>>
  BY DEF Browse
<1>3. /\ pods'[n] = [state |-> "bound", tenant |-> pods[n].tenant, session |-> s,
                     dirt |-> pods[n].dirt \cup {s}]
      /\ \A m \in Names : m # n => pods'[m] = pods[m]
      /\ pods' \in [Names -> Pod]
  <2>1. /\ pods'[n] = [pods[n] EXCEPT !.dirt = pods[n].dirt \cup {s}]
        /\ \A m \in Names : m # n => pods'[m] = pods[m]
        /\ pods' = [m \in Names |-> pods'[m]]
    BY <1>t, <1>1 DEF TypeOK
  <2>2. \A m \in Names : pods[m] \in Pod
    BY <1>t DEF TypeOK
  <2>3. pods'[n] = [state |-> "bound", tenant |-> pods[n].tenant, session |-> s,
                    dirt |-> pods[n].dirt \cup {s}]
    <3> DEFINE left == pods[n].dirt \cup {s}
    <3>1. pods'[n] = [pods[n] EXCEPT !.dirt = left] /\ pods[n] \in Pod
      BY <2>1, <2>2
    <3> HIDE DEF left
    <3>2. pods'[n] = [state |-> "bound", tenant |-> pods[n].tenant, session |-> s, dirt |-> left]
      BY <1>1, <3>1 DEF Pod, BoundTo
    <3> QED
      BY <3>2 DEF left
  <2>4. pods'[n] \in Pod
    BY <2>2, <2>3 DEF Pod, PodState
  <2> QED
    BY <2>1, <2>2, <2>3, <2>4
<1>4. TypeOK'
  BY <1>t, <1>2, <1>3 DEF TypeOK
<1>5. (\A d \in Actors : ~ Keeps(d, n)) /\ Unwanted(n)
  BY <1>t, <1>1, SparePod DEF BoundTo
<1>6. PodInOrder(n)' /\ pods'[n].state # "none"
  BY <1>t, <1>1, <1>3 DEF PodsInv, PodInOrder, BoundTo
<1>7. LeasesAreBound' /\ Tracked' \subseteq Tracked
  <2>1. \A m \in Names : /\ pods'[m].state = pods[m].state
                         /\ pods'[m].session = pods[m].session
    BY <1>1, <1>3 DEF BoundTo
  <2> QED
    BY <1>t, <1>2, <2>1, BoundStay DEF PodsInv, Tracked
<1> QED
  BY <1>2, <1>3, <1>4, <1>5, <1>6, <1>7, QuietKeeps DEF Unwanted

-----------------------------------------------------------------------------
(* A process that starts.                                                  *)

\* The pods of earlier processes may be there, and so may windows.
Starting ==
  /\ alive    \in [Names -> {"no", "orphan"}]
  /\ pods     = [n \in Names |-> NoPod]
  /\ lease    = [s \in Sessions |-> None]
  /\ late     = {}
  /\ ensures  = [s \in Sessions |-> None]
  /\ releases = [s \in Sessions |-> None]
  /\ pending  = 0
  /\ closing  = "open"
  /\ task     = [c \in Actors |-> NoTask]
  /\ reap     = NoTick
  /\ window   \in SUBSET Sessions
  /\ restarts \in 0..MaxRestarts

LEMMA StartingInv == Starting => PoolInv
<1> SUFFICES ASSUME Starting PROVE PoolInv
  OBVIOUS
<1>1. TypeOK
  <2>1. NoPod \in Pod /\ NoTask \in Task
    BY DEF NoPod, Pod, PodState, NoTask, Task, Stage
  <2> QED
    BY <2>1 DEF Starting, TypeOK, NoTick
<1>2. CallsInv
  BY DEF Starting, CallsInv, TaskInOrder, Registered, WaitsForCall, LeaseToCome,
     SessionInOrder,
     AtRest, Works, NoTask, PodOf, Making, Ending, Handling
<1>3. PodsInv
  <2>1. \A c \in Actors : PodKept(c) /\ Discards(c)
    BY DEF Starting, PodKept, Discards, NoTask, Ending
  <2>2. \A n \in Names : PodInOrder(n)
    BY DEF Starting, PodInOrder, NoPod
  <2>3. OnePodEach
    BY DEF Starting, OnePodEach, Keeps, NoTask, Keeping, Handling
  <2> QED
    BY <2>1, <2>2, <2>3 DEF Starting, PodsInv, LeasesAreBound, NothingLeaks, NoTick
<1>4. LeasedIsMetered
  BY DEF Starting, LeasedIsMetered
<1>5. CapacityKept
  <2>1. Tracked = {} /\ {c \in Actors : Reserves(c)} = {}
    BY DEF Starting, Tracked, NoPod, Reserves, At, NoTask
  <2>2. Cardinality({}) = 0
    BY FS_EmptySet
  <2>3. Cardinality(Tracked) = 0 /\ Cardinality({c \in Actors : Reserves(c)}) = 0
    BY <2>1, <2>2, Zenon
  <2> QED
    BY <2>3, BrowserPoolAssumption DEF Starting, CapacityKept
<1>6. LimitKept
  <2> SUFFICES ASSUME NEW t \in Tenants PROVE Cardinality(Allocated(t)) <= Limit
    BY DEF LimitKept, Allocated
  <2>1. Allocated(t) = {}
    BY DEF Starting, Allocated
  <2>2. Cardinality(Allocated(t)) = 0
    BY <2>1, FS_EmptySet, Zenon
  <2> QED
    BY <2>2, BrowserPoolAssumption
<1> QED
  BY <1>1, <1>2, <1>3, <1>4, <1>5, <1>6 DEF PoolInv

LEMMA RestartKeeps ==
  ASSUME PoolInv, Restart
  PROVE  PoolInv'
<1>1. Starting'
  <2>1. /\ alive' \in [Names -> {"no", "orphan"}]
        /\ window' \in SUBSET Sessions /\ restarts' \in 0..MaxRestarts
    BY BrowserPoolAssumption DEF Restart, PoolInv, TypeOK
  <2> QED
    BY <2>1 DEF Restart, Starting
<1> QED
  BY <1>1, StartingInv, PTL

-----------------------------------------------------------------------------
(* The theorems.                                                           *)

LEMMA NextKeepsInv == PoolInv /\ [Next]_vars => PoolInv'
<1> SUFFICES ASSUME PoolInv, [Next]_vars PROVE PoolInv'
  OBVIOUS
<1>1. ASSUME NEW c \in Actors, Proceed(c) \/ CancelWait(c) PROVE PoolInv'
  <2>1. CASE FindLease(c) \/ Await(c) \/ CancelWait(c) \/ RefuseLimit(c) \/ NothingToRelease(c)
    BY <2>1, LookingKeeps
  <2>2. CASE Reuse(c) \/ Create(c) \/ BeginRelease(c)
    BY <2>2, ReuseKeeps, CreateKeeps, BeginReleaseKeeps
  <2>3. CASE Provision(c) \/ ProvisionFails(c) \/ Publish(c)
    BY <2>3, ProvisionKeeps, ProvisionFailsKeeps, PublishKeeps
  <2>4. CASE StartUsage(c) \/ FinishUsage(c) \/ Unmeter(c)
    BY <2>4, MeteringKeeps
  <2>5. CASE StartUsageFails(c) \/ ResetFails(c)
    BY <2>5, GivingUpKeeps
  <2>6. CASE Reset(c) \/ DeletePod(c) \/ Complete(c)
    BY <2>6, ResetKeeps, DeletePodKeeps, CompleteKeeps
  <2> QED
    BY <1>1, <2>1, <2>2, <2>3, <2>4, <2>5, <2>6 DEF Proceed
<1>2. ASSUME NEW c \in Calls, NEW op \in {"ensure", "release"}, NEW s \in Sessions, Begin(c, op, s)
      PROVE  PoolInv'
  BY <1>2, LookingKeeps DEF Actors
<1>3. CASE ReaperGoesOn
  BY <1>3, TickKeeps, ReapingKeeps DEF ReaperGoesOn
<1>4. CASE Close \/ CloseAll \/ Restart
  BY <1>4, CloseKeeps, CloseAllKeeps, RestartKeeps
<1>5. CASE \E s \in Sessions : Browse(s)
  BY <1>5, BrowseKeeps
<1>6. CASE UNCHANGED vars
  <2>1. TypeOK'
    BY <1>6 DEF PoolInv, vars, TypeOK
  <2>2. CallsInv'
    BY <1>6 DEF PoolInv, vars, CallsInv, TaskInOrder, Registered, WaitsForCall, LeaseToCome,
       SessionInOrder, AtRest, Works, Session, PodOf
  <2>3. PodsInv'
    BY <1>6 DEF PoolInv, vars, PodsInv, PodKept, Discards, Discarded, OnePodEach, Keeps,
       PodInOrder,
       LeasesAreBound, BoundTo, NothingLeaks, Tracked, Session, PodOf
  <2>4. LeasedIsMetered' /\ LimitKept'
    BY <1>6 DEF PoolInv, vars, LeasedIsMetered, LimitKept
  <2>5. CapacityKept'
    BY <1>6 DEF PoolInv, vars, CapacityKept, Tracked, Reserves, At, PodOf
  <2> QED
    BY <2>1, <2>2, <2>3, <2>4, <2>5 DEF PoolInv
<1> QED
  BY <1>1, <1>2, <1>3, <1>4, <1>5, <1>6 DEF Next

\* All goroutines, pods, leases and counts of one process agree at all times, and
\* a restart begins again from there.
THEOREM PoolInvariant == Spec => []PoolInv
<1>1. Init => PoolInv
  <2>1. Init => Starting
    BY BrowserPoolAssumption DEF Init, Starting
  <2> QED
    BY <2>1, StartingInv
<1> QED
  BY <1>1, NextKeepsInv, PTL DEF Spec

\* The maps of the pool only ever hold what their types say.
THEOREM PoolTyped == Spec => []TypeOK
<1>1. PoolInv => TypeOK
  BY DEF PoolInv
<1> QED
  BY <1>1, PoolInvariant, PTL

\* Release: a lease is one of a bound pod of its session; "inconsistent pod state"
\* does not happen.
THEOREM LeasesStayBound == Spec => []LeasesAreBound
<1>1. PoolInv => LeasesAreBound
  BY DEF PoolInv, PodsInv
<1> QED
  BY <1>1, PoolInvariant, PTL

\* releasePod, bindIdlePod: no session finds in a browser what another one did
\* under its lease.
THEOREM BrowsersAreClean == Spec => []CleanHandover
<1>1. PoolInv => CleanHandover
  BY DEF PoolInv, PodsInv, CleanHandover, PodInOrder
<1> QED
  BY <1>1, PoolInvariant, PTL

\* ensureBrowser, provisionPod: MaxPodsTotal is kept, and no path leaks a pending
\* creation.
THEOREM CapacityIsKept == Spec => []CapacityKept
<1>1. PoolInv => CapacityKept
  BY DEF PoolInv
<1> QED
  BY <1>1, PoolInvariant, PTL

\* ensureBrowser: a tenant's leases, made and in the making, stay within its plan.
THEOREM PlanIsKept == Spec => []LimitKept
<1>1. PoolInv => LimitKept
  BY DEF PoolInv
<1> QED
  BY <1>1, PoolInvariant, PTL

\* "New leases fail closed if a billable window cannot be persisted".
THEOREM LeasesAreMetered == Spec => []LeasedIsMetered
<1>1. PoolInv => LeasedIsMetered
  BY DEF PoolInv
<1> QED
  BY <1>1, PoolInvariant, PTL

\* quarantineAndDelete and its like: every pod of the process is tracked, or in the
\* hands of a call.
THEOREM NoPodLeaks == Spec => []NothingLeaks
<1>1. PoolInv => NothingLeaks
  BY DEF PoolInv, PodsInv
<1> QED
  BY <1>1, PoolInvariant, PTL

\* waitForSignal: who waits, waits for a call at work that waits for nobody.
THEOREM NobodyWaitsInVain == Spec => []WaitsAreForWork
<1>1. PoolInv => WaitsAreForWork
  BY DEF PoolInv, CallsInv, WaitsForCall, SessionInOrder, WaitsAreForWork
<1> QED
  BY <1>1, PoolInvariant, PTL
=============================================================================

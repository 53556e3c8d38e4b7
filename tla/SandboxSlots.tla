---------------------------- MODULE SandboxSlots ----------------------------
(***************************************************************************)
(* The concurrent-sandbox slots of one tenant: who may take one, how many  *)
(* rows are counted, and what each gateway pod adds from its own memory.   *)
(*                                                                         *)
(* A slot is never written down: it is COUNTED, from lifecycle_state and   *)
(* the open billing window, by whoever wants one.  Inserts and API starts  *)
(* count and write under the tenant's advisory lock; a direct session      *)
(* creation counts first and writes its placeholder later; the start verb, *)
(* Recover and AutoRecover do not count at all, and the revive step counts *)
(* for them before it creates a VM.                                        *)
(*                                                                         *)
(* A claimed row has one worker, as in SandboxWorkspace; desired_state is  *)
(* left out, since any value can be written to an error row before it is   *)
(* recovered.                                                              *)
(***************************************************************************)
EXTENDS SandboxStates, FiniteSets, Integers

CONSTANTS
  Sandboxes,  \* sandbox ids of the tenant
  Pods,       \* gateway processes
  None,
  Limit       \* ConcurrentSandboxLimit of the tenant's plan

ASSUME SlotsAssumption ==
  /\ IsFiniteSet(Sandboxes)
  /\ None \notin Pods
  /\ Limit \in Nat \ {0}

VARIABLES
  state,    \* lifecycle_state of each row
  window,   \* billing_started_at set and billing_ended_at not
  memory,   \* the instances of each pod for which sandboxReservesConcurrentSlot
  asks,     \* requests between their count and their write
  reviver,  \* the pod whose revive step has counted for this row
  pass      \* history: how a row came to hold the slot it is counted for

vars == <<state, window, memory, asks, reviver, pass>>

\* "error" stands for the legacy "failed" too; both are recovered alike.
SlotState == (LifecycleState \ {"purged"}) \cup {"provisioning"}
AskKind   == {"create", "direct", "placed", "launch"}
Ask       == [pod: Pods, op: AskKind, id: Sandboxes]

TypeOK ==
  /\ state   \in [Sandboxes -> SlotState]
  /\ window  \in [Sandboxes -> BOOLEAN]
  /\ memory  \in [Pods -> SUBSET Sandboxes]
  /\ asks    \in SUBSET Ask
  /\ reviver \in [Sandboxes -> Pods \cup {None}]
  /\ pass    \in [Sandboxes -> {"none", "counted", "direct"}]

Init ==
  /\ state   = [s \in Sandboxes |-> "absent"]
  /\ window  = [s \in Sandboxes |-> FALSE]
  /\ memory  = [p \in Pods |-> {}]
  /\ asks    = {}
  /\ reviver = [s \in Sandboxes |-> None]
  /\ pass    = [s \in Sandboxes |-> "none"]

-----------------------------------------------------------------------------
(* Counting.                                                               *)

Reserving == {"pending", "creating", "provisioning", "running",
              "stopping", "reviving", "terminating"}

\* The WHERE clause of every count.
Holds(lifecycle, open) == lifecycle \in Reserving \/ open

Counted == {s \in Sandboxes : Holds(state[s], window[s])}

\* Mutant of Used: the row that is asked about is counted too.
UsedWithSelf(p, s) == Counted \cup memory[p]

\* ConcurrentSandboxCount on pod p: the rows and the pod's own instances, each
\* once, without the one that is asked about.
Used(p, s) == (Counted \cup memory[p]) \ {s}

\* RequireConcurrentSandboxSlot.
SlotSeen(p, s) == Cardinality(Used(p, s)) < Limit

\* Mutant of SlotFree: an off-by-one, a tenant at its limit gets one more.
SlotFreeAtLimit(s) == Cardinality(Counted \ {s}) <= Limit

\* The count of InsertPendingWithLimit and SetDesiredStateWithLimit, under the
\* tenant's advisory lock.
SlotFree(s) == Cardinality(Counted \ {s}) < Limit

\* The row goes to a state; it loses its slot when it is no longer counted.
Move(s, to, open) ==
  /\ state'  = [state EXCEPT ![s] = to]
  /\ window' = [window EXCEPT ![s] = open]
  /\ pass'   = [pass EXCEPT ![s] = IF Holds(to, open) THEN @ ELSE "none"]

\* The row goes to a state that is counted, with the right to it.
Admit(s, to, how) ==
  /\ state' = [state EXCEPT ![s] = to]
  /\ pass'  = [pass EXCEPT ![s] = how]

-----------------------------------------------------------------------------
(* Requests.                                                               *)

\* createSandboxAsync ("create") and getOrCreateImpl ("direct") count first, on
\* the pod that serves them.  A session is asked for once.
AskSlot(p, op, s) ==
  /\ op \in {"create", "direct"}
  /\ state[s] = "absent"
  /\ \A a \in asks : a.id # s
  /\ SlotSeen(p, s)
  /\ asks' = asks \cup {[pod |-> p, op |-> op, id |-> s]}
  /\ UNCHANGED <<state, window, memory, reviver, pass>>

\* InsertPendingWithLimit: counts again under the lock, or refuses.
InsertPendingWithLimit(a) ==
  /\ a.op = "create"
  /\ asks' = asks \ {a}
  /\ IF SlotFree(a.id)
     THEN Admit(a.id, "pending", "counted")
     ELSE UNCHANGED <<state, pass>>
  /\ UNCHANGED <<window, memory, reviver>>

\* SetDesiredStateWithLimit(running) for a row at rest.
StartWithLimit(s) ==
  /\ state[s] \in MovedBy["running"]
  /\ SlotFree(s)
  /\ Admit(s, "reviving", "counted")
  /\ UNCHANGED <<window, memory, asks, reviver>>

\* SetDesiredState: the verbs, the checkers, and the manager's own ReviveSandbox
\* after its count; no lock and no count.
SetDesiredState(s, desired) ==
  /\ state[s] \in MovedBy[desired]
  /\ Move(s, Advance(state[s], desired), window[s])
  /\ UNCHANGED <<memory, asks, reviver>>

\* Recover and AutoRecover: no count either.
Recover(s) ==
  /\ state[s] = "error"
  /\ \E desired \in DesiredState : Move(s, RecoverTarget[desired], window[s])
  /\ UNCHANGED <<memory, asks, reviver>>

-----------------------------------------------------------------------------
(* A session created directly, by the gateway that serves it.              *)

Step(a, op) == asks' = (asks \ {a}) \cup {[a EXCEPT !.op = op]}

\* Under the manager's mutex: the pod's own instances are counted again, and a
\* pending placeholder takes its place among them.
Place(a) ==
  /\ a.op = "direct"
  /\ \/ /\ Cardinality(memory[a.pod] \ {a.id}) < Limit
        /\ memory' = [memory EXCEPT ![a.pod] = @ \cup {a.id}]
        /\ Step(a, "placed")
     \/ /\ Cardinality(memory[a.pod] \ {a.id}) >= Limit
        /\ asks' = asks \ {a}
        /\ UNCHANGED memory
  /\ UNCHANGED <<state, window, reviver, pass>>

\* persistInstance(placeholder), after the mutex is released.
PersistPlaceholder(a) ==
  /\ a.op = "placed"
  /\ Admit(a.id, "provisioning", "direct")
  /\ Step(a, "launch")
  /\ UNCHANGED <<window, memory, reviver>>

\* finalizeCreate: the VM is there; the row is written whatever became of it.
Launched(a) ==
  /\ a.op = "launch"
  /\ Admit(a.id, "running", "direct")
  /\ window' = [window EXCEPT ![a.id] = TRUE]
  /\ memory' = [memory EXCEPT ![a.pod] = @ \cup {a.id}]
  /\ asks'   = asks \ {a}
  /\ UNCHANGED reviver

\* removePlaceholder and markPlaceholderFailed.
LaunchFails(a) ==
  /\ a.op = "launch"
  /\ Move(a.id, "error", FALSE)
  /\ memory' = [memory EXCEPT ![a.pod] = @ \ {a.id}]
  /\ asks'   = asks \ {a}
  /\ UNCHANGED reviver

\* ListSandboxInstances on a pod that does not have the row in memory fails a row
\* that has been pending for ten minutes; a creation that is still under way has
\* given up before that.
FailStalePending(p, s) ==
  /\ state[s] \in {"pending", "provisioning"}
  /\ \A a \in asks : a.id # s
  /\ s \notin memory[p]
  /\ Move(s, "error", window[s])
  /\ UNCHANGED <<memory, asks, reviver>>

-----------------------------------------------------------------------------
(* The reconciler.                                                         *)

\* A pending row; the step calls nothing.
StepPending(s) ==
  /\ state[s] = "pending"
  /\ Move(s, "creating", window[s])
  /\ UNCHANGED <<memory, asks, reviver>>

\* ExecuteCreate: no count, the insert has made it.
StepCreate(p, s) ==
  /\ state[s] = "creating"
  /\ Move(s, "running", TRUE)
  /\ memory' = [memory EXCEPT ![p] = @ \cup {s}]
  /\ UNCHANGED <<asks, reviver>>

\* ExecuteRevive counts before it allocates anything.  A refusal is an error of
\* the step: the row stays, or is given up.
StepRevive(p, s) ==
  /\ state[s] = "reviving"
  /\ reviver[s] = None
  /\ SlotSeen(p, s)
  /\ reviver' = [reviver EXCEPT ![s] = p]
  /\ pass'    = [pass EXCEPT ![s] = "counted"]
  /\ UNCHANGED <<state, window, memory, asks>>

Revived(s) ==
  /\ reviver[s] # None
  /\ Move(s, "running", TRUE)
  /\ memory'  = [memory EXCEPT ![reviver[s]] = @ \cup {s}]
  /\ reviver' = [reviver EXCEPT ![s] = None]
  /\ UNCHANGED asks

ReviveFails(s) ==
  /\ reviver[s] # None
  /\ reviver' = [reviver EXCEPT ![s] = None]
  /\ UNCHANGED <<state, window, memory, asks, pass>>

\* Stop and termination forget the instance on the pod that runs them only.
StepDown(p, s) ==
  /\ state[s] \in {"stopping", "archiving", "terminating"}
  /\ Move(s, StepTarget[state[s]], FALSE)
  /\ memory' = IF state[s] = "archiving" THEN memory
               ELSE [memory EXCEPT ![p] = @ \ {s}]
  /\ UNCHANGED <<asks, reviver>>

\* The compute window is closed with the ledger, before the step is over.
MeterStop(s) ==
  /\ state[s] \in {"stopping", "terminating"}
  /\ Move(s, state[s], FALSE)
  /\ UNCHANGED <<memory, asks, reviver>>

\* RecordFailure after the last attempt; the window stays as it is.
GiveUp(s) ==
  /\ state[s] \in Convergence
  /\ Move(s, "error", window[s])
  /\ reviver' = [reviver EXCEPT ![s] = None]
  /\ UNCHANGED <<memory, asks>>

\* The health sweeper closes the window of a VM it misses, then marks the row.
SweepMissing(s) ==
  /\ state[s] = "running"
  /\ Move(s, "error", FALSE)
  /\ UNCHANGED <<memory, asks, reviver>>

\* A gateway process dies and starts again.
Restart(p) ==
  /\ memory'  = [memory EXCEPT ![p] = {}]
  /\ asks'    = {a \in asks : a.pod # p}
  /\ reviver' = [s \in Sandboxes |-> IF reviver[s] = p THEN None ELSE reviver[s]]
  /\ UNCHANGED <<state, window, pass>>

Request ==
  \/ \E p \in Pods, op \in AskKind, s \in Sandboxes : AskSlot(p, op, s)
  \/ \E a \in asks : \/ InsertPendingWithLimit(a)
                     \/ Place(a)
                     \/ PersistPlaceholder(a)
                     \/ Launched(a)
                     \/ LaunchFails(a)

Write(s) ==
  \/ StartWithLimit(s)
  \/ \E desired \in DesiredState : SetDesiredState(s, desired)
  \/ Recover(s)
  \/ \E p \in Pods : FailStalePending(p, s)

Reconcile(s) ==
  \/ StepPending(s)
  \/ \E p \in Pods : StepCreate(p, s) \/ StepRevive(p, s) \/ StepDown(p, s)
  \/ Revived(s)
  \/ ReviveFails(s)
  \/ MeterStop(s)
  \/ GiveUp(s)
  \/ SweepMissing(s)

Next ==
  \/ Request
  \/ \E s \in Sandboxes : Write(s) \/ Reconcile(s)
  \/ \E p \in Pods : Restart(p)

Spec == Init /\ [][Next]_vars

-----------------------------------------------------------------------------
(* Properties.                                                             *)

CountedPass == {s \in Sandboxes : pass[s] = "counted"}

(* Hazard: counts that are stale when they are used.  However many rows are
   counted at once (uncounted starts and recoveries can raise that above the
   limit), the sandboxes that run, direct sessions apart, never exceed the plan:
   the count under the lock and the count of the revive step see to it together. *)
WithinLimit ==
  Cardinality({s \in Sandboxes : state[s] = "running" /\ pass[s] # "direct"}) <= Limit

(* Hazard: reviving rows count against each other.  A row that took its slot under
   the lock is never refused it by its own revive step, as long as every counted
   row did so and the pod that runs the step has no outdated instance in memory:
   two rows can only refuse each other after uncounted starts or recoveries. *)
ReviveAssured ==
  \A p \in Pods, s \in Sandboxes :
    (/\ state[s] = "reviving"
     /\ pass[s] = "counted"
     /\ Counted \subseteq CountedPass
     /\ memory[p] \subseteq Counted) => SlotSeen(p, s)
=============================================================================

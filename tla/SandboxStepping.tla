--------------------------- MODULE SandboxStepping ---------------------------
(***************************************************************************)
(* The rows as the executor may take them to be: each has at most one      *)
(* worker, which owns it until its step ends, and whose result is always   *)
(* written.  There is no lease here, no deadline and no attempt counter;   *)
(* SandboxLifecycle is what it takes to keep rows this way under crashes,  *)
(* and SandboxWorkspace is what the worker does meanwhile.                 *)
(***************************************************************************)
EXTENDS SandboxStates

CONSTANTS Sandboxes, Pods, None

VARIABLES
  state,    \* lifecycle_state of each row
  desired,  \* its desired_state
  stepper   \* its worker: the pod, and the desired state it claimed

Nobody == [pod |-> None, desired |-> "running"]

Init ==
  /\ state   \in [Sandboxes -> {"absent", "pending"}]
  /\ desired = [s \in Sandboxes |-> "running"]
  /\ stepper = [s \in Sandboxes |-> Nobody]

\* One row is written.
Put(s, st, want, by) ==
  /\ state'   = [state EXCEPT ![s] = st]
  /\ desired' = [desired EXCEPT ![s] = want]
  /\ stepper' = [stepper EXCEPT ![s] = by]

Insert(s) ==
  /\ state[s] = "absent"
  /\ Put(s, "pending", "running", stepper[s])

\* A claim finds nobody at work, and takes the row as it is.
Claim(s, p) ==
  /\ stepper[s] = Nobody
  /\ state[s] \in Claimable
  /\ Put(s, state[s], desired[s], [pod |-> p, desired |-> desired[s]])

\* The step that was claimed is the one that is written.
WriteBack(s) ==
  /\ stepper[s] # Nobody
  /\ state[s] \in Claimable
  /\ Put(s, StepTarget[state[s]], stepper[s].desired, Nobody)

\* A failed step is tried again, or was the last one.
Fail(s) ==
  /\ stepper[s] # Nobody
  /\ state[s] \in Convergence
  /\ \E st \in {state[s], "error"} : Put(s, st, desired[s], Nobody)

\* Workers end without a word: a panic, a refused write, a crash of their pod.
Lose(S) ==
  /\ stepper' = [s \in Sandboxes |-> IF s \in S THEN Nobody ELSE stepper[s]]
  /\ UNCHANGED <<state, desired>>

\* A written desired state moves the row unless a step is about to.
Request(s, want) ==
  /\ state[s] \in Stored
  /\ Put(s, Advance(state[s], want), want, stepper[s])

Recover(s) ==
  /\ state[s] = "error"
  /\ Put(s, RecoverTarget[desired[s]], desired[s], stepper[s])

MarkError(s) ==
  /\ state[s] = "running"
  /\ Put(s, "error", desired[s], stepper[s])

Purge(s) ==
  /\ state[s] = "terminated"
  /\ Put(s, "purged", "running", stepper[s])

Next ==
  \/ \E s \in Sandboxes :
       \/ Insert(s) \/ WriteBack(s) \/ Fail(s) \/ Recover(s) \/ MarkError(s) \/ Purge(s)
       \/ \E p \in Pods : Claim(s, p)
       \/ \E want \in DesiredState : Request(s, want)
  \/ \E S \in SUBSET Sandboxes : Lose(S)

Spec == Init /\ [][Next]_<<state, desired, stepper>>
=============================================================================

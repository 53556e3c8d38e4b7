--------------------------- MODULE SandboxStates ---------------------------
(***************************************************************************)
(* The vocabulary of a sandbox row and the pure functions the control      *)
(* plane applies to it: what one reconciler step aims at, how a written    *)
(* desired state advances a quiescent row, where recovery re-enters        *)
(* convergence, and the labels the public API shows.                       *)
(*                                                                         *)
(* "absent" is a row not inserted yet and "purged" a row deleted again;    *)
(* neither is a value of the lifecycle_state column.  The legacy values    *)
(* "failed", "stopped" and "provisioning", which nothing in the reconciler *)
(* writes any more, are left out.                                          *)
(***************************************************************************)

\* lifecycle_state
Quiescent   == {"running", "sleeping", "archived"}
Convergence == {"creating", "stopping", "reviving", "archiving", "terminating"}
Claimable   == {"pending"} \cup Convergence
LifecycleState ==
  {"absent"} \cup Claimable \cup Quiescent \cup {"terminated", "error", "purged"}

\* The rows that exist in sandbox_instances.
Stored == LifecycleState \ {"absent", "purged"}

\* desired_state
DesiredState == {"running", "sleeping", "archived", "terminated"}

\* Recover and AutoRecover: where an error row re-enters convergence.
RecoverTarget ==
  [running  |-> "reviving",  sleeping   |-> "stopping",
   archived |-> "archiving", terminated |-> "terminating"]

(***************************************************************************)
(* SetDesiredState: the CASE of the UPDATE.  Only a row at rest, or an     *)
(* error row on its way out, is moved, and the way is the one recovery     *)
(* takes; a row that is converging keeps its state.                        *)
(***************************************************************************)
MovedBy ==
  [sleeping |-> {"running"},
   archived |-> {"sleeping"},
   running  |-> {"sleeping", "archived"},
   terminated |-> Quiescent \cup {"error"}]

\* Mutant of Advance: archiving does not wait for the sandbox to be stopped.
AdvanceUnstopped(state, desired) ==
  IF state \in MovedBy[desired] \/ (state = "running" /\ desired = "archived")
  THEN RecoverTarget[desired] ELSE state

Advance(state, desired) ==
  IF state \in MovedBy[desired] THEN RecoverTarget[desired] ELSE state

\* Mutant of StepTarget: termination leaves no row behind.
StepTargetPurging ==
  [pending   |-> "creating", creating |-> "running", stopping    |-> "sleeping",
   archiving |-> "archived", reviving |-> "running", terminating |-> "purged"]

(***************************************************************************)
(* Step: the state a successful step writes for a row that can be claimed. *)
(* It moves on whatever is desired.  (Step also has cases for rows at      *)
(* rest; claimableStates keeps them from ever being claimed.)              *)
(***************************************************************************)
StepTarget ==
  [pending   |-> "creating", creating |-> "running", stopping    |-> "sleeping",
   archiving |-> "archived", reviving |-> "running", terminating |-> "terminated"]

(***************************************************************************)
(* PublicState: the label the API shows; the states not named here keep    *)
(* their name.                                                             *)
(***************************************************************************)
Label ==
  [pending |-> "creating", creating |-> "creating", running |-> "started",
   sleeping |-> "stopped", reviving |-> "starting", terminating |-> "destroying",
   terminated |-> "destroyed"]

PublicState(state) == IF state \in DOMAIN Label THEN Label[state] ELSE state
============================================================================

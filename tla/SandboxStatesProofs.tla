------------------------ MODULE SandboxStatesProofs ------------------------
(***************************************************************************)
(* Facts about the tables of SandboxStates.                                *)
(***************************************************************************)
EXTENDS SandboxStates, TLAPS

\* Every entry of the tables is a lifecycle state, and a row that exists stays a
\* row that exists.
LEMMA StatesTyped ==
  /\ Stored \subseteq LifecycleState /\ Claimable \subseteq Stored /\ Convergence \subseteq Claimable
  /\ \A d \in DesiredState : RecoverTarget[d] \in Convergence
  /\ \A st \in Stored, d \in DesiredState : Advance(st, d) \in Stored
  /\ \A st \in Claimable : StepTarget[st] \in Stored
<1>1. Stored \subseteq LifecycleState /\ Claimable \subseteq Stored /\ Convergence \subseteq Claimable
  BY DEF Stored, LifecycleState, Claimable, Convergence, Quiescent
<1>2. \A d \in DesiredState : RecoverTarget[d] \in Convergence
  BY DEF RecoverTarget, DesiredState, Convergence
<1>3. \A st \in Stored, d \in DesiredState : Advance(st, d) \in Stored
  BY <1>1, <1>2 DEF Advance
<1>4. \A st \in Claimable : StepTarget[st] \in Stored
  BY DEF StepTarget, Stored, LifecycleState, Claimable, Convergence, Quiescent
<1>. QED BY <1>1, <1>2, <1>3, <1>4

\* SetDesiredState leaves a row that is converging where it is.
LEMMA ConvergingStays == \A st \in Claimable, d \in DesiredState : Advance(st, d) = st
BY SMT DEF Advance, MovedBy, Claimable, Convergence, Quiescent, DesiredState
=============================================================================

------------------------- MODULE SandboxSlotsProofs -------------------------
(* Proofs about SandboxSlots.                                              *)
EXTENDS SandboxSlots, FiniteSetTheorems, TLAPS

\* Whoever has a pass is counted.
PassIsCounted == \A s \in Sandboxes : pass[s] # "none" => Holds(state[s], window[s])

\* Nothing is created or runs without one.
RunnersHavePass ==
  \A s \in Sandboxes : state[s] \in {"pending", "creating", "running"} => pass[s] # "none"

\* A revive step that has counted keeps its row reviving.
RevivesHavePass ==
  \A s \in Sandboxes : reviver[s] # None => state[s] = "reviving" /\ pass[s] = "counted"

\* A request is the only one for its row, and knows what the row is.
AsksAreCurrent ==
  /\ \A a \in asks : state[a.id] = IF a.op = "launch" THEN "provisioning" ELSE "absent"
  /\ \A a, b \in asks : a.id = b.id => a = b

\* Everything but the number.
RowsInOrder ==
  /\ TypeOK
  /\ PassIsCounted
  /\ RunnersHavePass
  /\ RevivesHavePass
  /\ AsksAreCurrent

PassesWithinLimit == Cardinality(CountedPass) <= Limit

\* The inductive invariant: the passes, not the counted rows, are within the limit.
SlotsInv == RowsInOrder /\ PassesWithinLimit

-----------------------------------------------------------------------------
(* Counting.                                                               *)

\* Taking one slot more than a set that is below the limit stays within it: what
\* every count of the code relies on.
LEMMA OneMore ==
  ASSUME NEW A \in SUBSET Sandboxes, NEW B, IsFiniteSet(B), NEW s,
         A \ {s} \subseteq B, Cardinality(B) < Limit
  PROVE  Cardinality(A) <= Limit
<1>1. IsFiniteSet(A)
  BY FS_Subset, SlotsAssumption
<1>2. /\ IsFiniteSet(A \ {s})
      /\ Cardinality(A \ {s}) >= Cardinality(A) - 1
  BY <1>1, FS_RemoveElement, FS_CardinalityType
<1>3. Cardinality(A \ {s}) <= Cardinality(B)
  BY FS_Subset
<1>4. Cardinality(A) \in Nat /\ Cardinality(B) \in Nat /\ Cardinality(A \ {s}) \in Nat
  BY <1>1, <1>2, FS_CardinalityType
<1> QED
  BY <1>2, <1>3, <1>4, SlotsAssumption

\* What a pod counts is finite.
LEMMA UsedFinite ==
  ASSUME TypeOK, NEW p \in Pods, NEW s
  PROVE  IsFiniteSet(Used(p, s)) /\ IsFiniteSet(Counted \ {s})
<1>1. Used(p, s) \in SUBSET Sandboxes /\ Counted \ {s} \in SUBSET Sandboxes
  BY DEF Used, Counted, TypeOK
<1> QED
  BY <1>1, FS_Subset, SlotsAssumption

\* A step that hands out no counted pass keeps their number.
LEMMA NoNewPass ==
  ASSUME PassesWithinLimit, CountedPass' \subseteq CountedPass
  PROVE  PassesWithinLimit'
<1>1. IsFiniteSet(CountedPass)
  BY FS_Subset, SlotsAssumption DEF CountedPass
<1>2. Cardinality(CountedPass') <= Cardinality(CountedPass)
  BY <1>1, FS_Subset
<1>3. Cardinality(CountedPass) \in Nat /\ Cardinality(CountedPass') \in Nat
  BY <1>1, FS_Subset, FS_CardinalityType
<1> QED
  BY <1>2, <1>3, SlotsAssumption DEF PassesWithinLimit

\* A pass handed out after a count of the rows, alone or with a pod's memory.
LEMMA CountedPassGiven ==
  ASSUME RowsInOrder, NEW s \in Sandboxes,
         pass' = [pass EXCEPT ![s] = "counted"],
         SlotFree(s) \/ \E p \in Pods : SlotSeen(p, s)
  PROVE  PassesWithinLimit'
<1>1. CountedPass' \in SUBSET Sandboxes
  BY DEF CountedPass
<1>2. CountedPass' \ {s} \subseteq Counted \ {s}
  BY DEF CountedPass, Counted, RowsInOrder, PassIsCounted, TypeOK
<1>3. CASE SlotFree(s)
  <2>1. IsFiniteSet(Counted \ {s})
    BY FS_Subset, SlotsAssumption DEF Counted
  <2> QED
    BY <1>1, <1>2, <1>3, <2>1, OneMore DEF SlotFree, PassesWithinLimit
<1>4. ASSUME NEW p \in Pods, SlotSeen(p, s) PROVE PassesWithinLimit'
  <2>1. IsFiniteSet(Used(p, s))
    BY UsedFinite DEF RowsInOrder
  <2>2. CountedPass' \ {s} \subseteq Used(p, s)
    BY <1>2 DEF Used
  <2> QED
    BY <1>1, <1>4, <2>1, <2>2, OneMore DEF SlotSeen, PassesWithinLimit
<1> QED
  BY <1>3, <1>4

-----------------------------------------------------------------------------
(* One row moves.                                                          *)

\* A row that moves keeps its pass or loses it with its slot.
LEMMA MoveKeepsPasses ==
  ASSUME TypeOK, PassIsCounted, NEW s \in Sandboxes, NEW to, NEW open, Move(s, to, open)
  PROVE  PassIsCounted' /\ CountedPass' \subseteq CountedPass
BY DEF TypeOK, PassIsCounted, Move, Holds, CountedPass

\* A row that moves stays in order, unless it takes a place it has no pass for, is
\* being revived, or is asked for.
LEMMA MoveKeepsOrder ==
  ASSUME RowsInOrder, NEW s \in Sandboxes, NEW to \in SlotState, NEW open \in BOOLEAN,
         Move(s, to, open),
         to \in {"pending", "creating", "running"} => pass[s] # "none",
         reviver'[s] = None,
         reviver' \in [Sandboxes -> Pods \cup {None}],
         \A r \in Sandboxes : reviver'[r] # None => reviver'[r] = reviver[r],
         memory' \in [Pods -> SUBSET Sandboxes],
         asks' \subseteq asks, \A a \in asks' : a.id # s
  PROVE  RowsInOrder'
<1>1. TypeOK'
  BY DEF TypeOK, RowsInOrder, Move
<1>2. PassIsCounted'
  BY MoveKeepsPasses DEF RowsInOrder
<1>3. RunnersHavePass'
  BY DEF RowsInOrder, TypeOK, RunnersHavePass, Move, Holds, Reserving
<1>4. RevivesHavePass'
  BY DEF RowsInOrder, TypeOK, RevivesHavePass, Move
<1>5. AsksAreCurrent'
  <2>1. \A a \in asks' : a.id \in Sandboxes /\ state'[a.id] = state[a.id]
    BY DEF RowsInOrder, TypeOK, Move, Ask
  <2> QED
    BY <2>1 DEF RowsInOrder, AsksAreCurrent
<1> QED
  BY <1>1, <1>2, <1>3, <1>4, <1>5 DEF RowsInOrder

\* A row in a state that no request and no revive step has in hand is free to move.
LEMMA FreeToMove ==
  ASSUME RowsInOrder, NEW s \in Sandboxes,
         state[s] \notin {"absent", "provisioning"}
  PROVE  /\ \A a \in asks : a.id # s
         /\ state[s] # "reviving" => reviver[s] = None
BY DEF RowsInOrder, AsksAreCurrent, RevivesHavePass, TypeOK, Ask

\* The states the functions of SandboxStates lead to.
LEMMA TargetsTyped ==
  /\ \A desired \in DesiredState :
       /\ RecoverTarget[desired] \in SlotState
       /\ RecoverTarget[desired] \notin {"pending", "creating", "running"}
       /\ MovedBy[desired] \subseteq Quiescent \cup {"error"}
       /\ \A st \in MovedBy[desired] : Advance(st, desired) = RecoverTarget[desired]
  /\ \A st \in {"stopping", "archiving", "terminating"} :
       /\ StepTarget[st] \in SlotState
       /\ StepTarget[st] \notin {"pending", "creating", "running"}
BY DEF DesiredState, RecoverTarget, SlotState, LifecycleState, Claimable, Convergence,
       Quiescent, MovedBy, Advance, StepTarget

-----------------------------------------------------------------------------
(* The actions.                                                            *)

\* Requests: what they add and take away among asks keeps each row to one of them.
LEMMA RequestKeepsInv ==
  ASSUME SlotsInv, Request
  PROVE  SlotsInv'
<1>. USE DEF SlotsInv
<1>t. TypeOK /\ AsksAreCurrent
  BY DEF RowsInOrder
<1>1. ASSUME NEW p \in Pods, NEW op \in AskKind, NEW s \in Sandboxes, AskSlot(p, op, s)
      PROVE  SlotsInv'
  <2>1. CountedPass' = CountedPass
    BY <1>1 DEF AskSlot, CountedPass
  <2>2. RowsInOrder'
    BY <1>1 DEF AskSlot, RowsInOrder, TypeOK, Ask, AskKind, PassIsCounted, RunnersHavePass,
                RevivesHavePass, AsksAreCurrent
  <2> QED
    BY <2>1, <2>2, NoNewPass
<1>2. ASSUME NEW a \in asks, InsertPendingWithLimit(a)
      PROVE  SlotsInv'
  <2>1. a.id \in Sandboxes /\ state[a.id] = "absent" /\ a.op # "launch"
    BY <1>t, <1>2 DEF TypeOK, Ask, AsksAreCurrent, InsertPendingWithLimit
  <2>2. RowsInOrder'
    BY <1>2, <2>1 DEF InsertPendingWithLimit, Admit, RowsInOrder, TypeOK, PassIsCounted,
       RunnersHavePass, RevivesHavePass, AsksAreCurrent, Ask, Holds, Reserving, SlotState,
       LifecycleState, Claimable
  <2>3. CASE SlotFree(a.id)
    BY <1>2, <2>1, <2>2, <2>3, CountedPassGiven DEF InsertPendingWithLimit, Admit
  <2>4. CASE ~ SlotFree(a.id)
    BY <1>2, <2>2, <2>4, NoNewPass DEF InsertPendingWithLimit, CountedPass
  <2> QED
    BY <2>3, <2>4
<1>3. ASSUME NEW a \in asks, Place(a)
      PROVE  SlotsInv'
  <2>1. CountedPass' = CountedPass
    BY <1>3 DEF Place, CountedPass
  <2>2. RowsInOrder'
    BY <1>3 DEF Place, Step, RowsInOrder, TypeOK, PassIsCounted, RunnersHavePass,
       RevivesHavePass, AsksAreCurrent, Ask, AskKind
  <2> QED
    BY <2>1, <2>2, NoNewPass
<1>4. ASSUME NEW a \in asks, PersistPlaceholder(a)
      PROVE  SlotsInv'
  <2>1. a.id \in Sandboxes /\ state[a.id] = "absent"
    BY <1>t, <1>4 DEF TypeOK, Ask, AsksAreCurrent, PersistPlaceholder
  <2>2. CountedPass' \subseteq CountedPass
    BY <1>4, <2>1 DEF PersistPlaceholder, Admit, CountedPass, TypeOK, RowsInOrder
  <2>3. RowsInOrder'
    BY <1>4, <2>1 DEF PersistPlaceholder, Admit, Step, RowsInOrder, TypeOK, PassIsCounted,
       RunnersHavePass, RevivesHavePass, AsksAreCurrent, Ask, AskKind, Holds, Reserving,
       SlotState
  <2> QED
    BY <2>2, <2>3, NoNewPass
<1>5. ASSUME NEW a \in asks, Launched(a)
      PROVE  SlotsInv'
  <2>1. a.id \in Sandboxes /\ state[a.id] = "provisioning" /\ a.pod \in Pods
    BY <1>t, <1>5 DEF TypeOK, Ask, AsksAreCurrent, Launched
  <2>2. CountedPass' \subseteq CountedPass
    BY <1>5, <2>1 DEF Launched, Admit, CountedPass, TypeOK, RowsInOrder
  <2>3. RowsInOrder'
    BY <1>5, <2>1 DEF Launched, Admit, RowsInOrder, TypeOK, PassIsCounted, RunnersHavePass,
       RevivesHavePass, AsksAreCurrent, Ask, Holds, Reserving, SlotState, LifecycleState,
       Quiescent
  <2> QED
    BY <2>2, <2>3, NoNewPass
<1>6. ASSUME NEW a \in asks, LaunchFails(a)
      PROVE  SlotsInv'
  <2>1. a.id \in Sandboxes /\ state[a.id] = "provisioning" /\ a.pod \in Pods
    BY <1>t, <1>6 DEF TypeOK, Ask, AsksAreCurrent, LaunchFails
  <2>2. reviver[a.id] = None
    BY <2>1 DEF RowsInOrder, RevivesHavePass
  <2>3. asks' \subseteq asks /\ \A b \in asks' : b.id # a.id
    BY <1>t, <1>6 DEF LaunchFails, AsksAreCurrent
  <2>4. RowsInOrder'
    BY <1>6, <2>1, <2>2, <2>3, MoveKeepsOrder
       DEF LaunchFails, RowsInOrder, TypeOK, SlotState, LifecycleState
  <2>5. CountedPass' \subseteq CountedPass
    BY <1>6, <2>1, MoveKeepsPasses DEF LaunchFails, RowsInOrder
  <2> QED
    BY <2>4, <2>5, NoNewPass
<1> QED
  BY <1>1, <1>2, <1>3, <1>4, <1>5, <1>6 DEF Request

\* Writes of the API and the checkers.
LEMMA WriteKeepsInv ==
  ASSUME SlotsInv, NEW s \in Sandboxes, Write(s)
  PROVE  SlotsInv'
<1>. USE DEF SlotsInv
<1>t. TypeOK
  BY DEF RowsInOrder
<1>1. CASE StartWithLimit(s)
  <2>1. state[s] \in {"sleeping", "archived"}
    BY <1>1 DEF StartWithLimit, MovedBy
  <2>2. RowsInOrder'
    BY <1>1, <2>1 DEF StartWithLimit, Admit, RowsInOrder, TypeOK, PassIsCounted,
       RunnersHavePass, RevivesHavePass, AsksAreCurrent, Holds, Reserving, SlotState,
       LifecycleState, Claimable, Convergence, Ask
  <2>3. PassesWithinLimit'
    BY <1>1, CountedPassGiven DEF StartWithLimit, Admit
  <2> QED
    BY <2>2, <2>3
<1>2. ASSUME NEW desired \in DesiredState, SetDesiredState(s, desired)
      PROVE  SlotsInv'
  <2>1. state[s] \in Quiescent \cup {"error"}
    BY <1>2, TargetsTyped DEF SetDesiredState
  <2>2. Move(s, RecoverTarget[desired], window[s])
    BY <1>2, TargetsTyped DEF SetDesiredState
  <2>3. reviver[s] = None /\ \A a \in asks : a.id # s
    BY <2>1, FreeToMove DEF Quiescent
  <2>4. RowsInOrder'
    BY <1>2, <1>t, <2>2, <2>3, TargetsTyped, MoveKeepsOrder DEF SetDesiredState, TypeOK
  <2>5. CountedPass' \subseteq CountedPass
    BY <2>2, MoveKeepsPasses DEF RowsInOrder
  <2> QED
    BY <2>4, <2>5, NoNewPass
<1>3. CASE Recover(s)
  <2>1. PICK desired \in DesiredState : Move(s, RecoverTarget[desired], window[s])
    BY <1>3 DEF Recover
  <2>3. reviver[s] = None /\ \A a \in asks : a.id # s
    BY <1>3, FreeToMove DEF Recover
  <2>4. RowsInOrder'
    BY <1>3, <1>t, <2>1, <2>3, TargetsTyped, MoveKeepsOrder DEF Recover, TypeOK
  <2>5. CountedPass' \subseteq CountedPass
    BY <2>1, MoveKeepsPasses DEF RowsInOrder
  <2> QED
    BY <2>4, <2>5, NoNewPass
<1>4. ASSUME NEW p \in Pods, FailStalePending(p, s)
      PROVE  SlotsInv'
  <2>1. reviver[s] = None
    BY <1>4 DEF FailStalePending, RowsInOrder, RevivesHavePass
  <2>2. RowsInOrder'
    BY <1>4, <1>t, <2>1, MoveKeepsOrder
       DEF FailStalePending, TypeOK, SlotState, LifecycleState
  <2>3. CountedPass' \subseteq CountedPass
    BY <1>4, MoveKeepsPasses DEF FailStalePending, RowsInOrder
  <2> QED
    BY <2>2, <2>3, NoNewPass
<1> QED
  BY <1>1, <1>2, <1>3, <1>4 DEF Write

\* Steps of the reconciler and the health sweeper.
LEMMA ReconcileKeepsInv ==
  ASSUME SlotsInv, NEW s \in Sandboxes, Reconcile(s)
  PROVE  SlotsInv'
<1>. USE DEF SlotsInv
<1>t. TypeOK
  BY DEF RowsInOrder
<1>1. CASE StepPending(s)
  <2>1. /\ reviver[s] = None /\ \A a \in asks : a.id # s
        /\ pass[s] # "none"
    BY <1>1, FreeToMove DEF StepPending, RowsInOrder, RunnersHavePass
  <2>2. RowsInOrder'
    BY <1>1, <1>t, <2>1, MoveKeepsOrder
       DEF StepPending, TypeOK, SlotState, LifecycleState, Claimable, Convergence
  <2>3. CountedPass' \subseteq CountedPass
    BY <1>1, MoveKeepsPasses DEF StepPending, RowsInOrder
  <2> QED
    BY <2>2, <2>3, NoNewPass
<1>2. ASSUME NEW p \in Pods, StepCreate(p, s)
      PROVE  SlotsInv'
  <2>1. /\ reviver[s] = None /\ \A a \in asks : a.id # s
        /\ pass[s] # "none"
    BY <1>2, FreeToMove DEF StepCreate, RowsInOrder, RunnersHavePass
  <2>2. RowsInOrder'
    BY <1>2, <1>t, <2>1, MoveKeepsOrder
       DEF StepCreate, TypeOK, SlotState, LifecycleState, Quiescent
  <2>3. CountedPass' \subseteq CountedPass
    BY <1>2, MoveKeepsPasses DEF StepCreate, RowsInOrder
  <2> QED
    BY <2>2, <2>3, NoNewPass
<1>3. ASSUME NEW p \in Pods, StepRevive(p, s)
      PROVE  SlotsInv'
  <2>1. RowsInOrder'
    BY <1>3 DEF StepRevive, RowsInOrder, TypeOK, PassIsCounted, RunnersHavePass,
       RevivesHavePass, AsksAreCurrent, Holds, Reserving
  <2>2. PassesWithinLimit'
    BY <1>3, CountedPassGiven DEF StepRevive
  <2> QED
    BY <2>1, <2>2
<1>4. ASSUME NEW p \in Pods, StepDown(p, s)
      PROVE  SlotsInv'
  <2>1. reviver[s] = None /\ \A a \in asks : a.id # s
    BY <1>4, FreeToMove DEF StepDown
  <2>2. RowsInOrder'
    BY <1>4, <1>t, <2>1, TargetsTyped, MoveKeepsOrder DEF StepDown, TypeOK
  <2>3. CountedPass' \subseteq CountedPass
    BY <1>4, MoveKeepsPasses DEF StepDown, RowsInOrder
  <2> QED
    BY <2>2, <2>3, NoNewPass
<1>5. CASE Revived(s)
  <2>1. state[s] = "reviving" /\ pass[s] = "counted" /\ reviver[s] \in Pods
    BY <1>5 DEF Revived, RowsInOrder, RevivesHavePass, TypeOK
  <2>2. \A a \in asks : a.id # s
    BY <2>1, FreeToMove
  <2>3. RowsInOrder'
    BY <1>5, <1>t, <2>1, <2>2, MoveKeepsOrder
       DEF Revived, TypeOK, SlotState, LifecycleState, Quiescent
  <2>4. CountedPass' \subseteq CountedPass
    BY <1>5, MoveKeepsPasses DEF Revived, RowsInOrder
  <2> QED
    BY <2>3, <2>4, NoNewPass
<1>6. CASE ReviveFails(s)
  <2>1. RowsInOrder'
    BY <1>6 DEF ReviveFails, RowsInOrder, TypeOK, PassIsCounted, RunnersHavePass,
       RevivesHavePass, AsksAreCurrent
  <2>2. CountedPass' = CountedPass
    BY <1>6 DEF ReviveFails, CountedPass
  <2> QED
    BY <2>1, <2>2, NoNewPass
<1>7. CASE MeterStop(s)
  <2>1. reviver[s] = None /\ \A a \in asks : a.id # s
    BY <1>7, FreeToMove DEF MeterStop
  <2>2. RowsInOrder'
    BY <1>7, <1>t, <2>1, MoveKeepsOrder DEF MeterStop, TypeOK
  <2>3. CountedPass' \subseteq CountedPass
    BY <1>7, MoveKeepsPasses DEF MeterStop, RowsInOrder
  <2> QED
    BY <2>2, <2>3, NoNewPass
<1>8. CASE GiveUp(s)
  <2>1. \A a \in asks : a.id # s
    BY <1>8, FreeToMove DEF GiveUp, Convergence
  <2>2. RowsInOrder'
    BY <1>8, <1>t, <2>1, MoveKeepsOrder DEF GiveUp, TypeOK, SlotState, LifecycleState
  <2>3. CountedPass' \subseteq CountedPass
    BY <1>8, MoveKeepsPasses DEF GiveUp, RowsInOrder
  <2> QED
    BY <2>2, <2>3, NoNewPass
<1>9. CASE SweepMissing(s)
  <2>1. reviver[s] = None /\ \A a \in asks : a.id # s
    BY <1>9, FreeToMove DEF SweepMissing
  <2>2. RowsInOrder'
    BY <1>9, <1>t, <2>1, MoveKeepsOrder DEF SweepMissing, TypeOK, SlotState, LifecycleState
  <2>3. CountedPass' \subseteq CountedPass
    BY <1>9, MoveKeepsPasses DEF SweepMissing, RowsInOrder
  <2> QED
    BY <2>2, <2>3, NoNewPass
<1> QED
  BY <1>1, <1>2, <1>3, <1>4, <1>5, <1>6, <1>7, <1>8, <1>9 DEF Reconcile

\* A restart forgets, and gives nothing.
LEMMA RestartKeepsInv ==
  ASSUME SlotsInv, NEW p \in Pods, Restart(p)
  PROVE  SlotsInv'
<1>1. RowsInOrder'
  BY DEF SlotsInv, Restart, RowsInOrder, TypeOK, PassIsCounted, RunnersHavePass,
     RevivesHavePass, AsksAreCurrent
<1>2. CountedPass' = CountedPass
  BY DEF Restart, CountedPass
<1> QED
  BY <1>1, <1>2, NoNewPass DEF SlotsInv

-----------------------------------------------------------------------------
(* The theorems.                                                           *)

\* The counts of the code keep the passes within the limit, for any number of
\* pods, sandboxes and slots.
THEOREM SlotsInvariant == Spec => []SlotsInv
<1>1. Init => SlotsInv
  <2>1. Init => RowsInOrder
    BY DEF Init, RowsInOrder, TypeOK, PassIsCounted, RunnersHavePass, RevivesHavePass,
       AsksAreCurrent, SlotState, LifecycleState, Ask
  <2>2. Init => CountedPass = {}
    BY DEF Init, CountedPass
  <2>3. Cardinality({}) <= Limit
    BY FS_EmptySet, SlotsAssumption
  <2> QED
    BY <2>1, <2>2, <2>3 DEF SlotsInv, PassesWithinLimit
<1>2. SlotsInv /\ [Next]_vars => SlotsInv'
  <2>1. ASSUME SlotsInv, UNCHANGED vars PROVE SlotsInv'
    <3>1. RowsInOrder'
      BY <2>1 DEF vars, SlotsInv, RowsInOrder, TypeOK, PassIsCounted, RunnersHavePass,
         RevivesHavePass, AsksAreCurrent
    <3>2. CountedPass' = CountedPass
      BY <2>1 DEF vars, CountedPass
    <3> QED
      BY <2>1, <3>1, <3>2, NoNewPass DEF SlotsInv
  <2> QED
    BY <2>1, RequestKeepsInv, WriteKeepsInv, ReconcileKeepsInv, RestartKeepsInv DEF Next
<1> QED
  BY <1>1, <1>2, PTL DEF Spec

\* Rows, passes, steps and requests keep their types, and what a pod remembers are
\* sandboxes, however the claims, the counts and the restarts interleave.
THEOREM SlotsTyped == Spec => []TypeOK
<1>1. SlotsInv => TypeOK
  BY DEF SlotsInv, RowsInOrder
<1>. QED BY <1>1, SlotsInvariant, PTL

\* What runs is within the plan, direct sessions apart.
THEOREM RunsWithinLimit == Spec => []WithinLimit
<1>1. SlotsInv => WithinLimit
  <2> SUFFICES ASSUME SlotsInv PROVE WithinLimit
    OBVIOUS
  <2> DEFINE Runs == {s \in Sandboxes : state[s] = "running" /\ pass[s] # "direct"}
  <2>1. Runs \subseteq CountedPass
    BY DEF SlotsInv, RowsInOrder, RunnersHavePass, TypeOK, CountedPass
  <2>2. IsFiniteSet(CountedPass)
    BY FS_Subset, SlotsAssumption DEF CountedPass
  <2>3. /\ Cardinality(Runs) <= Cardinality(CountedPass)
        /\ Cardinality(Runs) \in Nat /\ Cardinality(CountedPass) \in Nat
    BY <2>1, <2>2, FS_Subset, FS_CardinalityType
  <2> QED
    BY <2>3, SlotsAssumption DEF SlotsInv, PassesWithinLimit, WithinLimit
<1> QED
  BY <1>1, SlotsInvariant, PTL

\* Rows that all took their slots under the lock never refuse each other.
THEOREM RevivesAreAssured == Spec => []ReviveAssured
<1>1. SlotsInv => ReviveAssured
  <2> SUFFICES ASSUME SlotsInv, NEW p \in Pods, NEW s \in Sandboxes,
                      state[s] = "reviving", pass[s] = "counted",
                      Counted \subseteq CountedPass, memory[p] \subseteq Counted
               PROVE  SlotSeen(p, s)
    BY DEF ReviveAssured
  <2>1. s \in CountedPass /\ Used(p, s) \subseteq CountedPass \ {s}
    BY DEF Used, CountedPass
  <2>2. IsFiniteSet(CountedPass)
    BY FS_Subset, SlotsAssumption DEF CountedPass
  <2>3. /\ IsFiniteSet(CountedPass \ {s})
        /\ Cardinality(CountedPass \ {s}) = Cardinality(CountedPass) - 1
    BY <2>1, <2>2, FS_RemoveElement
  <2>4. /\ Cardinality(Used(p, s)) <= Cardinality(CountedPass \ {s})
        /\ Cardinality(Used(p, s)) \in Nat /\ Cardinality(CountedPass) \in Nat
    BY <2>1, <2>2, <2>3, FS_Subset, FS_CardinalityType
  <2> QED
    BY <2>3, <2>4, SlotsAssumption DEF SlotsInv, PassesWithinLimit, SlotSeen
<1> QED
  BY <1>1, SlotsInvariant, PTL
=============================================================================

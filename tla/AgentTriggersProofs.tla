------------------------ MODULE AgentTriggersProofs -------------------------
(* Proofs about AgentTriggers.                                             *)
EXTENDS AgentTriggers, FiniteSetTheorems, TLAPS

\* Who waits for another attempt has one left.
RetriesLeft == \A a \in Activations : stage[a] = "retry" => attempt[a] < MaxAttempts

\* The inductive invariant.  A success that some copy does not let reset the counter
\* still ends the streak, never the other way round.
TriggersInv ==
  TypeOK /\ RetriesLeft /\ RunningRowsAreReal /\ streak <= failures /\ FailingOpens

-----------------------------------------------------------------------------
(* Facts about the pieces.                                                 *)

LEMMA Attempts == MaxAttempts \in Nat /\ MaxAttempts >= 1 /\ Threshold \in Nat /\ Threshold >= 1
BY AgentTriggersAssumption DEF MaxAttempts, Threshold

LEMMA SessionsFinite == IsFiniteSet(InSession)
<1>1. InSession \subseteq Activations
  BY DEF InSession
<1> QED
  BY <1>1, FS_Subset, AgentTriggersAssumption

\* One activation moves: how many are in a session.
LEMMA SessionBegins ==
  ASSUME TypeOK, NEW a \in Activations, stage[a] # "session", Goto(a, "session")
  PROVE  /\ Cardinality(InSession') = Cardinality(InSession) + 1
         /\ Cardinality(InSession) \in Nat
<1>1. InSession' = InSession \cup {a}
  BY DEF InSession, Goto, TypeOK
<1>2. a \notin InSession
  BY DEF InSession
<1>3. Cardinality(InSession \cup {a}) = Cardinality(InSession) + 1
  BY <1>2, FS_AddElement, SessionsFinite
<1>4. Cardinality(InSession') = Cardinality(InSession \cup {a})
  BY <1>1, Zenon
<1> QED
  BY <1>3, <1>4, FS_CardinalityType, SessionsFinite

LEMMA SessionEnds ==
  ASSUME TypeOK, NEW a \in Activations, stage[a] = "session", NEW s \in Stage, s # "session",
         Goto(a, s)
  PROVE  /\ Cardinality(InSession') = Cardinality(InSession) - 1
         /\ Cardinality(InSession) \in Nat \ {0}
<1>1. InSession' = InSession \ {a}
  BY DEF InSession, Goto, TypeOK
<1>2. a \in InSession
  BY DEF InSession
<1>3. Cardinality(InSession \ {a}) = Cardinality(InSession) - 1
  BY <1>2, FS_RemoveElement, SessionsFinite
<1>4. Cardinality(InSession') = Cardinality(InSession \ {a})
  BY <1>1, Zenon
<1>5. Cardinality(InSession) \in Nat /\ Cardinality(InSession) # 0
  BY <1>2, FS_CardinalityType, FS_EmptySet, SessionsFinite
<1> QED
  BY <1>3, <1>4, <1>5

LEMMA NoSessionMoves ==
  ASSUME TypeOK, NEW a \in Activations, stage[a] # "session", NEW s \in Stage, s # "session",
         Goto(a, s)
  PROVE  Cardinality(InSession') = Cardinality(InSession)
<1>1. InSession' = InSession
  BY DEF InSession, Goto, TypeOK
<1> QED
  BY <1>1, Zenon

\* While nobody who is to open the circuit leaves, and nobody closes it, a trigger that
\* fails opens.
LEMMA StillOpens ==
  ASSUME TypeOK, FailingOpens, NEW a \in Activations, stage[a] # "open", NEW s, Goto(a, s),
         circuit' = circuit \/ circuit' # "closed", streak' = streak
  PROVE  FailingOpens'
<1>1. \A d \in Activations : stage[d] = "open" => stage'[d] = "open"
  BY DEF Goto, TypeOK
<1> QED
  BY <1>1 DEF FailingOpens

\* What one activation does to the attempts.
LEMMA StillLeft ==
  ASSUME TypeOK, RetriesLeft, NEW a \in Activations, NEW s, NEW v, Goto(a, s),
         attempt' = [attempt EXCEPT ![a] = v],
         s = "retry" => v < MaxAttempts
  PROVE  RetriesLeft'
BY DEF RetriesLeft, Goto, TypeOK

LEMMA FreshIsCopy == Fresh \in Copy
BY Attempts DEF Fresh, Copy, CircuitState

\* An activation leaves: types, attempts, and the sessions unless it was in one.
LEMMA LeaveKeeps ==
  ASSUME TriggersInv, NEW a \in Activations, Leave(a)
  PROVE  /\ stage' \in [Activations -> Stage]
         /\ copy' \in [Activations -> Copy]
         /\ attempt' \in [Activations -> 0..MaxAttempts]
         /\ RetriesLeft'
         /\ stage[a] # "session" => Cardinality(InSession') = Cardinality(InSession)
<1> USE DEF TriggersInv
<1>1. Goto(a, "free") /\ "free" \in Stage
  BY DEF Leave, Stage
<1>2. stage' \in [Activations -> Stage]
  BY <1>1 DEF Goto, TypeOK
<1>3. copy' \in [Activations -> Copy]
  BY FreshIsCopy DEF Leave, TypeOK
<1>4. attempt' \in [Activations -> 0..MaxAttempts]
  BY Attempts DEF Leave, TypeOK
<1>5. RetriesLeft'
  BY <1>1, StillLeft DEF Leave
<1>6. stage[a] # "session" => Cardinality(InSession') = Cardinality(InSession)
  BY <1>1, NoSessionMoves
<1> QED
  BY <1>2, <1>3, <1>4, <1>5, <1>6

\* An activation goes on to s, with its copy, outside sessions.
LEMMA GoesOn ==
  ASSUME TriggersInv, NEW a \in Activations, NEW s \in Stage, NEW v \in 0..MaxAttempts,
         Goto(a, s), attempt' = [attempt EXCEPT ![a] = v],
         s = "retry" => v < MaxAttempts
  PROVE  /\ stage' \in [Activations -> Stage]
         /\ attempt' \in [Activations -> 0..MaxAttempts]
         /\ RetriesLeft'
         /\ stage[a] # "session" /\ s # "session" =>
              Cardinality(InSession') = Cardinality(InSession)
<1> USE DEF TriggersInv
<1>1. stage' \in [Activations -> Stage]
  BY DEF Goto, TypeOK
<1>2. attempt' \in [Activations -> 0..MaxAttempts]
  BY DEF TypeOK
<1>3. RetriesLeft'
  BY StillLeft
<1>4. stage[a] # "session" /\ s # "session" =>
        Cardinality(InSession') = Cardinality(InSession)
  BY NoSessionMoves
<1> QED
  BY <1>1, <1>2, <1>3, <1>4

\* The same for an attempt that failed.
LEMMA FailedGoesOn ==
  ASSUME TriggersInv, NEW a \in Activations, AttemptFailed(a)
  PROVE  \E s \in Stage \ {"session", "open"}, v \in 0..MaxAttempts :
           /\ Goto(a, s) /\ attempt' = [attempt EXCEPT ![a] = v] /\ copy' = copy
           /\ s = "retry" => v < MaxAttempts
<1>1. attempt' = [attempt EXCEPT ![a] = attempt[a]] /\ attempt[a] \in 0..MaxAttempts
  BY DEF AttemptFailed, TriggersInv, TypeOK
<1>2. CASE attempt[a] < MaxAttempts
  <2>1. Goto(a, "retry") /\ copy' = copy
    BY <1>2 DEF AttemptFailed
  <2>2. "retry" \in Stage \ {"session", "open"}
    BY DEF Stage
  <2> QED
    BY <1>1, <1>2, <2>1, <2>2
<1>3. CASE ~ (attempt[a] < MaxAttempts)
  <2>1. Goto(a, "failure") /\ copy' = copy
    BY <1>3 DEF AttemptFailed
  <2>2. "failure" \in Stage \ {"session", "open"} /\ "failure" # "retry"
    BY DEF Stage
  <2> QED
    BY <1>1, <2>1, <2>2
<1> QED
  BY <1>2, <1>3

-----------------------------------------------------------------------------
(* The actions.                                                            *)

LEMMA LoadKeeps ==
  ASSUME TriggersInv, NEW a \in Activations, Load(a)
  PROVE  TriggersInv'
<1> USE DEF TriggersInv
<1>1. /\ Goto(a, "fired") /\ "fired" \in Stage /\ stage[a] = "free"
      /\ attempt' = [attempt EXCEPT ![a] = attempt[a]] /\ attempt[a] \in 0..MaxAttempts
  BY DEF Load, Stage, TypeOK
<1>2. copy' \in [Activations -> Copy]
  <2>1. Seen \in Copy
    BY DEF Seen, Copy, TypeOK
  <2> QED
    BY <2>1 DEF Load, TypeOK
<1>3. TypeOK'
  BY <1>1, <1>2, GoesOn DEF Load, TypeOK, row
<1>4. RetriesLeft' /\ Cardinality(InSession') = Cardinality(InSession)
  BY <1>1, GoesOn
<1>5. RunningRowsAreReal'
  BY <1>4 DEF RunningRowsAreReal, Load
<1>6. FailingOpens'
  BY <1>1, StillOpens DEF Load, row
<1> QED
  BY <1>3, <1>4, <1>5, <1>6 DEF Load, row

\* An activation leaves without having recorded anything and without a session.
LEMMA QuietLeave ==
  ASSUME TriggersInv, NEW a \in Activations, Leave(a), stage[a] \notin {"session", "open"},
         UNCHANGED <<row, enabled, running, streak, lost>>, healthy' \in BOOLEAN
  PROVE  TriggersInv'
<1> USE DEF TriggersInv
<1>1. TypeOK'
  BY LeaveKeeps DEF TypeOK, row
<1>2. RetriesLeft' /\ RunningRowsAreReal'
  BY LeaveKeeps DEF RunningRowsAreReal
<1>3. FailingOpens'
  BY StillOpens DEF Leave, row
<1> QED
  BY <1>1, <1>2, <1>3 DEF row

\* An activation goes on without having recorded anything, between sessions.
LEMMA QuietStep ==
  ASSUME TriggersInv, NEW a \in Activations, NEW s \in Stage, NEW v \in 0..MaxAttempts,
         Goto(a, s), attempt' = [attempt EXCEPT ![a] = v],
         s = "retry" => v < MaxAttempts,
         stage[a] \notin {"session", "open"}, s # "session",
         copy' \in [Activations -> Copy],
         circuit' \in CircuitState, circuit' = circuit \/ circuit' # "closed",
         UNCHANGED <<failures, due, enabled, running, healthy, streak, lost>>
  PROVE  TriggersInv'
<1> USE DEF TriggersInv
<1>1. TypeOK'
  BY GoesOn DEF TypeOK
<1>2. RetriesLeft' /\ RunningRowsAreReal'
  BY GoesOn DEF RunningRowsAreReal
<1>3. FailingOpens'
  BY StillOpens
<1> QED
  BY <1>1, <1>2, <1>3

LEMMA CheckKeeps ==
  ASSUME TriggersInv, NEW a \in Activations, Check(a)
  PROVE  TriggersInv'
<1>1. CASE Leave(a)
  BY <1>1, QuietLeave DEF Check, TriggersInv, TypeOK
<1>2. CASE ~ Leave(a)
  <2>1. PICK s \in {"half_open", "count"} : Goto(a, s)
    BY <1>2 DEF Check
  <2>2. /\ attempt' = [attempt EXCEPT ![a] = attempt[a]] /\ attempt[a] \in 0..MaxAttempts
        /\ copy' \in [Activations -> Copy] /\ circuit' = circuit /\ circuit \in CircuitState
    BY <1>2 DEF Check, row, TriggersInv, TypeOK
  <2>3. s \in Stage /\ s # "session" /\ s # "retry" /\ stage[a] = "fired"
    BY DEF Stage, Check
  <2> QED
    BY <2>1, <2>2, <2>3, QuietStep DEF Check, row
<1> QED
  BY <1>1, <1>2

LEMMA HalfOpenKeeps ==
  ASSUME TriggersInv, NEW a \in Activations, HalfOpen(a)
  PROVE  TriggersInv'
<1>1. CASE Leave(a) /\ UNCHANGED circuit
  BY <1>1, QuietLeave DEF HalfOpen, TriggersInv, TypeOK, row
<1>2. CASE circuit' = "half_open" /\ Goto(a, "count") /\ UNCHANGED attempt
           /\ copy' = [copy EXCEPT ![a].circuit = "half_open"]
  <2>1. attempt' = [attempt EXCEPT ![a] = attempt[a]] /\ attempt[a] \in 0..MaxAttempts
    BY <1>2 DEF TriggersInv, TypeOK
  <2>2. copy' \in [Activations -> Copy]
    BY <1>2 DEF TriggersInv, TypeOK, Copy, CircuitState
  <2>3. "count" \in Stage /\ circuit' \in CircuitState /\ stage[a] = "half_open"
    BY <1>2 DEF Stage, CircuitState, HalfOpen
  <2> QED
    BY <1>2, <2>1, <2>2, <2>3, QuietStep DEF HalfOpen
<1> QED
  BY <1>1, <1>2 DEF HalfOpen

LEMMA CountKeeps ==
  ASSUME TriggersInv, NEW a \in Activations, Count(a)
  PROVE  TriggersInv'
<1>1. CASE Leave(a)
  BY <1>1, QuietLeave DEF Count, TriggersInv, TypeOK
<1>2. CASE Goto(a, "start") /\ attempt' = [attempt EXCEPT ![a] = 1] /\ UNCHANGED copy
  <2>1. 1 \in 0..MaxAttempts /\ "start" \in Stage /\ stage[a] = "count"
    BY Attempts DEF Stage, Count
  <2>2. copy' \in [Activations -> Copy] /\ circuit' = circuit /\ circuit \in CircuitState
    BY <1>2 DEF TriggersInv, TypeOK, Count, row
  <2> QED
    BY <1>2, <2>1, <2>2, QuietStep DEF Count, row
<1> QED
  BY <1>1, <1>2 DEF Count

LEMMA RetryKeeps ==
  ASSUME TriggersInv, NEW a \in Activations, Retry(a)
  PROVE  TriggersInv'
<1>1. attempt[a] + 1 \in 0..MaxAttempts /\ "start" \in Stage /\ stage[a] = "retry"
  BY Attempts DEF Stage, Retry, TriggersInv, RetriesLeft, TypeOK
<1>2. attempt' = [attempt EXCEPT ![a] = attempt[a] + 1] /\ Goto(a, "start")
  BY DEF Retry
<1>3. copy' \in [Activations -> Copy] /\ circuit' = circuit /\ circuit \in CircuitState
  BY DEF TriggersInv, TypeOK, Retry, row
<1> QED
  BY <1>1, <1>2, <1>3, QuietStep DEF Retry, row

LEMMA StartKeeps ==
  ASSUME TriggersInv, NEW a \in Activations, Start(a)
  PROVE  TriggersInv'
<1>1. CASE Leave(a) /\ UNCHANGED <<running, lost>>
  BY <1>1, QuietLeave DEF Start, TriggersInv, TypeOK
<1>2. CASE AttemptFailed(a) /\ UNCHANGED <<running, lost>>
  <2>1. PICK s \in Stage \ {"session", "open"}, v \in 0..MaxAttempts :
          /\ Goto(a, s) /\ attempt' = [attempt EXCEPT ![a] = v] /\ copy' = copy
          /\ s = "retry" => v < MaxAttempts
    BY <1>2, FailedGoesOn
  <2>2. copy' \in [Activations -> Copy] /\ circuit' = circuit /\ circuit \in CircuitState
    BY <2>1 DEF TriggersInv, TypeOK, Start, row
  <2> QED
    BY <1>2, <2>1, <2>2, QuietStep DEF Start, row
<1>3. CASE running' = running + 1 /\ Goto(a, "session") /\ UNCHANGED <<copy, attempt, lost>>
  <2> USE DEF TriggersInv
  <2>1. /\ attempt' = [attempt EXCEPT ![a] = attempt[a]] /\ attempt[a] \in 0..MaxAttempts
        /\ "session" \in Stage /\ stage[a] = "start"
    BY <1>3 DEF TypeOK, Stage, Start
  <2>2. TypeOK'
    <3>1. stage' \in [Activations -> Stage] /\ attempt' \in [Activations -> 0..MaxAttempts]
      BY <1>3, <2>1, GoesOn
    <3>2. running' \in Nat /\ copy' \in [Activations -> Copy] /\ lost' = lost
      BY <1>3 DEF TypeOK
    <3> QED
      BY <3>1, <3>2 DEF TypeOK, Start, row
  <2>3. RetriesLeft'
    BY <1>3, <2>1, GoesOn
  <2>4. RunningRowsAreReal'
    BY <1>3, <2>1, SessionBegins DEF RunningRowsAreReal, Start, TypeOK
  <2>5. FailingOpens'
    BY <1>3, <2>1, StillOpens DEF Start, row
  <2> QED
    BY <2>2, <2>3, <2>4, <2>5 DEF Start, row
<1>4. CASE /\ Leave(a) \/ AttemptFailed(a)
           /\ lost < MaxLost /\ running' = running + 1 /\ lost' = lost + 1
  <2> USE DEF TriggersInv
  <2>1. PICK s \in Stage \ {"session", "open"} : Goto(a, s)
    BY <1>4, FailedGoesOn DEF Leave, Stage
  <2>2. stage[a] = "start" /\ UNCHANGED <<row, enabled, healthy, streak>>
    BY DEF Start
  <2>3. /\ stage' \in [Activations -> Stage] /\ copy' \in [Activations -> Copy]
        /\ attempt' \in [Activations -> 0..MaxAttempts] /\ RetriesLeft'
    <3>1. CASE Leave(a)
      BY <3>1, LeaveKeeps
    <3>2. CASE AttemptFailed(a)
      <4>1. PICK t \in Stage \ {"session", "open"}, v \in 0..MaxAttempts :
              /\ Goto(a, t) /\ attempt' = [attempt EXCEPT ![a] = v] /\ copy' = copy
              /\ t = "retry" => v < MaxAttempts
        BY <3>2, FailedGoesOn
      <4>. QED BY <4>1, GoesOn DEF TypeOK
    <3>. QED BY <1>4, <3>1, <3>2
  <2>4. running' \in Nat /\ lost' \in 0..MaxLost
    BY <1>4, AgentTriggersAssumption DEF TypeOK
  <2>5. TypeOK'
    BY <2>2, <2>3, <2>4 DEF TypeOK, row
  <2>6. RunningRowsAreReal'
    <3>1. Cardinality(InSession') = Cardinality(InSession)
      BY <2>1, <2>2, NoSessionMoves
    <3>2. Cardinality(InSession) \in Nat
      BY FS_CardinalityType, SessionsFinite
    <3>. QED BY <1>4, <3>1, <3>2 DEF RunningRowsAreReal, TypeOK
  <2>7. FailingOpens'
    BY <2>1, <2>2, StillOpens DEF row
  <2>. QED BY <2>2, <2>3, <2>5, <2>6, <2>7 DEF row
<1> QED
  BY <1>1, <1>2, <1>3, <1>4 DEF Start, RowLeft

\* The rows of a session that ends.
LEMMA CompletedKeeps ==
  ASSUME TriggersInv, NEW a \in Activations, NEW s \in Stage, stage[a] = "session",
         s # "session", Goto(a, s), Completed
  PROVE  running' \in Nat /\ lost' \in 0..MaxLost /\ RunningRowsAreReal'
<1>1. /\ Cardinality(InSession') = Cardinality(InSession) - 1
      /\ Cardinality(InSession) \in Nat \ {0}
  BY SessionEnds DEF TriggersInv
<1>2. running = Cardinality(InSession) + lost /\ running \in Nat /\ lost \in 0..MaxLost
  BY DEF TriggersInv, RunningRowsAreReal, TypeOK
<1>3. MaxLost \in Nat
  BY AgentTriggersAssumption
<1>4. \/ running' = running - 1 /\ lost' = lost
      \/ lost < MaxLost /\ lost' = lost + 1 /\ running' = running
  BY DEF Completed
<1> QED
  BY <1>1, <1>2, <1>3, <1>4 DEF RunningRowsAreReal

LEMMA SessionKeeps ==
  ASSUME TriggersInv, NEW a \in Activations, SessionSucceeds(a) \/ SessionFails(a)
  PROVE  TriggersInv'
<1>1. PICK s \in Stage \ {"session", "open"}, v \in 0..MaxAttempts :
        /\ Goto(a, s) /\ attempt' = [attempt EXCEPT ![a] = v] /\ copy' = copy
        /\ s = "retry" => v < MaxAttempts
  <2>1. CASE SessionFails(a)
    BY <2>1, FailedGoesOn DEF SessionFails
  <2>2. CASE SessionSucceeds(a)
    <3>1. /\ Goto(a, "success") /\ copy' = copy
          /\ attempt' = [attempt EXCEPT ![a] = attempt[a]] /\ attempt[a] \in 0..MaxAttempts
      BY <2>2 DEF SessionSucceeds, TriggersInv, TypeOK
    <3>2. "success" \in Stage \ {"session", "open"} /\ "success" # "retry"
      BY DEF Stage
    <3> QED
      BY <3>1, <3>2
  <2> QED
    BY <2>1, <2>2
<1>2. /\ stage[a] = "session" /\ Completed
      /\ UNCHANGED <<row, enabled, healthy, streak>>
  BY DEF SessionSucceeds, SessionFails
<1> USE DEF TriggersInv
<1>3. running' \in Nat /\ lost' \in 0..MaxLost /\ RunningRowsAreReal'
  BY <1>1, <1>2, CompletedKeeps
<1>4. TypeOK'
  BY <1>1, <1>2, <1>3, GoesOn DEF TypeOK, row
<1>5. RetriesLeft'
  BY <1>1, GoesOn
<1>6. FailingOpens'
  BY <1>1, <1>2, StillOpens DEF row
<1> QED
  BY <1>2, <1>3, <1>4, <1>5, <1>6 DEF row

LEMMA RecordSuccessKeeps ==
  ASSUME TriggersInv, NEW a \in Activations, RecordSuccess(a)
  PROVE  TriggersInv'
<1> USE DEF TriggersInv
<1>1. /\ Leave(a) /\ stage[a] = "success" /\ streak' = 0
      /\ UNCHANGED <<enabled, running, healthy, lost>>
  BY DEF RecordSuccess
<1>2. circuit' \in CircuitState /\ failures' \in 0..Threshold /\ due' \in BOOLEAN
  <2>1. 0 \in 0..Threshold /\ "closed" \in CircuitState
    BY Attempts DEF CircuitState
  <2>2. circuit \in CircuitState /\ failures \in 0..Threshold /\ due \in BOOLEAN
    BY DEF TypeOK
  <2>3. circuit' = circuit \/ circuit' = "closed"
    BY DEF RecordSuccess, row
  <2>4. failures' = failures \/ failures' = 0
    BY DEF RecordSuccess, row
  <2>5. due' = due \/ due' = FALSE
    BY DEF RecordSuccess, row
  <2> QED
    BY <2>1, <2>2, <2>3, <2>4, <2>5
<1>3. TypeOK'
  BY <1>1, <1>2, LeaveKeeps, Attempts DEF TypeOK
<1>4. RetriesLeft' /\ RunningRowsAreReal'
  BY <1>1, LeaveKeeps DEF RunningRowsAreReal
<1>5. streak' <= failures' /\ FailingOpens'
  BY <1>1, <1>2, Attempts DEF FailingOpens
<1> QED
  BY <1>3, <1>4, <1>5

LEMMA RecordFailureKeeps ==
  ASSUME TriggersInv, NEW a \in Activations, RecordFailure(a)
  PROVE  TriggersInv'
<1>1. CASE Leave(a) /\ UNCHANGED <<failures, streak>>
  BY <1>1, QuietLeave DEF RecordFailure, TriggersInv, TypeOK, row
<1>2. CASE failures' = Counted(failures) /\ streak' = Counted(streak)
  <2> USE DEF TriggersInv
  <2>1. failures' \in 0..Threshold /\ streak' \in 0..Threshold /\ streak' <= failures'
    BY <1>2, Attempts DEF Counted, TypeOK
  <2>2. CASE Goto(a, "open") /\ UNCHANGED <<copy, attempt>>
    <3>1. /\ attempt' = [attempt EXCEPT ![a] = attempt[a]] /\ attempt[a] \in 0..MaxAttempts
          /\ "open" \in Stage /\ stage[a] = "failure"
      BY <2>2 DEF TypeOK, Stage, RecordFailure
    <3>2. TypeOK'
      BY <2>1, <2>2, <3>1, GoesOn DEF TypeOK, RecordFailure
    <3>3. RetriesLeft' /\ RunningRowsAreReal'
      BY <2>2, <3>1, GoesOn DEF RunningRowsAreReal, RecordFailure
    <3>4. FailingOpens'
      BY <2>2 DEF FailingOpens, Goto, TypeOK
    <3> QED
      BY <2>1, <3>2, <3>3, <3>4
  <2>3. CASE Leave(a) /\ ~ Exceeds(failures')
    <3>1. TypeOK'
      BY <2>1, <2>3, LeaveKeeps DEF TypeOK, RecordFailure
    <3>2. RetriesLeft' /\ RunningRowsAreReal'
      BY <2>3, LeaveKeeps DEF RunningRowsAreReal, RecordFailure
    <3>3. FailingOpens'
      BY <2>1, <2>3, Attempts DEF FailingOpens, Exceeds
    <3> QED
      BY <2>1, <3>1, <3>2, <3>3
  <2> QED
    BY <1>2, <2>2, <2>3, <1>1 DEF RecordFailure
<1> QED
  BY <1>1, <1>2 DEF RecordFailure

LEMMA OpenCircuitKeeps ==
  ASSUME TriggersInv, NEW a \in Activations, OpenCircuit(a)
  PROVE  TriggersInv'
<1> USE DEF TriggersInv
<1>1. /\ Leave(a) /\ stage[a] = "open"
      /\ UNCHANGED <<failures, enabled, running, healthy, lost>>
      /\ \/ circuit' = "open" /\ due' = FALSE /\ streak' = streak
         \/ streak' = 0 /\ UNCHANGED <<circuit, due>>
  BY DEF OpenCircuit
<1>2. TypeOK'
  <2>1. circuit' \in CircuitState /\ due' \in BOOLEAN
    BY <1>1 DEF TypeOK, CircuitState
  <2>2. streak' \in 0..Threshold
    BY <1>1, Attempts DEF TypeOK
  <2>3. /\ stage' \in [Activations -> Stage] /\ copy' \in [Activations -> Copy]
        /\ attempt' \in [Activations -> 0..MaxAttempts]
    BY <1>1, LeaveKeeps
  <2> QED
    BY <1>1, <2>1, <2>2, <2>3 DEF TypeOK
<1>3. RetriesLeft' /\ RunningRowsAreReal'
  BY <1>1, LeaveKeeps DEF RunningRowsAreReal
<1>4. streak' <= failures' /\ FailingOpens'
  BY <1>1, Attempts DEF FailingOpens, TypeOK
<1> QED
  BY <1>2, <1>3, <1>4

LEMMA DieKeeps ==
  ASSUME TriggersInv, NEW a \in Activations, Die(a)
  PROVE  TriggersInv'
<1> USE DEF TriggersInv
<1>1. Leave(a) /\ UNCHANGED <<row, enabled, running, healthy>>
  BY DEF Die
<1>2. MaxLost \in Nat
  BY AgentTriggersAssumption
<1>3. lost' \in 0..MaxLost /\ RunningRowsAreReal'
  <2>1. CASE stage[a] = "session"
    <3>1. lost' = lost + 1 /\ lost < MaxLost
      BY <2>1 DEF Die
    <3>2. Cardinality(InSession') = Cardinality(InSession) - 1
      BY <1>1, <2>1, SessionEnds DEF Leave, Stage
    <3>3. Cardinality(InSession) \in Nat
      BY FS_CardinalityType, SessionsFinite
    <3> QED
      BY <1>1, <1>2, <3>1, <3>2, <3>3 DEF RunningRowsAreReal, TypeOK
  <2>2. CASE stage[a] # "session"
    BY <1>1, <2>2, LeaveKeeps DEF Die, RunningRowsAreReal, TypeOK
  <2> QED
    BY <2>1, <2>2
<1>4. streak' \in 0..Threshold /\ streak' <= failures'
  BY <1>1, Attempts DEF Die, TypeOK, row
<1>5. TypeOK' /\ RetriesLeft'
  BY <1>1, <1>3, <1>4, LeaveKeeps DEF TypeOK, row
<1>6. FailingOpens'
  <2>1. CASE stage[a] = "open"
    BY <2>1, Attempts DEF Die, FailingOpens
  <2>2. CASE stage[a] # "open"
    BY <1>1, <2>2, StillOpens DEF Die, Leave, row
  <2> QED
    BY <2>1, <2>2
<1> QED
  BY <1>3, <1>4, <1>5, <1>6

\* Nobody moves.
LEMMA OutsideKeeps ==
  ASSUME TriggersInv, Elapse \/ Update \/ Repair
  PROVE  TriggersInv'
<1> USE DEF TriggersInv
<1>1. /\ UNCHANGED <<circuit, failures, running, stage, attempt, streak, lost>>
      /\ due' \in BOOLEAN /\ enabled' \in BOOLEAN /\ healthy' \in BOOLEAN
  BY DEF Elapse, Update, Repair, row, activations, TypeOK
<1>2. copy' \in [Activations -> Copy]
  <2>1. CASE Elapse
    BY <2>1 DEF Elapse, TypeOK, Copy
  <2>2. CASE Update \/ Repair
    BY <2>2 DEF Update, Repair, activations, TypeOK
  <2> QED
    BY <2>1, <2>2
<1>3. TypeOK'
  BY <1>1, <1>2 DEF TypeOK
<1>4. InSession' = InSession
  BY <1>1 DEF InSession
<1>5. Cardinality(InSession') = Cardinality(InSession)
  BY <1>4, Zenon
<1>6. RunningRowsAreReal'
  BY <1>1, <1>5 DEF RunningRowsAreReal
<1>7. RetriesLeft' /\ FailingOpens'
  BY <1>1 DEF RetriesLeft, FailingOpens
<1> QED
  BY <1>1, <1>3, <1>6, <1>7

-----------------------------------------------------------------------------
(* The theorems.                                                           *)

LEMMA InitHolds == Init => TriggersInv
<1> SUFFICES ASSUME Init PROVE TriggersInv
  OBVIOUS
<1>1. TypeOK
  <2>1. circuit \in CircuitState /\ stage \in [Activations -> Stage]
    BY DEF Init, CircuitState, Stage
  <2>2. copy \in [Activations -> Copy]
    BY FreshIsCopy DEF Init
  <2>3. /\ failures \in 0..Threshold /\ streak \in 0..Threshold /\ lost \in 0..MaxLost
        /\ running \in Nat /\ attempt \in [Activations -> 0..MaxAttempts]
    BY Attempts, AgentTriggersAssumption DEF Init
  <2>4. due \in BOOLEAN /\ enabled \in BOOLEAN /\ healthy \in BOOLEAN
    BY DEF Init
  <2> QED
    BY <2>1, <2>2, <2>3, <2>4 DEF TypeOK
<1>2. InSession = {}
  BY DEF Init, InSession
<1>3. Cardinality(InSession) = 0
  <2>1. Cardinality({}) = 0
    BY FS_EmptySet
  <2> QED
    BY <1>2, <2>1, Zenon
<1>4. RunningRowsAreReal
  BY <1>3 DEF RunningRowsAreReal, Init
<1>5. RetriesLeft /\ FailingOpens /\ streak <= failures
  BY Attempts DEF RetriesLeft, FailingOpens, Init
<1> QED
  BY <1>1, <1>4, <1>5 DEF TriggersInv

LEMMA NextKeeps == TriggersInv /\ [Next]_vars => TriggersInv'
<1> SUFFICES ASSUME TriggersInv, [Next]_vars PROVE TriggersInv'
  OBVIOUS
<1>1. ASSUME NEW a \in Activations, Fire(a) \/ Test(a) PROVE TriggersInv'
  BY <1>1, LoadKeeps DEF Fire, Test
<1>2. ASSUME NEW a \in Activations, Step(a) PROVE TriggersInv'
  BY <1>2, CheckKeeps, HalfOpenKeeps, CountKeeps, StartKeeps, RetryKeeps, SessionKeeps,
     RecordSuccessKeeps, RecordFailureKeeps, OpenCircuitKeeps DEF Step
<1>3. ASSUME NEW a \in Activations, Die(a) PROVE TriggersInv'
  BY <1>3, DieKeeps
<1>4. CASE Elapse \/ Update \/ Repair
  BY <1>4, OutsideKeeps
<1>5. CASE UNCHANGED vars
  <2>1. UNCHANGED <<circuit, failures, due, enabled, running, stage, copy, attempt, healthy,
                    streak, lost>>
    BY <1>5 DEF vars, row, activations
  <2>2. Cardinality(InSession') = Cardinality(InSession)
    <3>1. InSession' = InSession
      BY <2>1 DEF InSession
    <3> QED
      BY <3>1, Zenon
  <2> QED
    BY <2>1, <2>2 DEF TriggersInv, TypeOK, RetriesLeft, RunningRowsAreReal, FailingOpens
<1> QED
  BY <1>1, <1>2, <1>3, <1>4, <1>5 DEF Next

\* Executor.Execute in any number of goroutines and processes: rows, copies, attempts and
\* counts agree at all times.
THEOREM TriggersInvariant == Spec => []TriggersInv
BY InitHolds, NextKeeps, PTL DEF Spec

\* The columns of a trigger and the stages of its activations only hold what their types
\* say.
THEOREM TriggersTyped == Spec => []TypeOK
<1>1. TriggersInv => TypeOK
  BY DEF TriggersInv
<1> QED
  BY <1>1, TriggersInvariant, PTL

\* executeSingle, executeWorkflowTrigger: no path leaves a running row behind.
THEOREM RunningRowsHaveSessions == Spec => []RunningRowsAreReal
<1>1. TriggersInv => RunningRowsAreReal
  BY DEF TriggersInv
<1> QED
  BY <1>1, TriggersInvariant, PTL

\* RecordFailure: stale copies may open a circuit too early, never too late.
THEOREM FailingTriggersOpen == Spec => []FailingOpens
<1>1. TriggersInv => FailingOpens
  BY DEF TriggersInv
<1> QED
  BY <1>1, TriggersInvariant, PTL
=============================================================================

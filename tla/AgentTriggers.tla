--------------------------- MODULE AgentTriggers ----------------------------
(* One agent trigger: its row with the circuit breaker, the executions that *)
(* cron ticks, webhooks, events and tests start in any gateway process, and *)
(* the rows that record them (internal/agents/trigger).                     *)
(*                                                                          *)
(* Every activation works on the copy of the row it was started with, and   *)
(* each store call is a step: what it decides may be long out of date when   *)
(* it writes.  Inputs, templates and results are left out.                   *)
EXTENDS Naturals, FiniteSets

CONSTANTS
  Activations,    \* goroutines in Executor.Execute, of all processes
  Type,           \* the trigger's type
  Workflow,       \* whether it runs a workflow instead of an agent session
  MaxRetries,
  MaxConcurrent,
  Trouble,        \* store calls that may fail: "record", "complete", "circuit"
  MaxLost         \* bound: activations that die and rows that stay running

ASSUME AgentTriggersAssumption ==
  /\ IsFiniteSet(Activations)
  /\ Type \in {"cron", "webhook", "event"}
  /\ Workflow \in BOOLEAN
  /\ MaxRetries \in Nat /\ MaxConcurrent \in Nat /\ MaxLost \in Nat

VARIABLES
  circuit, failures, due, enabled,    \* agent_triggers; due: circuitResetPeriod is over
  running,                            \* agent_trigger_executions with status running
  stage, copy, attempt,               \* the activations
  healthy,                            \* from now on sessions and the store work
  streak,                             \* history: failures recorded since a success
  lost                                \* history: rows nobody will complete

row         == <<circuit, failures, due>>
activations == <<stage, copy, attempt>>
vars == <<row, enabled, running, activations, healthy, streak, lost>>

CircuitState == {"closed", "open", "half_open"}
Stage == {"free", "fired", "half_open", "count", "start", "session", "retry",
          "success", "failure", "open"}

\* RecordFailure's threshold, and the number of attempts of one activation.
Threshold   == MaxRetries + 1
MaxAttempts == IF Workflow THEN 1 ELSE MaxRetries + 1

\* Mutant of Counted: one more than the threshold.
CountedPast(n) == IF n <= Threshold THEN n + 1 ELSE n

\* Counts are only compared with the threshold, so they stop there.
Counted(n) == IF n < Threshold THEN n + 1 ELSE n

\* What an activation looks at in its copy of the row.
Copy == [circuit: CircuitState, failed: BOOLEAN, due: BOOLEAN]

TypeOK ==
  /\ circuit \in CircuitState /\ failures \in 0..Threshold
  /\ due \in BOOLEAN /\ enabled \in BOOLEAN /\ healthy \in BOOLEAN
  /\ running \in Nat
  /\ stage \in [Activations -> Stage]
  /\ copy \in [Activations -> Copy]
  /\ attempt \in [Activations -> 0..MaxAttempts]
  /\ streak \in 0..Threshold
  /\ lost \in 0..MaxLost

\* The row as it is read now.
Seen == [circuit |-> circuit, failed |-> failures > 0, due |-> circuit = "open" /\ due]

Fresh == [circuit |-> "closed", failed |-> FALSE, due |-> FALSE]

Init ==
  /\ circuit = "closed" /\ failures = 0 /\ due = FALSE
  /\ enabled = TRUE
  /\ running = 0
  /\ stage = [a \in Activations |-> "free"]
  /\ copy = [a \in Activations |-> Fresh]
  /\ attempt = [a \in Activations |-> 0]
  /\ healthy = FALSE
  /\ streak = 0
  /\ lost = 0

-----------------------------------------------------------------------------
(* Pieces.                                                                  *)

Goto(a, s) == stage' = [stage EXCEPT ![a] = s]

\* An activation ends; what it knew is gone.
Leave(a) ==
  /\ Goto(a, "free")
  /\ copy' = [copy EXCEPT ![a] = Fresh]
  /\ attempt' = [attempt EXCEPT ![a] = 0]

Fails(call) == call \in Trouble /\ ~ healthy

\* CircuitBreaker.ShouldExecute: of the copy t.
ShouldExecute(t) == t.circuit = "open" => t.due

\* Mutant of Fireable: the lookup of a webhook leaves out open triggers as well.
FireableUnlessOpen == enabled /\ circuit # "open"

\* The queries that find triggers to fire leave out open ones, all but the lookup
\* of a webhook, whose handler asks the breaker.
Fireable ==
  /\ enabled
  /\ IF Type = "webhook"
       THEN ShouldExecute(Seen)
       ELSE circuit # "open"

\* The attempt of a is over without success: again, or no more.
AttemptFailed(a) ==
  /\ Goto(a, IF attempt[a] < MaxAttempts THEN "retry" ELSE "failure")
  /\ UNCHANGED <<copy, attempt>>

-----------------------------------------------------------------------------
(* What starts an activation.                                               *)

Load(a) ==
  /\ stage[a] = "free"
  /\ Goto(a, "fired")
  /\ copy' = [copy EXCEPT ![a] = Seen]
  /\ UNCHANGED <<row, enabled, running, attempt, healthy, streak, lost>>

\* Scheduler.tick, WebhookHandler.Handle or EventSubscriber.handleEvent.
Fire(a) == Fireable /\ Load(a)

\* TestAgentTrigger: for any trigger.
Test(a) == Load(a)

-----------------------------------------------------------------------------
(* Executor.Execute.                                                        *)

\* The check of the circuit.
Check(a) ==
  /\ stage[a] = "fired"
  /\ \/ /\ ~ ShouldExecute(copy[a])
        /\ Leave(a)
     \/ /\ ShouldExecute(copy[a])
        /\ Goto(a, IF copy[a].circuit = "open" THEN "half_open" ELSE "count")
        /\ UNCHANGED <<copy, attempt>>
  /\ UNCHANGED <<row, enabled, running, healthy, streak, lost>>

\* TransitionToHalfOpen, whatever the circuit has become meanwhile.
HalfOpen(a) ==
  /\ stage[a] = "half_open"
  /\ \/ /\ circuit' = "half_open"
        /\ copy' = [copy EXCEPT ![a].circuit = "half_open"]
        /\ Goto(a, "count")
        /\ UNCHANGED attempt
     \/ /\ Fails("circuit")
        /\ Leave(a)
        /\ UNCHANGED circuit
  /\ UNCHANGED <<failures, due, enabled, running, healthy, streak, lost>>

\* CountRunningExecutions.
Count(a) ==
  /\ stage[a] = "count"
  /\ \/ /\ running < MaxConcurrent
        /\ Goto(a, "start")
        /\ attempt' = [attempt EXCEPT ![a] = 1]
        /\ UNCHANGED copy
     \/ /\ running >= MaxConcurrent \/ Fails("record")
        /\ Leave(a)
  /\ UNCHANGED <<row, enabled, running, healthy, streak, lost>>

\* A RecordExecution that returns an error left no row, or one that nobody completes.
RowLeft ==
  \/ UNCHANGED <<running, lost>>
  \/ lost < MaxLost /\ running' = running + 1 /\ lost' = lost + 1

\* RecordExecution: an attempt begins.
Start(a) ==
  /\ stage[a] = "start"
  /\ \/ /\ running' = running + 1
        /\ Goto(a, "session")
        /\ UNCHANGED <<copy, attempt, lost>>
     \/ /\ Fails("record")
        /\ IF Workflow THEN Leave(a) ELSE AttemptFailed(a)
        /\ RowLeft
  /\ UNCHANGED <<row, enabled, healthy, streak>>

\* Mutant of Completed: a row is left running without notice.
CompletedOrForgotten == running' \in {running, running - 1} /\ UNCHANGED lost

\* completeExecution, which only logs an error.
Completed ==
  \/ /\ running' = running - 1
     /\ UNCHANGED lost
  \/ /\ Fails("complete") /\ lost < MaxLost
     /\ lost' = lost + 1
     /\ UNCHANGED running

\* The session ends, fails, cannot be launched, or is given up after its timeout.
SessionSucceeds(a) ==
  /\ stage[a] = "session"
  /\ Completed
  /\ Goto(a, "success")
  /\ UNCHANGED <<row, enabled, copy, attempt, healthy, streak>>

SessionFails(a) ==
  /\ stage[a] = "session"
  /\ ~ healthy
  /\ Completed
  /\ AttemptFailed(a)
  /\ UNCHANGED <<row, enabled, healthy, streak>>

\* Mutant of Retry: the attempts are not counted.
RetryUncounted(a) ==
  /\ stage[a] = "retry"
  /\ Goto(a, "start")
  /\ UNCHANGED <<row, enabled, running, copy, attempt, healthy, streak, lost>>

\* The delay between two attempts is over.
Retry(a) ==
  /\ stage[a] = "retry"
  /\ Goto(a, "start")
  /\ attempt' = [attempt EXCEPT ![a] = @ + 1]
  /\ UNCHANGED <<row, enabled, running, copy, healthy, streak, lost>>

-----------------------------------------------------------------------------
(* The circuit breaker's records.                                           *)

\* Mutant of RecordSuccess: what closes is the success of an open circuit.
RecordSuccessOfOpen(a) ==
  /\ stage[a] = "success"
  /\ failures' = 0
  /\ IF copy[a].circuit = "open"
       THEN circuit' = "closed" /\ due' = FALSE
       ELSE UNCHANGED <<circuit, due>>
  /\ Leave(a)
  /\ streak' = 0
  /\ UNCHANGED <<enabled, running, healthy, lost>>

\* RecordSuccess: CloseCircuit, ResetFailures or nothing, as the copy has it.
RecordSuccess(a) ==
  /\ stage[a] = "success"
  /\ \/ /\ copy[a].circuit = "half_open"
        /\ circuit' = "closed" /\ failures' = 0 /\ due' = FALSE
     \/ /\ copy[a].circuit # "half_open" /\ copy[a].failed
        /\ failures' = 0
        /\ UNCHANGED <<circuit, due>>
     \/ /\ \/ copy[a].circuit # "half_open" /\ ~ copy[a].failed
           \/ Fails("circuit")
        /\ UNCHANGED row
  /\ Leave(a)
  /\ streak' = 0
  /\ UNCHANGED <<enabled, running, healthy, lost>>

\* Mutant of Exceeds: one failure more.
ExceedsByOne(n) == n > Threshold

\* The count that comes back from IncrementFailures reaches the threshold.
Exceeds(n) == n >= Threshold

\* RecordFailure: IncrementFailures, and the decision about its result.
RecordFailure(a) ==
  /\ stage[a] = "failure"
  /\ \/ /\ failures' = Counted(failures)
        /\ streak' = Counted(streak)
        /\ IF copy[a].circuit = "half_open" \/ Exceeds(failures')
             THEN Goto(a, "open") /\ UNCHANGED <<copy, attempt>>
             ELSE Leave(a)
     \/ /\ Fails("circuit")
        /\ Leave(a)
        /\ UNCHANGED <<failures, streak>>
  /\ UNCHANGED <<circuit, due, enabled, running, healthy, lost>>

\* OpenCircuit.  When it fails the counting starts again, for the history.
OpenCircuit(a) ==
  /\ stage[a] = "open"
  /\ \/ /\ circuit' = "open" /\ due' = FALSE
        /\ UNCHANGED streak
     \/ /\ Fails("circuit")
        /\ streak' = 0
        /\ UNCHANGED <<circuit, due>>
  /\ Leave(a)
  /\ UNCHANGED <<failures, enabled, running, healthy, lost>>

-----------------------------------------------------------------------------
(* The surroundings.                                                        *)

\* circuitResetPeriod has passed since the circuit was opened, for those that saw an
\* earlier opening at least.
Elapse ==
  /\ due' \in {due, due \/ circuit = "open"}
  /\ copy' = [a \in Activations |-> [copy[a] EXCEPT !.due = @ \/ copy[a].circuit = "open"]]
  /\ UNCHANGED <<circuit, failures, enabled, running, stage, attempt, healthy, streak, lost>>

\* UpdateTrigger writes the settings and never the circuit.
Update ==
  /\ enabled' \in BOOLEAN
  /\ UNCHANGED <<row, running, activations, healthy, streak, lost>>

\* The process of a dies: a row that is running stays so.
Die(a) ==
  /\ stage[a] # "free" /\ ~ healthy
  /\ stage[a] = "session" => lost < MaxLost
  /\ lost' = lost + IF stage[a] = "session" THEN 1 ELSE 0
  /\ streak' = IF stage[a] = "open" THEN 0 ELSE streak
  /\ Leave(a)
  /\ UNCHANGED <<row, enabled, running, healthy>>

\* External: whatever made sessions fail is repaired.
Repair ==
  /\ ~ healthy
  /\ healthy' = TRUE
  /\ UNCHANGED <<row, enabled, running, activations, streak, lost>>

-----------------------------------------------------------------------------
Step(a) ==
  \/ Check(a) \/ HalfOpen(a) \/ Count(a) \/ Start(a) \/ Retry(a)
  \/ SessionSucceeds(a) \/ SessionFails(a)
  \/ RecordSuccess(a) \/ RecordFailure(a) \/ OpenCircuit(a)

Next ==
  \/ \E a \in Activations : Fire(a) \/ Test(a) \/ Step(a) \/ Die(a)
  \/ Elapse \/ Update \/ Repair

Spec == Init /\ [][Next]_vars

\* Goroutines run on, time passes, and whoever calls the trigger calls again.
ResetPeriodEnds == Elapse /\ due'
Fairness ==
  /\ \A a \in Activations : WF_vars(Step(a)) /\ WF_vars(Fire(a))
  /\ WF_vars(ResetPeriodEnds)

FairSpec == Spec /\ Fairness

-----------------------------------------------------------------------------
(* What is meant to hold.                                                   *)

InSession == {a \in Activations : stage[a] = "session"}

\* CountRunningExecutions counts rows that say running: they are the activations in a
\* session and the rows that a dead process or a failed store call left behind, through
\* retries, refusals and late ends.  (The ways in which executeSingle and
\* executeWorkflowTrigger end an attempt, each of which calls completeExecution, are
\* one action here.)
RunningRowsAreReal == running = Cardinality(InSession) + lost

\* RecordFailure: whatever copies the activations decide by, a trigger that has failed
\* max_retries + 1 times since any success does not stay closed.
FailingOpens ==
  streak = Threshold => circuit # "closed" \/ \E a \in Activations : stage[a] = "open"

\* circuitResetPeriod: "how long the circuit stays open before transitioning to
\* half-open", of a trigger that is enabled in a system that works.
Settled  == <>[](enabled /\ healthy)
OpenEnds == Settled => (circuit = "open" ~> circuit # "open")

\* executeWithRetries: retries are counted and sessions time out, so every activation
\* comes to its end.
ActivationsEnd == \A a \in Activations : stage[a] # "free" ~> stage[a] = "free"

\* Once sessions succeed again, the probes close the circuit, and no late record of an
\* earlier copy keeps it from staying closed.
CircuitHeals == Settled => <>[](circuit = "closed")
=============================================================================

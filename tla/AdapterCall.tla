---------------------------- MODULE AdapterCall -----------------------------
(***************************************************************************)
(* What the adapters share: the process that runs them, the Tasks they are *)
(* called for and the wall time these Tasks have left                      *)
(* (TaskExecutionContext of aios-runtime/src/supervisor.rs).  An adapter   *)
(* is reached only through its gate, which has decided that the operation  *)
(* may run, and calls are made one at a time through &mut references.      *)
(*                                                                         *)
(* A call is a sequence of steps: between two of them time passes, other   *)
(* processes act, and the runtime may die.  What it leaves behind - files, *)
(* processes, cgroups - stays; what it held in memory is gone.             *)
(***************************************************************************)
EXTENDS Integers, FiniteSets, Sequences, Maps

CONSTANT Tasks              \* bound: the Task ids ever issued

ASSUME TasksAssumption == Tasks \subseteq Nat \ {0}

VARIABLES
  runtime,    \* "down", "starting" or "up"
  recorded,   \* Tasks that have a log in the event store; durable
  spec,       \* Task -> its capabilities, in the log; durable
  recovered,  \* those found in the store when this process started
  elapsed,    \* Tasks whose wall time is used up
  call        \* the adapter call in progress, or returned and not yet seen

NoCall ==
  [adapter |-> "none", task |-> 0, pc |-> "idle", result |-> "none",
   late |-> FALSE, effect |-> FALSE]

lifecycle == <<runtime, recorded, spec, recovered>>

\* Tasks that this process runs.  That one of them has ended needs no step: it
\* gets no further calls.
Active == recorded \ recovered

Idle == runtime = "up" /\ call = NoCall

\* late: the Task had no time left when the call began; effect: the call has
\* changed something outside the process.  Both are there for the properties.
BeginCall(adapter, t, pc) ==
  /\ Idle
  /\ call' = [adapter |-> adapter, task |-> t, pc |-> pc, result |-> "none",
              late |-> t \in elapsed, effect |-> FALSE]

At(adapter, pc) ==
  runtime = "up" /\ call.adapter = adapter /\ call.pc = pc
Goto(pc) == call' = [call EXCEPT !.pc = pc]
GotoAfterEffect(pc) == call' = [call EXCEPT !.pc = pc, !.effect = TRUE]
Return(result) == call' = [call EXCEPT !.pc = "returned", !.result = result]

\* remaining_wall_time().is_zero() is false.
BudgetLeft == call.task \notin elapsed

\* Mutant: the remaining time is not looked at.
IgnoreBudget(pc) == Goto(pc)

\* require_remaining_budget, and effective_timeout as far as it decides.
CheckBudget(pc) == IF BudgetLeft THEN Goto(pc) ELSE Return("BudgetExceeded")

\* io_failure: an error after the deadline is a matter of the budget.
IoFailure(fallback) ==
  Return(IF BudgetLeft THEN fallback ELSE "BudgetExceeded")

-----------------------------------------------------------------------------
\* The supervisor records a Task before anybody can act for it.
SubmitTask(t, capabilities) ==
  /\ Idle
  /\ t \notin recorded
  /\ \A u \in Tasks \ recorded : t <= u
  /\ recorded' = recorded \cup {t}
  /\ spec' = Insert(spec, t, capabilities)
  /\ UNCHANGED <<runtime, recovered, elapsed, call>>

\* The caller has the result, and goes on.
Deliver ==
  /\ runtime = "up"
  /\ call.pc = "returned"
  /\ call' = NoCall
  /\ UNCHANGED <<lifecycle, elapsed>>

\* During a call only the Task of the call looks at its time.
TimePasses(t) ==
  /\ t \in Active \ elapsed
  /\ Idle \/ (call.task = t /\ call.pc # "returned")
  /\ elapsed' = elapsed \cup {t}
  /\ UNCHANGED <<lifecycle, call>>

=============================================================================

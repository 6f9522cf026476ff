--------------------------- MODULE RegistryProofs ---------------------------
(***************************************************************************)
(* Theorems about the supervisor's registries of Tasks, for every value of *)
(* the constants: the idempotency index is exact, the store never holds    *)
(* more than max_tasks Tasks however often the process restarts, and what  *)
(* an earlier process left behind has ended once the supervisor serves.    *)
(***************************************************************************)
EXTENDS SupervisorProperties, FiniteSetTheorems, TLAPS

\* Which Tasks each registry holds in each phase of the process.
PhasesAgree ==
  /\ mode \in {"down", "recovering", "serving"}
  /\ mode = "down" => Known = {}
  /\ mode = "recovering" =>
       DOMAIN tasks = {} /\ DOMAIN recovered_tasks = DOMAIN log
  /\ mode = "serving" => Known = DOMAIN log
  /\ DOMAIN tasks \cap DOMAIN recovered_tasks = {}

RecordsShaped == \A t \in DOMAIN tasks : DOMAIN tasks[t] = {"spec", "state"}

LogFinite == IsFiniteSet(DOMAIN log)

(***************************************************************************)
(* The inductive invariant.  A new Task's id is not in the store, so the   *)
(* index stays exact only if the live Tasks are all stored; the capacity   *)
(* test counts two maps, so it bounds the store only if the two are        *)
(* disjoint and are the store.                                             *)
(***************************************************************************)
RegistryInv ==
  /\ PhasesAgree
  /\ RecordsShaped
  /\ LogFinite
  /\ TaskCapacityKept
  /\ IdempotencyIndexExact
  /\ RecoveredTasksHaveEnded

\* What every step but a submission and those of a restart does to the
\* registries: it may move one live Task to another state.
Touches ==
  /\ DOMAIN log' = DOMAIN log
  /\ DOMAIN tasks' = DOMAIN tasks
  /\ \A t \in DOMAIN tasks : /\ DOMAIN tasks'[t] = DOMAIN tasks[t]
                             /\ tasks'[t].spec = tasks[t].spec
  /\ UNCHANGED <<mode, recovered_tasks, idempotency_index>>

\* Such a step keeps the invariant.
LEMMA TouchesKeeps == RegistryInv /\ Touches => RegistryInv'
<1> SUFFICES ASSUME RegistryInv, Touches PROVE RegistryInv'
  OBVIOUS
<1>1. PhasesAgree' /\ RecordsShaped' /\ LogFinite' /\ TaskCapacityKept'
  BY DEF RegistryInv, Touches, PhasesAgree, Known, RecordsShaped, LogFinite,
         TaskCapacityKept
<1>2. IdempotencyIndexExact'
  BY DEF RegistryInv, Touches, IdempotencyIndexExact
<1>3. RecoveredTasksHaveEnded'
  BY DEF RegistryInv, Touches, RecoveredTasksHaveEnded
<1> QED BY <1>1, <1>2, <1>3 DEF RegistryInv

\* An append to a stored Task adds no Task to the store.
LEMMA AppendKeepsDomain ==
  ASSUME NEW t \in DOMAIN log, NEW events, AppendBatch(t, events)
  PROVE  DOMAIN log' = DOMAIN log
  BY DEF AppendBatch, Insert

\* Setting the state of a live Task keeps its specification.
LEMMA SetStateKeepsSpec ==
  ASSUME RecordsShaped, NEW t \in DOMAIN tasks, NEW state,
         SetTaskState(t, state)
  PROVE  /\ DOMAIN tasks' = DOMAIN tasks
         /\ \A u \in DOMAIN tasks : /\ DOMAIN tasks'[u] = DOMAIN tasks[u]
                                    /\ tasks'[u].spec = tasks[u].spec
  BY DEF RecordsShaped, SetTaskState

\* The live Tasks are stored, in every phase.
LEMMA LiveIsStored == RegistryInv => DOMAIN tasks \subseteq DOMAIN log
  BY DEF RegistryInv, PhasesAgree, Known

\* apply_transition_with_failure, of a Task that has not ended: once the
\* supervisor serves, it is a live one.
LEMMA ApplyTransitionTouches ==
  ASSUME RegistryInv, mode = "serving", NEW t \in Known,
         ~IsTerminal(StateOf(t)), NEW next, NEW failure,
         ApplyTransition(t, next, failure)
  PROVE  Touches
<1>1. t \in DOMAIN tasks
  BY DEF RegistryInv, RecoveredTasksHaveEnded, Known, StateOf
<1>2. t \in DOMAIN log
  BY <1>1, LiveIsStored
<1>3. PICK events : AppendBatch(t, events)
  BY DEF ApplyTransition
<1>4. DOMAIN log' = DOMAIN log
  BY <1>2, <1>3, AppendKeepsDomain
<1>5. SetTaskState(t, next) /\ UNCHANGED <<recovered_tasks, mode,
                                           idempotency_index>>
  BY <1>1 DEF ApplyTransition
<1>6. RecordsShaped
  BY DEF RegistryInv
<1> QED BY <1>1, <1>4, <1>5, <1>6, SetStateKeepsSpec DEF Touches

\* A state that has a successor is not terminal (can_transition_to).
LEMMA TransitionMeansAlive ==
  ASSUME NEW state, NEW next, CanTransitionTo(state, next)
  PROVE  ~IsTerminal(state)
  BY DEF CanTransitionTo, IsTerminal, Terminal

\* A batch for a live Task, with its state set or left alone, is such a step.
LEMMA LiveAppendTouches ==
  ASSUME RegistryInv, NEW t \in DOMAIN tasks, NEW events,
         AppendBatch(t, events),
         UNCHANGED tasks \/ \E state : SetTaskState(t, state),
         UNCHANGED <<mode, recovered_tasks, idempotency_index>>
  PROVE  Touches
<1>1. DOMAIN log' = DOMAIN log
  BY LiveIsStored, AppendKeepsDomain
<1>2. RecordsShaped
  BY DEF RegistryInv
<1>3. CASE UNCHANGED tasks
  BY <1>1, <1>3 DEF Touches
<1>4. CASE \E state : SetTaskState(t, state)
  BY <1>1, <1>2, <1>4, SetStateKeepsSpec DEF Touches
<1> QED BY <1>3, <1>4

\* A step that leaves the registries alone is such a step.
LEMMA UnchangedTouches ==
  ASSUME UNCHANGED <<log, mode, tasks, recovered_tasks, idempotency_index>>
  PROVE  Touches
  BY DEF Touches

\* submit: the new Task is in neither map, its key not in the index.
LEMMA SubmitKeeps ==
  ASSUME RegistryInv, NEW t \in TaskIds, NEW spec \in Specs, Submit(t, spec)
  PROVE  RegistryInv'
<1>1. /\ mode = "serving" /\ mode' = mode
      /\ recovered_tasks' = recovered_tasks
      /\ tasks' = Insert(tasks, t, SubmittedTask(spec))
      /\ idempotency_index' = Insert(idempotency_index, spec.key, t)
      /\ spec.key \notin DOMAIN idempotency_index
      /\ DOMAIN log = 1..(t - 1)
  BY DEF Submit, Idle, IsNewKey, IsNewTaskId
<1>2. DOMAIN log' = DOMAIN log \cup {t}
  BY DEF Submit, AppendBatch, Insert
<1>3. t \notin DOMAIN log
  BY <1>1 DEF TaskIds
<1>4. /\ Known = DOMAIN log
      /\ DOMAIN tasks \cap DOMAIN recovered_tasks = {}
  BY <1>1 DEF RegistryInv, PhasesAgree
<1>5. DOMAIN tasks' = DOMAIN tasks \cup {t}
      /\ tasks'[t] = SubmittedTask(spec)
      /\ \A u \in DOMAIN tasks : tasks'[u] = tasks[u]
  BY <1>1, <1>3, <1>4 DEF Insert, Known
<1>6. PhasesAgree'
  BY <1>1, <1>2, <1>3, <1>4, <1>5 DEF PhasesAgree, Known
<1>7. RecordsShaped'
  <2>1. DOMAIN SubmittedTask(spec) = {"spec", "state"}
    BY DEF SubmittedTask
  <2> QED BY <1>5, <2>1 DEF RegistryInv, RecordsShaped
<1>8. LogFinite' /\ TaskCapacityKept'
  <2>1. IsFiniteSet(DOMAIN log)
    BY DEF RegistryInv, LogFinite
  <2>2. IsFiniteSet(DOMAIN tasks) /\ IsFiniteSet(DOMAIN recovered_tasks)
    BY <2>1, <1>4, FS_Subset DEF Known
  <2>3. Cardinality(DOMAIN log) =
          Cardinality(DOMAIN tasks) + Cardinality(DOMAIN recovered_tasks)
            - Cardinality({})
    BY <2>2, <1>4, FS_Union DEF Known
  <2>4. /\ Cardinality(DOMAIN tasks) \in Nat
        /\ Cardinality(DOMAIN recovered_tasks) \in Nat
    BY <2>2, FS_CardinalityType
  <2>5. Cardinality(DOMAIN log) < MaxTasks /\ Cardinality(DOMAIN log) \in Nat
    BY <2>3, <2>4, FS_EmptySet DEF Submit, HasTaskCapacity
  <2>6. /\ IsFiniteSet(DOMAIN log')
        /\ Cardinality(DOMAIN log') = Cardinality(DOMAIN log) + 1
    BY <1>2, <1>3, <2>1, FS_AddElement
  <2> QED BY <2>5, <2>6, MaxTasksAssumption DEF LogFinite, TaskCapacityKept
<1>9. IdempotencyIndexExact'
  <2>1. IdempotencyIndexExact /\ t \notin DOMAIN tasks
    BY <1>3, <1>4 DEF RegistryInv, Known
  <2>2. tasks'[t].spec = spec
    BY <1>5 DEF SubmittedTask
  <2>3. /\ DOMAIN idempotency_index' = DOMAIN idempotency_index \cup {spec.key}
        /\ idempotency_index'[spec.key] = t
        /\ \A k \in DOMAIN idempotency_index :
             idempotency_index'[k] = idempotency_index[k]
    BY <1>1 DEF Insert
  <2>4. ASSUME NEW k \in DOMAIN idempotency_index'
        PROVE  /\ idempotency_index'[k] \in DOMAIN tasks'
               /\ tasks'[idempotency_index'[k]].spec.key = k
    BY <1>5, <2>1, <2>2, <2>3, <2>4 DEF IdempotencyIndexExact
  <2>5. ASSUME NEW u \in DOMAIN tasks'
        PROVE  /\ tasks'[u].spec.key \in DOMAIN idempotency_index'
               /\ idempotency_index'[tasks'[u].spec.key] = u
    BY <1>5, <2>1, <2>2, <2>3, <2>5 DEF IdempotencyIndexExact
  <2> QED BY <2>4, <2>5 DEF IdempotencyIndexExact
<1>10. RecoveredTasksHaveEnded'
  BY <1>1 DEF RegistryInv, RecoveredTasksHaveEnded
<1> QED BY <1>6, <1>7, <1>8, <1>9, <1>10 DEF RegistryInv

\* The steps of a restart: what is lost, what is read back, what is ended.
LEMMA RestartKeeps == RegistryInv /\ Restart => RegistryInv'
<1> SUFFICES ASSUME RegistryInv, Restart PROVE RegistryInv'
  OBVIOUS
<1> USE DEF RegistryInv
<1>1. CASE Crash
  BY <1>1 DEF Crash, PhasesAgree, Known, RecordsShaped, LogFinite,
     TaskCapacityKept, IdempotencyIndexExact, RecoveredTasksHaveEnded, EmptyMap
<1>2. CASE RecoverSnapshots
  <2>1. /\ mode = "down" /\ mode' = "recovering"
        /\ UNCHANGED <<log, tasks, idempotency_index>>
        /\ DOMAIN recovered_tasks' = DOMAIN log
    BY <1>2 DEF RecoverSnapshots
  <2> QED BY <2>1 DEF PhasesAgree, Known, RecordsShaped, LogFinite,
          TaskCapacityKept, IdempotencyIndexExact, RecoveredTasksHaveEnded
<1>3. ASSUME NEW t \in TaskIds, RecoverInterrupted(t) PROVE RegistryInv'
  <2>1. /\ mode = "recovering" /\ t \in DOMAIN recovered_tasks
        /\ UNCHANGED <<mode, tasks, idempotency_index>>
        /\ DOMAIN recovered_tasks' = DOMAIN recovered_tasks
    BY <1>3 DEF RecoverInterrupted, Interrupted
  <2>2. PICK events : AppendBatch(t, events)
    BY <1>3 DEF RecoverInterrupted
  <2>3. DOMAIN log' = DOMAIN log
    BY <2>1, <2>2, AppendKeepsDomain DEF PhasesAgree
  <2> QED BY <2>1, <2>3 DEF PhasesAgree, Known, RecordsShaped, LogFinite,
          TaskCapacityKept, IdempotencyIndexExact, RecoveredTasksHaveEnded
<1>4. CASE RecoveryDone
  BY <1>4 DEF RecoveryDone, volatile, Interrupted, PhasesAgree, Known,
     RecordsShaped, LogFinite, TaskCapacityKept, IdempotencyIndexExact,
     RecoveredTasksHaveEnded
<1> QED BY <1>1, <1>2, <1>3, <1>4 DEF Restart

\* The lifecycle calls other than submit.
LEMMA LifecycleTouches ==
  ASSUME RegistryInv, NEW t \in TaskIds,
         Start(t) \/ Succeed(t) \/ Fail(t) \/ FailBudgetExceeded(t) \/ Cancel(t)
  PROVE  Touches
<1>1. CASE Start(t)
  BY <1>1, LiveAppendTouches DEF Start
<1>2. ASSUME NEW next, Transition(t, next) PROVE Touches
  BY <1>2, TransitionMeansAlive, ApplyTransitionTouches DEF Transition, Idle
<1>3. CASE FailBudgetExceeded(t)
  BY <1>3, TransitionMeansAlive, ApplyTransitionTouches
     DEF FailBudgetExceeded, Idle
<1>4. CASE Cancel(t)
  BY <1>4, ApplyTransitionTouches DEF Cancel, Idle
<1> QED BY <1>1, <1>2, <1>3, <1>4 DEF Succeed, Fail

\* The steps of a sweep.
LEMMA SweepingTouches ==
  ASSUME RegistryInv, Sweeping
  PROVE  Touches
<1>1. ASSUME NEW c \in SweepingCall, BeginCall(c) \/ ReturnUnchanged(c)
      PROVE  Touches
  BY <1>1, UnchangedTouches DEF BeginCall, ReturnUnchanged
<1>2. ASSUME NEW a \in ApprovalIds, ExpireNext(a) PROVE Touches
  <2>1. CASE a \notin DOMAIN pending_operations
    BY <1>2, <2>1, UnchangedTouches DEF ExpireNext
  <2>2. CASE a \in DOMAIN pending_operations
    BY <1>2, <2>2, LiveAppendTouches DEF ExpireNext
  <2> QED BY <2>1, <2>2
<1>3. CASE SweepFails
  BY <1>3, UnchangedTouches DEF SweepFails
<1> QED BY <1>1, <1>2, <1>3 DEF Sweeping

\* The calls that request, decide and use approvals.
LEMMA ApprovingTouches ==
  ASSUME RegistryInv, Approving
  PROVE  Touches
<1>1. ASSUME NEW t \in TaskIds, NEW request \in Requests,
             RequestDecided(t, request)
      PROVE  Touches
  BY <1>1, LiveAppendTouches DEF RequestDecided, MayRequest
<1>2. ASSUME NEW t \in TaskIds, NEW request \in Requests, NEW ttl \in Ttl,
             RequestApproval(t, request, ttl)
      PROVE  Touches
  BY <1>2, LiveAppendTouches
     DEF RequestApproval, MayRequestApproval, MayRequest
<1>3. ASSUME NEW t \in TaskIds, NEW request \in Requests, NEW ttl \in Ttl,
             RequestApprovalAuditFails(t, request, ttl)
      PROVE  Touches
  BY <1>3, UnchangedTouches DEF RequestApprovalAuditFails
<1>4. ASSUME NEW a \in ApprovalIds, ApproveOperation(a) PROVE Touches
  BY <1>4, LiveAppendTouches DEF ApproveOperation, MayApprove
<1>5. ASSUME NEW a \in ApprovalIds, ApproveOperationAuditFails(a)
      PROVE  Touches
  BY <1>5, UnchangedTouches DEF ApproveOperationAuditFails
<1>6. ASSUME NEW a \in ApprovalIds, DenyOperation(a) PROVE Touches
  BY <1>6, LiveAppendTouches DEF DenyOperation
<1>7. ASSUME NEW t \in TaskIds, NEW o \in ApprovalIds,
             NEW request \in Requests, AuthorizeOperation(t, o, request)
      PROVE  Touches
  BY <1>7, LiveAppendTouches DEF AuthorizeOperation, MayAuthorize
<1>8. ASSUME NEW t \in TaskIds, NEW o \in ApprovalIds,
             AuthorizeOperationFails(t, o)
      PROVE  Touches
  BY <1>8, UnchangedTouches DEF AuthorizeOperationFails
<1> QED BY <1>1, <1>2, <1>3, <1>4, <1>5, <1>6, <1>7, <1>8 DEF Approving

\* Every step keeps the invariant.
LEMMA RegistryInductive == RegistryInv /\ [Next]_vars => RegistryInv'
<1> SUFFICES ASSUME RegistryInv, [Next]_vars PROVE RegistryInv'
  OBVIOUS
<1>1. CASE Lifecycle
  BY <1>1, SubmitKeeps, LifecycleTouches, TouchesKeeps DEF Lifecycle
<1>2. ASSUME NEW a \in ApprovalIds, DeadlinePasses(a) PROVE RegistryInv'
  BY <1>2, UnchangedTouches, TouchesKeeps DEF DeadlinePasses, volatile
<1>3. CASE UNCHANGED vars
  BY <1>3, UnchangedTouches, TouchesKeeps DEF vars, volatile
<1> QED BY <1>1, <1>2, <1>3, SweepingTouches, ApprovingTouches, TouchesKeeps,
        RestartKeeps DEF Next

\* The invariant holds in every reachable state.
THEOREM RegistryInvariant == Spec => []RegistryInv
<1>1. Init => RegistryInv
  <2> SUFFICES ASSUME Init PROVE RegistryInv
    OBVIOUS
  <2>1. DOMAIN log = {} /\ DOMAIN tasks = {} /\ DOMAIN recovered_tasks = {}
        /\ DOMAIN idempotency_index = {} /\ mode = "down"
    BY DEF Init, EmptyMap
  <2>2. LogFinite /\ TaskCapacityKept
    BY <2>1, FS_EmptySet, MaxTasksAssumption DEF LogFinite, TaskCapacityKept
  <2> QED BY <2>1, <2>2 DEF RegistryInv, PhasesAgree, Known, RecordsShaped,
          IdempotencyIndexExact, RecoveredTasksHaveEnded
<1> QED BY <1>1, RegistryInductive, PTL DEF Spec

\* Submission is idempotent, for every instance: a known key leads to the one
\* live Task that was submitted with it, and every live Task is found by its
\* key (idempotency_index in submit).
THEOREM KeysExact == Spec => []IdempotencyIndexExact
<1>1. RegistryInv => IdempotencyIndexExact
  BY DEF RegistryInv
<1> QED BY <1>1, RegistryInvariant, PTL

\* No sequence of submissions, crashes and recoveries takes the store over
\* max_tasks, for every max_tasks: submit counts live and recovered Tasks.
THEOREM CapacityKept == Spec => []TaskCapacityKept
<1>1. RegistryInv => TaskCapacityKept
  BY DEF RegistryInv
<1> QED BY <1>1, RegistryInvariant, PTL

\* A serving supervisor holds no Task of an earlier process that has not
\* ended, and no call brings one back (the loop in recover, is_terminal).
THEOREM RecoveredEnded == Spec => []RecoveredTasksHaveEnded
<1>1. RegistryInv => RecoveredTasksHaveEnded
  BY DEF RegistryInv
<1> QED BY <1>1, RegistryInvariant, PTL

=============================================================================

----------------------------- MODULE Supervisor -----------------------------
(***************************************************************************)
(* The Task supervisor: aios-runtime/src/supervisor.rs, with the event     *)
(* store it writes to, the approval authority it owns, and the restart of  *)
(* the process that holds it.                                              *)
(*                                                                         *)
(* The supervisor is called through &mut self, so one call runs at a time. *)
(* A call that appends one batch is one action.  The four calls that first *)
(* sweep expired approvals append a batch per expired approval, and read   *)
(* the clock again afterwards: they are a sequence of actions, one per     *)
(* batch, between which a deadline may pass or the process may die.  The   *)
(* arguments of such a call are read only after the sweep, which is where  *)
(* they are chosen.                                                        *)
(*                                                                         *)
(* An append may always fail (EventStoreError).  Where a call has changed  *)
(* nothing by then it returns the error and leaves no trace, which is a    *)
(* stuttering step; where it has, the failure is an action of its own.     *)
(***************************************************************************)
EXTENDS EventStore, ApprovalAuthority, CapabilityPolicy

CONSTANTS Specs,        \* the Task specifications clients submit
          Requests,     \* the capability requests of trusted callers
          Startable,    \* the states from which callers start a Task
          MaxTasks,     \* max_tasks
          MaxTaskId,    \* bound: Task ids ever issued
          MaxApprovalId \* bound: approval ids ever issued

ASSUME MaxTasksAssumption == MaxTasks \in Nat \ {0}
ASSUME BoundsAssumption == MaxTaskId \in Nat /\ MaxApprovalId \in Nat
ASSUME StartableAssumption == Startable \subseteq {"Queued", "WaitingApproval"}
ASSUME SpecsAssumption ==
  \A s \in Specs : DOMAIN s = {"key", "valid", "granted", "required_for"}
                   /\ s.valid \in BOOLEAN

VARIABLES
  mode,                \* "down", "recovering" or "serving"
  tasks,               \* Task id -> [spec, state]
  recovered_tasks,     \* Task id -> state, from before the last restart
  idempotency_index,   \* key -> Task id
  authority,           \* the ApprovalAuthority
  pending_operations,  \* approval id -> [task, operation, request]
  approved_operations, \* operation id -> [task, request, grant]
  call,                \* the sweeping call in progress, or "idle"
  expired,             \* what is left of expired_ids() in that call
  deadline_passed,     \* approval ids whose deadline has passed
  issued               \* how many approval ids were ever issued

volatile ==
  <<tasks, recovered_tasks, idempotency_index, authority,
    pending_operations, approved_operations, call, expired>>
approvals == <<authority, pending_operations, approved_operations>>
clock == <<deadline_passed, issued>>
vars == <<log, mode, volatile, clock>>

SweepingCall ==
  {"request_operation", "approve_operation", "deny_operation",
   "expire_approvals"}

\* task_state: the live record first, then the recovered state.
Known == DOMAIN tasks \cup DOMAIN recovered_tasks
StateOf(t) ==
  IF t \in DOMAIN tasks THEN tasks[t].state ELSE recovered_tasks[t]

PendingOf(t) ==
  {a \in DOMAIN pending_operations : pending_operations[a].task = t}
ApprovedOf(t) ==
  {o \in DOMAIN approved_operations : approved_operations[o].task = t}

SetTaskState(t, state) == tasks' = [tasks EXCEPT ![t].state = state]

Idle == mode = "serving" /\ call = "idle"

\* The end of a sweeping call: with a result or with an error.
Return == call' = "idle" /\ expired' = {}

-----------------------------------------------------------------------------
(***************************************************************************)
(* Start of the process, recovery, and its end at any moment.              *)
(***************************************************************************)
Init ==
  /\ log = EmptyMap
  /\ mode = "down"
  /\ tasks = EmptyMap
  /\ recovered_tasks = EmptyMap
  /\ idempotency_index = EmptyMap
  /\ authority = EmptyAuthority
  /\ pending_operations = EmptyMap
  /\ approved_operations = EmptyMap
  /\ call = "idle"
  /\ expired = {}
  /\ deadline_passed = {}
  /\ issued = 0

\* recover, up to the loop: every log is reduced to a state, and a corrupt
\* log or too many Tasks make the start fail.
RecoverSnapshots ==
  /\ mode = "down"
  /\ \A t \in DOMAIN log : RecoverSnapshot(log[t]) \in TaskState
  /\ Cardinality(DOMAIN log) <= MaxTasks
  /\ mode' = "recovering"
  /\ recovered_tasks' = [t \in DOMAIN log |-> RecoverSnapshot(log[t])]
  /\ UNCHANGED <<log, tasks, idempotency_index, approvals, call, expired,
                 clock>>

\* Mutant: only a running Task is taken for one that was interrupted.
InterruptedWhileRunning ==
  {t \in DOMAIN recovered_tasks : recovered_tasks[t] = "Running"}
Interrupted ==
  {t \in DOMAIN recovered_tasks : ~IsTerminal(recovered_tasks[t])}

\* One round of the loop over the interrupted Tasks, in the order of ids.
RecoverInterrupted(t) ==
  /\ mode = "recovering"
  /\ t \in Interrupted
  /\ \A u \in Interrupted : t <= u
  /\ AppendBatch(t, <<TaskFailed("RuntimeRestarted"),
                      StateTransitioned(recovered_tasks[t], "Failed")>>)
  /\ recovered_tasks' = [recovered_tasks EXCEPT ![t] = "Failed"]
  /\ UNCHANGED <<mode, tasks, idempotency_index, approvals, call, expired,
                 clock>>

RecoveryDone ==
  /\ mode = "recovering"
  /\ Interrupted = {}
  /\ mode' = "serving"
  /\ UNCHANGED <<log, volatile, clock>>

\* The process ends: killed, or a start that failed half way.  Deadlines are
\* Instants in its memory.
Crash ==
  /\ mode # "down"
  /\ mode' = "down"
  /\ tasks' = EmptyMap
  /\ recovered_tasks' = EmptyMap
  /\ idempotency_index' = EmptyMap
  /\ authority' = EmptyAuthority
  /\ pending_operations' = EmptyMap
  /\ approved_operations' = EmptyMap
  /\ call' = "idle"
  /\ expired' = {}
  /\ deadline_passed' = {}
  /\ UNCHANGED <<log, issued>>

-----------------------------------------------------------------------------
(***************************************************************************)
(* Submission and the plain lifecycle transitions.                         *)
(***************************************************************************)
\* TaskId::new: ids are unique and ordered by creation; the nth is n.
IsNewTaskId(t) == DOMAIN log = 1..(t - 1)

SubmissionEvents(spec) ==
  IF spec.valid
  THEN <<Submitted, StateTransitioned("Submitted", "Validating"),
         StateTransitioned("Validating", "Queued")>>
  ELSE <<Submitted, StateTransitioned("Submitted", "Validating"),
         ValidationFailed, StateTransitioned("Validating", "Rejected")>>

SubmittedState(spec) == IF spec.valid THEN "Queued" ELSE "Rejected"

SubmittedTask(spec) == [spec |-> spec, state |-> SubmittedState(spec)]

\* Mutant: recovered Tasks do not count.
HasTaskCapacityLive == Cardinality(DOMAIN tasks) < MaxTasks
HasTaskCapacity ==
  Cardinality(DOMAIN tasks) + Cardinality(DOMAIN recovered_tasks) < MaxTasks

KeyUnchecked(spec) == TRUE                 \* mutant: every key is new
IsNewKey(spec) == spec.key \notin DOMAIN idempotency_index

\* A known key (Existing, IdempotencyConflict) changes nothing.
Submit(t, spec) ==
  /\ Idle
  /\ IsNewTaskId(t)
  /\ IsNewKey(spec)
  /\ HasTaskCapacity
  /\ AppendBatch(t, SubmissionEvents(spec))
  /\ tasks' = Insert(tasks, t, SubmittedTask(spec))
  /\ idempotency_index' = Insert(idempotency_index, spec.key, t)
  /\ UNCHANGED <<mode, recovered_tasks, approvals, call, expired, clock>>

\* The elements of a map come in the order of their keys.
Ascending(S) ==
  {ids \in UNION {[1..n -> S] : n \in 0..MaxApprovalId} :
     /\ S = {ids[i] : i \in DOMAIN ids}
     /\ \A i, j \in DOMAIN ids : i < j => ids[i] < ids[j]}

\* One ApprovalRevoked per pending request and per unused grant.
RevocationEvents(pending, approved) ==
  [i \in DOMAIN pending |->
     ApprovalEvent("ApprovalRevoked", pending[i],
                   pending_operations[pending[i]].operation)]
  \o
  [i \in DOMAIN approved |->
     ApprovalEvent("ApprovalRevoked",
                   approved_operations[approved[i]].grant.approval,
                   approved[i])]

\* Mutant: unused grants survive the end of their Task.
InvalidatePending(t) ==
  /\ authority' = IF PendingOf(t) = {} THEN authority
                  ELSE Revoke(authority, CHOOSE a \in PendingOf(t) : TRUE)
  /\ pending_operations' = Without(pending_operations, PendingOf(t))
  /\ UNCHANGED approved_operations

InvalidateApprovals(t) ==
  /\ authority' =
       [pending |-> Without(authority.pending, PendingOf(t)),
        operation_index |->
          Without(authority.operation_index,
                  {<<authority.pending[a].task, authority.pending[a].operation>> :
                     a \in PendingOf(t) \cap DOMAIN authority.pending})]
  /\ pending_operations' = Without(pending_operations, PendingOf(t))
  /\ approved_operations' = Without(approved_operations, ApprovedOf(t))

\* apply_transition_with_failure.
ApplyTransition(t, next, failure) ==
  /\ \E pending \in Ascending(PendingOf(t)),
        approved \in Ascending(ApprovedOf(t)) :
       AppendBatch(t, (IF IsTerminal(next)
                       THEN RevocationEvents(pending, approved) ELSE <<>>)
                      \o failure
                      \o <<StateTransitioned(StateOf(t), next)>>)
  /\ IF IsTerminal(next) THEN InvalidateApprovals(t) ELSE UNCHANGED approvals
  /\ IF t \in DOMAIN tasks
     THEN SetTaskState(t, next) /\ UNCHANGED recovered_tasks
     ELSE /\ recovered_tasks' = [recovered_tasks EXCEPT ![t] = next]
          /\ UNCHANGED tasks
  /\ UNCHANGED <<mode, idempotency_index, call, expired, clock>>

Transition(t, next) ==
  /\ Idle
  /\ t \in Known
  /\ CanTransitionTo(StateOf(t), next)
  /\ ApplyTransition(t, next, <<>>)

\* start and start_execution; a recovered Task has no record to start.  The
\* code starts a Task from every state that may become Running, a waiting one
\* included; Startable says which of them callers use.
Start(t) ==
  /\ Idle
  /\ t \in DOMAIN tasks
  /\ StateOf(t) \in Startable
  /\ CanTransitionTo(StateOf(t), "Running")
  /\ AppendBatch(t, <<StateTransitioned(StateOf(t), "Running")>>)
  /\ SetTaskState(t, "Running")
  /\ UNCHANGED <<mode, recovered_tasks, idempotency_index, approvals, call,
                 expired, clock>>

Succeed(t) == Transition(t, "Succeeded")
Fail(t) == Transition(t, "Failed")

FailBudgetExceeded(t) ==
  /\ Idle
  /\ t \in Known
  /\ CanTransitionTo(StateOf(t), "Failed")
  /\ ApplyTransition(t, "Failed", <<TaskFailed("BudgetExceeded")>>)

Cancel(t) ==
  /\ Idle
  /\ t \in Known
  /\ ~IsTerminal(StateOf(t))
  /\ ApplyTransition(t, "Cancelled", <<>>)

-----------------------------------------------------------------------------
(***************************************************************************)
(* The calls that sweep expired approvals first.                           *)
(***************************************************************************)
\* expired_ids() reads the clock once.
BeginCall(c) ==
  /\ Idle
  /\ call' = c
  /\ expired' = ExpiredIds(authority, deadline_passed)
  /\ UNCHANGED <<log, mode, tasks, recovered_tasks, idempotency_index,
                 approvals, clock>>

\* One round of the loop in expire_approvals, in the order of ids.  An id that
\* the supervisor does not hold is skipped.
ExpireNext(a) ==
  /\ mode = "serving"
  /\ a \in expired
  /\ \A b \in expired : a <= b
  /\ expired' = expired \ {a}
  /\ IF a \notin DOMAIN pending_operations
     THEN UNCHANGED <<log, tasks, approvals>>
     ELSE LET p == pending_operations[a]
          IN  /\ p.task \in DOMAIN tasks
              /\ CanTransitionTo(StateOf(p.task), "Failed")
              /\ AppendBatch(p.task,
                   <<ApprovalEvent("ApprovalExpired", a, p.operation),
                     StateTransitioned(StateOf(p.task), "Failed")>>)
              /\ authority' = Revoke(authority, a)
              /\ pending_operations' = Without(pending_operations, {a})
              /\ SetTaskState(p.task, "Failed")
              /\ UNCHANGED approved_operations
  /\ UNCHANGED <<mode, recovered_tasks, idempotency_index, call, clock>>

\* A batch of the sweep is refused: the whole call fails, whatever it was for.
SweepFails ==
  /\ mode = "serving"
  /\ expired # {}
  /\ Return
  /\ UNCHANGED <<log, mode, tasks, recovered_tasks, idempotency_index,
                 approvals, clock>>

Swept(c) == mode = "serving" /\ call = c /\ expired = {}

\* expire_approvals returns, or another call meets one of its error returns
\* before it changes anything: a Task or an approval that is not there, a
\* state that does not allow it, a refused request, a refused append.
ReturnUnchanged(c) ==
  /\ Swept(c)
  /\ Return
  /\ UNCHANGED <<log, mode, tasks, recovered_tasks, idempotency_index,
                 approvals, clock>>

\* request_operation, up to the decision.
\* Mutant: the state of the Task is not checked.
MayRequestAnyState(t) == t \in DOMAIN tasks
MayRequest(t) ==
  /\ t \in DOMAIN tasks
  /\ CanTransitionTo(StateOf(t), "WaitingApproval")

RequestDecided(t, request) ==
  /\ Swept("request_operation")
  /\ MayRequest(t)
  /\ \/ /\ Evaluate(tasks[t].spec, request) = "Allow"
        /\ AppendBatch(t, <<OperationAllowed>>)
     \/ /\ Evaluate(tasks[t].spec, request) = "Deny"
        /\ AppendBatch(t, <<OperationDenied>>)
  /\ Return
  /\ UNCHANGED <<mode, tasks, recovered_tasks, idempotency_index, approvals,
                 clock>>

MayRequestApproval(t, request, ttl) ==
  /\ MayRequest(t)
  /\ Evaluate(tasks[t].spec, request) = "ApprovalRequired"
  /\ PendingOf(t) = {}
  /\ CanRequest(authority, t, issued + 1, ttl)
  /\ issued < MaxApprovalId

\* The nth request draws the nth approval id and the nth operation id.
RequestApproval(t, request, ttl) ==
  LET a == issued + 1
  IN  /\ Swept("request_operation")
      /\ MayRequestApproval(t, request, ttl)
      /\ AppendBatch(t, <<ApprovalEvent("ApprovalRequested", a, a),
                          StateTransitioned(StateOf(t), "WaitingApproval")>>)
      /\ authority' = Request(authority, a, t, a, request.action)
      /\ pending_operations' =
           Insert(pending_operations, a,
                  [task |-> t, operation |-> a, request |-> request])
      /\ SetTaskState(t, "WaitingApproval")
      /\ issued' = a
      /\ Return
      /\ UNCHANGED <<mode, recovered_tasks, idempotency_index,
                     approved_operations, deadline_passed>>

\* The append fails: the request made of the authority is taken back.  Nobody
\* has seen its id, so the next request may as well draw it again.
RequestApprovalAuditFails(t, request, ttl) ==
  LET a == issued + 1
  IN  /\ Swept("request_operation")
      /\ MayRequestApproval(t, request, ttl)
      /\ authority' = Revoke(Request(authority, a, t, a, request.action), a)
      /\ Return
      /\ UNCHANGED <<log, mode, tasks, recovered_tasks, idempotency_index,
                     pending_operations, approved_operations, clock>>

MayApprove(a) ==
  /\ a \in DOMAIN pending_operations
  /\ pending_operations[a].task \in DOMAIN tasks
  /\ CanTransitionTo(StateOf(pending_operations[a].task), "Running")
  /\ CanApprove(authority, a, deadline_passed)

ApproveOperation(a) ==
  LET p == pending_operations[a]
  IN  /\ Swept("approve_operation")
      /\ MayApprove(a)
      /\ AppendBatch(p.task,
           <<ApprovalEvent("ApprovalGranted", a, p.operation),
             StateTransitioned(StateOf(p.task), "Running")>>)
      /\ authority' = Remove(authority, a)
      /\ pending_operations' = Without(pending_operations, {a})
      /\ approved_operations' =
           Insert(approved_operations, p.operation,
                  [task |-> p.task, request |-> p.request,
                   grant |-> GrantOf(authority, a)])
      /\ SetTaskState(p.task, "Running")
      /\ Return
      /\ UNCHANGED <<mode, recovered_tasks, idempotency_index, clock>>

\* The append fails: the grant is turned back into a pending request.
ApproveOperationAuditFails(a) ==
  /\ Swept("approve_operation")
  /\ MayApprove(a)
  /\ authority' = Restore(Remove(authority, a), GrantOf(authority, a))
  /\ Return
  /\ UNCHANGED <<log, mode, tasks, recovered_tasks, idempotency_index,
                 pending_operations, approved_operations, clock>>

DenyOperation(a) ==
  LET p == pending_operations[a]
  IN  /\ Swept("deny_operation")
      /\ a \in DOMAIN pending_operations
      /\ Contains(authority, a)
      /\ p.task \in DOMAIN tasks
      /\ CanTransitionTo(StateOf(p.task), "Failed")
      /\ AppendBatch(p.task,
           <<ApprovalEvent("ApprovalDenied", a, p.operation),
             StateTransitioned(StateOf(p.task), "Failed")>>)
      /\ authority' = Revoke(authority, a)
      /\ pending_operations' = Without(pending_operations, {a})
      /\ SetTaskState(p.task, "Failed")
      /\ Return
      /\ UNCHANGED <<mode, recovered_tasks, idempotency_index,
                     approved_operations, clock>>

-----------------------------------------------------------------------------
(***************************************************************************)
(* The use of a grant.                                                     *)
(***************************************************************************)
MayAuthorize(t, o) ==
  /\ Idle
  /\ t \in DOMAIN tasks
  /\ StateOf(t) = "Running"
  /\ o \in DOMAIN approved_operations

\* Mutant: the grant is read, not taken.
AuthorizeKeepingGrant(t, o, request) ==
  LET approved == approved_operations[o]
  IN  /\ MayAuthorize(t, o)
      /\ approved.task = t
      /\ approved.request = request
      /\ AppendBatch(t, <<ApprovalEvent("ApprovalConsumed",
                                        approved.grant.approval, o)>>)
      /\ UNCHANGED <<mode, volatile, clock>>

AuthorizeOperation(t, o, request) ==
  LET approved == approved_operations[o]
  IN  /\ MayAuthorize(t, o)
      /\ approved.task = t
      /\ approved.request = request
      /\ Evaluate(tasks[t].spec, request) = "ApprovalRequired"
      /\ Authorizes(approved.grant, t, o, request.action, deadline_passed)
      /\ AppendBatch(t, <<ApprovalEvent("ApprovalConsumed",
                                        approved.grant.approval, o)>>)
      /\ approved_operations' = Without(approved_operations, {o})
      /\ UNCHANGED <<mode, tasks, recovered_tasks, idempotency_index,
                     authority, pending_operations, call, expired, clock>>

\* A scope that does not match, a deadline that has passed and an append that
\* fails all lose the grant: it was taken out before any of them is checked.
AuthorizeOperationFails(t, o) ==
  /\ MayAuthorize(t, o)
  /\ approved_operations' = Without(approved_operations, {o})
  /\ UNCHANGED <<log, mode, tasks, recovered_tasks, idempotency_index,
                 authority, pending_operations, call, expired, clock>>

\* Time.  Only deadlines that somebody can still compare with matter.
DeadlinePasses(a) ==
  /\ a \in DOMAIN authority.pending
       \cup {approved_operations[o].grant.approval :
               o \in DOMAIN approved_operations}
  /\ a \notin deadline_passed
  /\ deadline_passed' = deadline_passed \cup {a}
  /\ UNCHANGED <<log, mode, volatile, issued>>

-----------------------------------------------------------------------------
TaskIds == 1..MaxTaskId
ApprovalIds == 1..MaxApprovalId

Lifecycle ==
  \E t \in TaskIds :
    \/ \E spec \in Specs : Submit(t, spec)
    \/ Start(t)
    \/ Succeed(t)
    \/ Fail(t)
    \/ FailBudgetExceeded(t)
    \/ Cancel(t)

Sweeping ==
  \/ \E c \in SweepingCall : BeginCall(c) \/ ReturnUnchanged(c)
  \/ \E a \in ApprovalIds : ExpireNext(a)
  \/ SweepFails

Approving ==
  \/ \E t \in TaskIds, request \in Requests :
       \/ RequestDecided(t, request)
       \/ \E ttl \in Ttl : RequestApproval(t, request, ttl)
                           \/ RequestApprovalAuditFails(t, request, ttl)
  \/ \E a \in ApprovalIds :
       ApproveOperation(a) \/ ApproveOperationAuditFails(a) \/ DenyOperation(a)
  \/ \E t \in TaskIds, o \in ApprovalIds :
       \/ \E request \in Requests : AuthorizeOperation(t, o, request)
       \/ AuthorizeOperationFails(t, o)

Restart ==
  \/ Crash
  \/ RecoverSnapshots
  \/ \E t \in TaskIds : RecoverInterrupted(t)
  \/ RecoveryDone

Next ==
  \/ Lifecycle
  \/ Sweeping
  \/ Approving
  \/ \E a \in ApprovalIds : DeadlinePasses(a)
  \/ Restart

Spec == Init /\ [][Next]_vars

(***************************************************************************)
(* Fairness: time passes; a call that has begun goes on and returns; an    *)
(* append that is tried again and again is not refused for ever; whoever   *)
(* owns the supervisor polls expire_approvals, and restarts the process    *)
(* when it has died.  Crashes are not bounded.                             *)
(***************************************************************************)
Fairness ==
  /\ \A a \in ApprovalIds : WF_vars(DeadlinePasses(a))
  /\ SF_vars(BeginCall("expire_approvals"))
  /\ \A a \in ApprovalIds : SF_vars(ExpireNext(a))
  /\ \A c \in SweepingCall : WF_vars(ReturnUnchanged(c))
  /\ WF_vars(RecoverSnapshots)
  /\ \A t \in TaskIds : SF_vars(RecoverInterrupted(t))
  /\ WF_vars(RecoveryDone)

FairSpec == Spec /\ Fairness

-----------------------------------------------------------------------------
(***************************************************************************)
(* Properties.                                                             *)
(***************************************************************************)
Action == {r.action : r \in Requests}
PendingApproval == [task : TaskId, operation : OperationId, action : Action]
PendingOperation == [task : TaskId, operation : OperationId, request : Requests]
Grant ==
  [approval : ApprovalId, task : TaskId, operation : OperationId,
   action : Action]
ApprovedOperation == [task : TaskId, request : Requests, grant : Grant]
TaskRecord == [spec : Specs, state : TaskState]

TasksTypeOK ==
  /\ DOMAIN log \subseteq TaskId
  /\ \A t \in DOMAIN log : log[t] \in Seq(TaskEventKind)
  /\ DOMAIN tasks \subseteq TaskId
  /\ \A t \in DOMAIN tasks : tasks[t] \in TaskRecord
  /\ DOMAIN recovered_tasks \subseteq TaskId
  /\ \A t \in DOMAIN recovered_tasks : recovered_tasks[t] \in TaskState
  /\ \A k \in DOMAIN idempotency_index : idempotency_index[k] \in TaskId

ApprovalsTypeOK ==
  /\ DOMAIN authority.pending \subseteq 1..issued
  /\ \A a \in DOMAIN authority.pending :
       authority.pending[a] \in PendingApproval
  /\ DOMAIN pending_operations \subseteq 1..issued
  /\ \A a \in DOMAIN pending_operations :
       /\ pending_operations[a] \in PendingOperation
       /\ pending_operations[a].operation \in 1..issued
  /\ DOMAIN approved_operations \subseteq 1..issued
  /\ \A o \in DOMAIN approved_operations :
       /\ approved_operations[o] \in ApprovedOperation
       /\ approved_operations[o].grant.approval \in 1..issued

CallTypeOK ==
  /\ mode \in {"down", "recovering", "serving"}
  /\ call \in SweepingCall \cup {"idle"}
  /\ expired \subseteq 1..issued
  /\ deadline_passed \subseteq 1..issued
  /\ issued \in Nat

\* Type invariant: every field of the supervisor holds what its Rust type
\* says, and only ids that were issued are in use.
TypeOK == TasksTypeOK /\ ApprovalsTypeOK /\ CallTypeOK

\* The supervisor and the authority hold the same requests with the same
\* scope (supervisor.rs keeps two maps and undoes one when an append fails).
PendingMatchesAuthority ==
  /\ DOMAIN authority.pending = DOMAIN pending_operations
  /\ \A a \in DOMAIN pending_operations :
       authority.pending[a] =
         [task |-> pending_operations[a].task,
          operation |-> pending_operations[a].operation,
          action |-> pending_operations[a].request.action]

\* operation_index finds every request and nothing else.
IndexMatchesAuthority == IndexExact(authority)

\* A pending request belongs to a live Task that has not ended, a Task has at
\* most one, and a Task that waits has one to wait for.
PendingMatchesTasks ==
  /\ \A a \in DOMAIN pending_operations :
       LET t == pending_operations[a].task
       IN  /\ t \in DOMAIN tasks
           /\ tasks[t].state \in {"Running", "WaitingApproval"}
           /\ \A b \in DOMAIN pending_operations :
                pending_operations[b].task = t => b = a
  /\ \A t \in DOMAIN tasks :
       tasks[t].state = "WaitingApproval" =>
         \E a \in DOMAIN pending_operations : pending_operations[a].task = t

\* A grant is for the live Task and the operation it is stored under, and its
\* request is no longer pending.
GrantsMatchTasks ==
  \A o \in DOMAIN approved_operations :
    LET approved == approved_operations[o]
    IN  /\ approved.task \in DOMAIN tasks
        /\ approved.grant.task = approved.task
        /\ approved.grant.operation = o
        /\ approved.grant.approval \notin DOMAIN pending_operations
        /\ approved.grant.action = approved.request.action

\* The four views the supervisor keeps of one approval agree after every
\* step, whichever append failed and whatever the sweep removed before it.
ApprovalsAgree ==
  /\ PendingMatchesAuthority
  /\ IndexMatchesAuthority
  /\ PendingMatchesTasks
  /\ GrantsMatchTasks

=============================================================================

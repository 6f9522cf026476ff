---------------------------- MODULE ApprovalTypes ----------------------------
(***************************************************************************)
(* The type invariant of the supervisor, continued: the calls that sweep   *)
(* and those that change approvals, and the theorem.                       *)
(***************************************************************************)
EXTENDS SupervisorTypes

\* The two events that end an approval and move its Task are well typed, and
\* so is what the action then does to the Task.
LEMMA ResolutionTyped ==
  ASSUME TypeOK, NEW a \in DOMAIN pending_operations,
         NEW type \in ApprovalEventType, NEW next \in TaskState,
         pending_operations[a].task \in DOMAIN tasks,
         AppendBatch(pending_operations[a].task,
           <<ApprovalEvent(type, a, pending_operations[a].operation),
             StateTransitioned(StateOf(pending_operations[a].task), next)>>),
         SetTaskState(pending_operations[a].task, next),
         UNCHANGED <<recovered_tasks, idempotency_index>>
  PROVE  TasksTypeOK'
<1> DEFINE t == pending_operations[a].task
<1>1. t \in TaskId /\ a \in ApprovalId
      /\ pending_operations[a].operation \in OperationId
  BY DEF TypeOK, ApprovalsTypeOK, CallTypeOK, PendingOperation, ApprovalId
<1>2. StateOf(t) \in TaskState
  BY StateOfTyped DEF TypeOK, Known
<1>3. <<ApprovalEvent(type, a, pending_operations[a].operation),
        StateTransitioned(StateOf(t), next)>> \in Seq(TaskEventKind)
  BY <1>1, <1>2, EventTypes
<1>4. DOMAIN log' \subseteq TaskId
      /\ \A u \in DOMAIN log' : log'[u] \in Seq(TaskEventKind)
  BY Zenon, <1>1, <1>3, AppendTyped DEF TypeOK
<1> QED BY <1>4 DEF TypeOK, TasksTypeOK, TaskRecord, SetTaskState

\* Taking a request out of the authority and out of the supervisor.
LEMMA RemovalTyped ==
  ASSUME ApprovalsTypeOK, NEW a,
         authority' = Remove(authority, a),
         pending_operations' = Without(pending_operations, {a}),
         approved_operations' = approved_operations, issued' = issued
  PROVE  ApprovalsTypeOK'
<1>1. /\ DOMAIN authority'.pending \subseteq DOMAIN authority.pending
      /\ \A b \in DOMAIN authority'.pending :
           authority'.pending[b] = authority.pending[b]
  BY DEF Remove, Without
<1> QED BY <1>1 DEF ApprovalsTypeOK, Without

\* The steps of expire_approvals, alone or inside another call.
LEMMA SweepingTyped == TypeOK /\ Sweeping => TypeOK'
<1> SUFFICES ASSUME TypeOK, Sweeping PROVE TypeOK'
  OBVIOUS
<1>1. ASSUME NEW c \in SweepingCall, BeginCall(c) PROVE TypeOK'
  BY <1>1 DEF BeginCall, TypeOK, TasksTypeOK, ApprovalsTypeOK, CallTypeOK,
     ExpiredIds, approvals, clock
<1>2. ASSUME NEW c \in SweepingCall, ReturnUnchanged(c) PROVE TypeOK'
  BY <1>2 DEF ReturnUnchanged, Return, TypeOK, TasksTypeOK, ApprovalsTypeOK,
     CallTypeOK, approvals, clock
<1>3. CASE SweepFails
  BY <1>3 DEF SweepFails, Return, TypeOK, TasksTypeOK, ApprovalsTypeOK,
     CallTypeOK, approvals, clock
<1>4. ASSUME NEW a \in ApprovalIds, ExpireNext(a) PROVE TypeOK'
  <2>1. CallTypeOK'
    BY Zenon, <1>4 DEF ExpireNext, TypeOK, CallTypeOK, clock
  <2>2. CASE a \notin DOMAIN pending_operations
    BY <1>4, <2>1, <2>2 DEF ExpireNext, TypeOK, TasksTypeOK, ApprovalsTypeOK,
       approvals, clock
  <2>3. CASE a \in DOMAIN pending_operations
    <3>1. TasksTypeOK'
      <4>1. "Failed" \in TaskState /\ "ApprovalExpired" \in ApprovalEventType
        BY DEF TaskState, ApprovalEventType
      <4>2. pending_operations[a].task \in DOMAIN tasks
        BY <1>4, <2>3 DEF ExpireNext
      <4> QED BY <1>4, <2>3, <4>1, <4>2, ResolutionTyped DEF ExpireNext
    <3>2. ApprovalsTypeOK'
      BY <1>4, <2>3, RemovalTyped DEF ExpireNext, Revoke, TypeOK, clock
    <3> QED BY SMTT(60), <2>1, <3>1, <3>2 DEF TypeOK
  <2> QED BY <2>2, <2>3
<1> QED BY <1>1, <1>2, <1>3, <1>4 DEF Sweeping

\* What the four approval calls do after their sweep.
LEMMA ApprovingTyped == TypeOK /\ Approving => TypeOK'
<1> SUFFICES ASSUME TypeOK, Approving PROVE TypeOK'
  OBVIOUS
<1>1. ASSUME NEW t \in TaskIds, NEW request \in Requests,
             RequestDecided(t, request)
      PROVE  TypeOK'
  <2>1. <<OperationAllowed>> \in Seq(TaskEventKind)
        /\ <<OperationDenied>> \in Seq(TaskEventKind)
    BY EventTypes
  <2>2. t \in TaskId
    BY BoundsAssumption DEF TaskIds, TaskId
  <2>3. DOMAIN log' \subseteq TaskId
        /\ \A u \in DOMAIN log' : log'[u] \in Seq(TaskEventKind)
    BY Zenon, <1>1, <2>1, <2>2, AppendTyped DEF RequestDecided, TypeOK
  <2> QED BY <1>1, <2>3 DEF RequestDecided, Return, TypeOK, TasksTypeOK,
          ApprovalsTypeOK, CallTypeOK, approvals, clock
<1>2. ASSUME NEW t \in TaskIds, NEW request \in Requests, NEW ttl \in Ttl,
             RequestApproval(t, request, ttl)
      PROVE  TypeOK'
  <2> DEFINE a == issued + 1
  <2>1. t \in TaskId /\ a \in Nat /\ t \in DOMAIN tasks /\ issued \in Nat
    BY <1>2, BoundsAssumption DEF TaskIds, TaskId, TypeOK, CallTypeOK,
       RequestApproval, MayRequestApproval, MayRequest
  <2>2. StateOf(t) \in TaskState
    BY <2>1, StateOfTyped DEF TypeOK, Known
  <2>3. <<ApprovalEvent("ApprovalRequested", a, a),
          StateTransitioned(StateOf(t), "WaitingApproval")>>
          \in Seq(TaskEventKind)
    BY <2>1, <2>2, EventTypes DEF TaskState, ApprovalEventType, ApprovalId,
       OperationId
  <2>4. DOMAIN log' \subseteq TaskId
        /\ \A u \in DOMAIN log' : log'[u] \in Seq(TaskEventKind)
    BY Zenon, <1>2, <2>1, <2>3, AppendTyped DEF RequestApproval, TypeOK
  <2>5. TasksTypeOK'
    BY <1>2, <2>1, <2>4 DEF RequestApproval, SetTaskState, TypeOK,
       TasksTypeOK, TaskRecord, TaskState
  <2>6. ApprovalsTypeOK'
    <3>1. [task |-> t, operation |-> a, action |-> request.action]
            \in PendingApproval
          /\ [task |-> t, operation |-> a, request |-> request]
               \in PendingOperation
      <4>1. t \in TaskId /\ a \in OperationId /\ request.action \in Action
        BY <2>1 DEF Action, OperationId
      <4> HIDE DEF a
      <4>2. [task |-> t, operation |-> a, action |-> request.action]
              \in PendingApproval
        BY <4>1 DEF PendingApproval
      <4>3. [task |-> t, operation |-> a, request |-> request]
              \in PendingOperation
        BY <4>1 DEF PendingOperation
      <4> QED BY <4>2, <4>3
    <3>2. authority'.pending =
            Insert(authority.pending, a,
                   [task |-> t, operation |-> a, action |-> request.action])
      BY <1>2 DEF RequestApproval, Request, AddPending
    <3>3. /\ issued' = a
          /\ 1..issued \subseteq 1..a
          /\ a \in 1..a
          /\ UNCHANGED approved_operations
          /\ pending_operations' =
               Insert(pending_operations, a,
                      [task |-> t, operation |-> a, request |-> request])
      BY <1>2, <2>1 DEF RequestApproval
    <3> HIDE DEF a
    <3> QED BY <3>1, <3>2, <3>3 DEF TypeOK, ApprovalsTypeOK, Insert
  <2>7. CallTypeOK'
    BY SMTT(60), <1>2, <2>1 DEF RequestApproval, Return, TypeOK, CallTypeOK
  <2> QED BY <2>5, <2>6, <2>7 DEF TypeOK
<1>3. ASSUME NEW t \in TaskIds, NEW request \in Requests, NEW ttl \in Ttl,
             RequestApprovalAuditFails(t, request, ttl)
      PROVE  TypeOK'
  <2> DEFINE a == issued + 1
             granted == Request(authority, a, t, a, request.action)
  <2>1. authority' = Remove(granted, a) /\ UNCHANGED approved_operations
        /\ UNCHANGED pending_operations /\ issued' = issued
    BY SMTT(60), <1>3 DEF RequestApprovalAuditFails, Revoke, clock
  <2>2. authority'.pending = Without(authority.pending, {a})
        \/ authority'.pending = authority.pending
    BY ZenonT(60), <2>1 DEF Remove, Request, AddPending, Insert, Without
  <2>3. ApprovalsTypeOK'
    BY <2>1, <2>2 DEF TypeOK, ApprovalsTypeOK, Without
  <2> QED BY <1>3, <2>3 DEF RequestApprovalAuditFails, Return, TypeOK,
          TasksTypeOK, CallTypeOK, clock

<1>4. ASSUME NEW a \in ApprovalIds, ApproveOperation(a) PROVE TypeOK'
  <2> DEFINE p == pending_operations[a]
             grant == GrantOf(authority, a)
  <2>1. /\ a \in DOMAIN pending_operations
        /\ p.task \in DOMAIN tasks
        /\ a \in DOMAIN authority.pending
    BY SMTT(60), <1>4 DEF ApproveOperation, MayApprove, CanApprove, Contains
  <2>2. TasksTypeOK'
    <3>1. "Running" \in TaskState /\ "ApprovalGranted" \in ApprovalEventType
      BY DEF TaskState, ApprovalEventType
    <3> QED BY <1>4, <2>1, <3>1, ResolutionTyped DEF ApproveOperation
  <2>3. ApprovalsTypeOK'
    <3>1. p \in PendingOperation /\ authority.pending[a] \in PendingApproval
          /\ a \in 1..issued /\ issued \in Nat
      BY SMTT(60), <2>1 DEF TypeOK, ApprovalsTypeOK, CallTypeOK
    <3>2. grant \in Grant
      <4> DEFINE r == authority.pending[a]
      <4>1. grant = [approval |-> a, task |-> r.task,
                     operation |-> r.operation, action |-> r.action]
        BY DEF GrantOf
      <4>2. r.task \in TaskId /\ r.operation \in OperationId
            /\ r.action \in Action
        BY <3>1 DEF PendingApproval
      <4>3. a \in ApprovalId
        BY <3>1 DEF ApprovalId
      <4> HIDE DEF r, grant
      <4> QED BY <4>1, <4>2, <4>3 DEF Grant
    <3>3. [task |-> p.task, request |-> p.request, grant |-> grant]
            \in ApprovedOperation
      BY <3>1, <3>2 DEF ApprovedOperation, PendingOperation
    <3>4. /\ DOMAIN authority'.pending \subseteq DOMAIN authority.pending
          /\ \A b \in DOMAIN authority'.pending :
               authority'.pending[b] = authority.pending[b]
      BY <1>4 DEF ApproveOperation, Remove, Without
    <3>5. approved_operations' =
            Insert(approved_operations, p.operation,
                   [task |-> p.task, request |-> p.request, grant |-> grant])
          /\ pending_operations' = Without(pending_operations, {a})
          /\ issued' = issued
      BY SMTT(60), <1>4 DEF ApproveOperation, clock
    <3>6. p.operation \in 1..issued /\ grant.approval \in 1..issued
      BY <2>1, <3>1 DEF TypeOK, ApprovalsTypeOK, GrantOf
    <3> HIDE DEF p, grant
    <3> QED BY <3>3, <3>4, <3>5, <3>6 DEF TypeOK, ApprovalsTypeOK, Insert,
            Without
  <2>4. CallTypeOK'
    BY <1>4 DEF ApproveOperation, Return, TypeOK, CallTypeOK, clock
  <2> QED BY SMTT(60), <2>2, <2>3, <2>4 DEF TypeOK
<1>5. ASSUME NEW a \in ApprovalIds, ApproveOperationAuditFails(a)
      PROVE  TypeOK'
  <2>1. a \in DOMAIN authority.pending
    BY <1>5 DEF ApproveOperationAuditFails, MayApprove, CanApprove, Contains
  <2>2. authority.pending[a] \in PendingApproval
    BY Zenon, <2>1 DEF TypeOK, ApprovalsTypeOK
  <2>3. authority'.pending =
          Insert(Without(authority.pending, {a}), a,
                 [task |-> authority.pending[a].task,
                  operation |-> authority.pending[a].operation,
                  action |-> authority.pending[a].action])
    BY <1>5, <2>1 DEF ApproveOperationAuditFails, Restore, AddPending, Remove,
       GrantOf
  <2>4. /\ DOMAIN authority'.pending = DOMAIN authority.pending
        /\ \A b \in DOMAIN authority.pending :
             authority'.pending[b] = authority.pending[b]
    BY <2>1, <2>2, <2>3 DEF Insert, Without, PendingApproval
  <2>5. ApprovalsTypeOK'
    BY SMTT(60), <1>5, <2>4
       DEF ApproveOperationAuditFails, TypeOK, ApprovalsTypeOK,
       clock
  <2> QED BY <1>5, <2>5 DEF ApproveOperationAuditFails, Return, TypeOK,
          TasksTypeOK, CallTypeOK, clock
<1>6. ASSUME NEW a \in ApprovalIds, DenyOperation(a) PROVE TypeOK'
  <2>1. a \in DOMAIN pending_operations
        /\ pending_operations[a].task \in DOMAIN tasks
    BY <1>6 DEF DenyOperation
  <2>2. TasksTypeOK'
    <3>1. "Failed" \in TaskState /\ "ApprovalDenied" \in ApprovalEventType
      BY DEF TaskState, ApprovalEventType
    <3> QED BY <1>6, <2>1, <3>1, ResolutionTyped DEF DenyOperation
  <2>3. ApprovalsTypeOK'
    BY SMTT(60), <1>6, RemovalTyped DEF DenyOperation, Revoke, TypeOK, clock
  <2> QED BY SMTT(60), <1>6, <2>2, <2>3
             DEF DenyOperation, Return, TypeOK, CallTypeOK,
          clock
<1>7. ASSUME NEW t \in TaskIds, NEW o \in ApprovalIds, NEW request \in Requests,
             AuthorizeOperation(t, o, request)
      PROVE  TypeOK'
  <2>1. t \in TaskId /\ o \in OperationId
        /\ approved_operations[o].grant.approval \in ApprovalId
    <3>1. o \in DOMAIN approved_operations
      BY <1>7 DEF AuthorizeOperation, MayAuthorize
    <3>2. approved_operations[o] \in ApprovedOperation
      BY <3>1 DEF TypeOK, ApprovalsTypeOK
    <3>3. t \in TaskId
      BY BoundsAssumption DEF TaskIds, TaskId
    <3>4. o \in OperationId
      BY BoundsAssumption DEF ApprovalIds, OperationId
    <3> QED BY SMTT(60), <3>2, <3>3, <3>4 DEF ApprovedOperation, Grant
  <2>2. <<ApprovalEvent("ApprovalConsumed",
                        approved_operations[o].grant.approval, o)>>
          \in Seq(TaskEventKind)
    BY SMTT(60), <2>1, EventTypes DEF ApprovalEventType
  <2>3. DOMAIN log' \subseteq TaskId
        /\ \A u \in DOMAIN log' : log'[u] \in Seq(TaskEventKind)
    BY Zenon, <1>7, <2>1, <2>2, AppendTyped DEF AuthorizeOperation, TypeOK
  <2> QED BY <1>7, <2>3 DEF AuthorizeOperation, TypeOK, TasksTypeOK,
          ApprovalsTypeOK, CallTypeOK, Without, clock
<1>8. ASSUME NEW t \in TaskIds, NEW o \in ApprovalIds,
             AuthorizeOperationFails(t, o)
      PROVE  TypeOK'
  BY <1>8 DEF AuthorizeOperationFails, TypeOK, TasksTypeOK, ApprovalsTypeOK,
     CallTypeOK, Without, clock
<1> QED BY <1>1, <1>2, <1>3, <1>4, <1>5, <1>6, <1>7, <1>8 DEF Approving

\* Every step keeps the type invariant.
LEMMA TypeInductive == TypeOK /\ [Next]_vars => TypeOK'
<1> SUFFICES ASSUME TypeOK, [Next]_vars PROVE TypeOK'
  BY SMTT(60)
<1>1. ASSUME NEW a \in ApprovalIds, DeadlinePasses(a) PROVE TypeOK'
  <2>1. a \in 1..issued
    <3>1. CASE a \in DOMAIN authority.pending
      BY <3>1 DEF TypeOK, ApprovalsTypeOK
    <3>2. CASE a \in {approved_operations[o].grant.approval :
                        o \in DOMAIN approved_operations}
      BY SMTT(60), <3>2 DEF TypeOK, ApprovalsTypeOK
    <3> QED BY <1>1, <3>1, <3>2 DEF DeadlinePasses
  <2> QED BY Zenon, <1>1, <2>1 DEF DeadlinePasses, TypeOK, TasksTypeOK,
          ApprovalsTypeOK, CallTypeOK, volatile
<1>2. CASE UNCHANGED vars
  BY <1>2 DEF vars, volatile, clock, TypeOK, TasksTypeOK, ApprovalsTypeOK,
     CallTypeOK
<1> QED BY <1>1, <1>2, RestartTyped, LifecycleTyped, SweepingTyped,
        ApprovingTyped DEF Next

\* Type correctness, for every instance: every field of the supervisor keeps
\* the shape its Rust type gives it, and no id is in use that was not issued.
THEOREM TypeCorrect == Spec => []TypeOK
<1>1. Init => TypeOK
  BY DEF Init, TypeOK, TasksTypeOK, ApprovalsTypeOK, CallTypeOK, EmptyMap,
     EmptyAuthority
<1> QED BY <1>1, TypeInductive, PTL DEF Spec

==============================================================================

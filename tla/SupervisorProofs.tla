-------------------------- MODULE SupervisorProofs --------------------------
(***************************************************************************)
(* The views that the supervisor, the authority and the Tasks have of the  *)
(* approvals agree, for every set of specifications and requests and every *)
(* value of the limits.                                                    *)
(***************************************************************************)
EXTENDS ApprovalTypes, ApprovalLemmas

\* So does expire_approvals, which drops a request from every view.
LEMMA SweepingAgree == AgreeInv /\ Sweeping => ApprovalsAgree' /\ LiveTasksLogged'
<1> SUFFICES ASSUME AgreeInv, Sweeping PROVE ApprovalsAgree' /\ LiveTasksLogged'
  OBVIOUS
<1>1. ASSUME NEW c \in SweepingCall, BeginCall(c)
      PROVE  ApprovalsAgree' /\ LiveTasksLogged'
  BY <1>1, UntouchedAgree DEF BeginCall, AgreeInv, approvals
<1>2. ASSUME NEW c \in SweepingCall, ReturnUnchanged(c)
      PROVE  ApprovalsAgree' /\ LiveTasksLogged'
  BY <1>2, UntouchedAgree DEF ReturnUnchanged, AgreeInv, approvals
<1>3. CASE SweepFails
  BY <1>3, UntouchedAgree DEF SweepFails, AgreeInv, approvals
<1>4. ASSUME NEW a \in ApprovalIds, ExpireNext(a)
      PROVE  ApprovalsAgree' /\ LiveTasksLogged'
  <2>1. CASE a \notin DOMAIN pending_operations
    BY <1>4, <2>1, UntouchedAgree DEF ExpireNext, AgreeInv, approvals
  <2>2. CASE a \in DOMAIN pending_operations
    <3>1. DOMAIN log \subseteq DOMAIN log'
      BY SMTT(60), <1>4, <2>2, AppendKeepsLogs DEF ExpireNext
    <3>2. /\ PendingMatchesAuthority' /\ IndexMatchesAuthority'
          /\ PendingMatchesTasks' /\ LiveTasksLogged'
          /\ DOMAIN tasks' = DOMAIN tasks
      BY SMTT(60), <1>4, <2>2, <3>1, ResolveAgree
         DEF ExpireNext, AgreeInv, Revoke
    <3>3. UNCHANGED approved_operations
          /\ DOMAIN pending_operations' \subseteq DOMAIN pending_operations
      BY <1>4, <2>2 DEF ExpireNext, Without
    <3>4. GrantsMatchTasks'
      BY <3>2, <3>3 DEF AgreeInv, ApprovalsAgree, GrantsMatchTasks
    <3> QED BY <3>2, <3>4 DEF ApprovalsAgree
  <2> QED BY <2>1, <2>2
<1> QED BY <1>1, <1>2, <1>3, <1>4 DEF Sweeping

\* The next approval identifier is in no map of pending approvals.
LEMMA FreshApproval ==
  ASSUME AgreeInv
  PROVE  /\ issued \in Nat
         /\ issued + 1 \notin 1..issued
         /\ issued + 1 \notin DOMAIN authority.pending
         /\ issued + 1 \notin DOMAIN pending_operations
<1>1. issued \in Nat
  BY DEF AgreeInv, TypeOK, CallTypeOK
<1>2. /\ DOMAIN authority.pending \subseteq 1..issued
      /\ DOMAIN pending_operations \subseteq 1..issued
  BY DEF AgreeInv, TypeOK, ApprovalsTypeOK
<1>3. issued + 1 \notin 1..issued
  BY <1>1
<1> QED BY <1>1, <1>2, <1>3

\* A new request is added to every view.
LEMMA RequestAgree ==
  ASSUME AgreeInv, NEW t \in TaskIds, NEW request \in Requests, NEW ttl \in Ttl,
         RequestApproval(t, request, ttl)
  PROVE  ApprovalsAgree' /\ LiveTasksLogged'
<1> DEFINE a == issued + 1
<1>1. /\ issued \in Nat
      /\ a \notin 1..issued
      /\ a \notin DOMAIN authority.pending
      /\ a \notin DOMAIN pending_operations
  BY FreshApproval
<1>2. /\ t \in DOMAIN tasks
      /\ \A b \in DOMAIN pending_operations : pending_operations[b].task # t
      /\ <<t, a>> \notin DOMAIN authority.operation_index
  BY DEF RequestApproval, MayRequestApproval, MayRequest, PendingOf, CanRequest
<1>3. /\ DOMAIN tasks' = DOMAIN tasks
      /\ \A u \in DOMAIN tasks \ {t} : tasks'[u] = tasks[u]
      /\ tasks'[t].state = "WaitingApproval"
  BY <1>2 DEF RequestApproval, SetTaskState, AgreeInv, TypeOK, TasksTypeOK,
     TaskRecord
<1> DEFINE p == [task |-> t, operation |-> a, action |-> request.action]
           q == [task |-> t, operation |-> a, request |-> request]
<1>4. authority' = AddPending(authority, a, p)
  BY DEF RequestApproval, Request
<1>5. /\ DOMAIN authority'.pending = DOMAIN authority.pending \cup {a}
      /\ authority'.pending[a] = p
      /\ \A b \in DOMAIN authority.pending :
           authority'.pending[b] = authority.pending[b]
  BY SMTT(60), <1>1, <1>4 DEF AddPending, Insert
<1>6. /\ DOMAIN pending_operations' = DOMAIN pending_operations \cup {a}
      /\ pending_operations'[a] = q
      /\ \A b \in DOMAIN pending_operations :
           pending_operations'[b] = pending_operations[b]
  BY SMTT(60), <1>1 DEF RequestApproval, Insert
<1>7. DOMAIN log \subseteq DOMAIN log'
  BY AppendKeepsLogs DEF RequestApproval
<1>8. IndexMatchesAuthority'
  <2>1. p.task = t /\ p.operation = a
    OBVIOUS
  <2> HIDE DEF p, a
  <2> QED BY <1>1, <1>2, <1>4, <2>1, AddPendingExact
          DEF AgreeInv, ApprovalsAgree, IndexMatchesAuthority
<1>9. q.task = t /\ q.operation = a /\ q.request = request
  OBVIOUS
<1>10. p = [task |-> q.task, operation |-> q.operation,
            action |-> q.request.action]
  OBVIOUS
<1> HIDE DEF a, p, q
<1>11. PendingMatchesAuthority'
  BY SMTT(60), <1>1, <1>5, <1>6, <1>10
     DEF AgreeInv, ApprovalsAgree, PendingMatchesAuthority
<1>12. PendingMatchesTasks'
  <2>1. PendingMatchesTasks
    BY DEF AgreeInv, ApprovalsAgree
  <2>2. \A b \in DOMAIN pending_operations : pending_operations[b].task # t
    BY <1>2
  <2> QED BY <1>2, <1>3, <1>6, <1>9, <2>1, <2>2 DEF PendingMatchesTasks
<1>13. GrantsMatchTasks'
  <2>1. UNCHANGED approved_operations
    BY DEF RequestApproval
  <2>2. \A o \in DOMAIN approved_operations :
          approved_operations[o].grant.approval # a
    BY SMTT(60), <1>1 DEF AgreeInv, TypeOK, ApprovalsTypeOK
  <2> QED BY <1>3, <1>6, <2>1, <2>2 DEF AgreeInv, ApprovalsAgree,
          GrantsMatchTasks
<1> QED BY <1>3, <1>7, <1>8, <1>11, <1>12, <1>13
        DEF AgreeInv, ApprovalsAgree, LiveTasksLogged

\* Steps that leave the supervisor's maps and change the authority to one with
\* the same requests.
LEMMA UndoneAgree ==
  ASSUME AgreeInv, IndexExact(authority'),
         DOMAIN authority'.pending = DOMAIN authority.pending,
         \A b \in DOMAIN authority.pending :
           authority'.pending[b] = authority.pending[b],
         UNCHANGED <<log, tasks, pending_operations, approved_operations>>
  PROVE  ApprovalsAgree' /\ LiveTasksLogged'
BY DEF AgreeInv, ApprovalsAgree, LiveTasksLogged, PendingMatchesAuthority,
   IndexMatchesAuthority, PendingMatchesTasks, GrantsMatchTasks

\* So do the four approval calls, on success and on every undo path.
LEMMA ApprovingAgree == AgreeInv /\ Approving => ApprovalsAgree' /\ LiveTasksLogged'
<1> SUFFICES ASSUME AgreeInv, Approving PROVE ApprovalsAgree' /\ LiveTasksLogged'
  OBVIOUS
<1>1. ASSUME NEW t \in TaskIds, NEW request \in Requests,
             RequestDecided(t, request)
      PROVE  ApprovalsAgree' /\ LiveTasksLogged'
  BY <1>1, UntouchedAgree, AppendKeepsLogs DEF RequestDecided, AgreeInv,
     approvals
<1>2. ASSUME NEW t \in TaskIds, NEW request \in Requests, NEW ttl \in Ttl,
             RequestApproval(t, request, ttl)
      PROVE  ApprovalsAgree' /\ LiveTasksLogged'
  BY <1>2, RequestAgree
<1>3. ASSUME NEW t \in TaskIds, NEW request \in Requests, NEW ttl \in Ttl,
             RequestApprovalAuditFails(t, request, ttl)
      PROVE  ApprovalsAgree' /\ LiveTasksLogged'
  <2> DEFINE a == issued + 1
  <2>1. a \notin DOMAIN authority.pending
    BY FreshApproval
  <2>2. <<t, a>> \notin DOMAIN authority.operation_index
    BY <1>3 DEF RequestApprovalAuditFails, MayRequestApproval, CanRequest
  <2>3. IndexExact(authority)
    BY DEF AgreeInv, ApprovalsAgree, IndexMatchesAuthority
  <2>4. authority' = Revoke(Request(authority, a, t, a, request.action), a)
        /\ UNCHANGED <<log, tasks, pending_operations, approved_operations>>
    BY <1>3 DEF RequestApprovalAuditFails
  <2> HIDE DEF a
  <2>5. /\ IndexExact(authority')
        /\ DOMAIN authority'.pending = DOMAIN authority.pending
        /\ \A b \in DOMAIN authority.pending :
             authority'.pending[b] = authority.pending[b]
    BY SMTT(60), <2>1, <2>2, <2>3, <2>4, RequestUndone
  <2> QED BY <2>4, <2>5, UndoneAgree
<1>4. ASSUME NEW a \in ApprovalIds, ApproveOperation(a)
      PROVE  ApprovalsAgree' /\ LiveTasksLogged'
  <2> DEFINE p == pending_operations[a]
             q == [task |-> p.task, request |-> p.request,
                   grant |-> GrantOf(authority, a)]
  <2>1. a \in DOMAIN pending_operations
    BY SMTT(60), <1>4 DEF ApproveOperation, MayApprove
  <2>2. DOMAIN log \subseteq DOMAIN log'
    BY SMTT(60), <1>4, AppendKeepsLogs DEF ApproveOperation
  <2>3. /\ PendingMatchesAuthority' /\ IndexMatchesAuthority'
        /\ PendingMatchesTasks' /\ LiveTasksLogged'
        /\ DOMAIN tasks' = DOMAIN tasks
    BY <1>4, <2>1, <2>2, ResolveAgree DEF ApproveOperation, AgreeInv
  <2>4. /\ p.task \in DOMAIN tasks
        /\ q.task = p.task
        /\ q.grant.task = p.task
        /\ q.grant.operation = p.operation
        /\ q.grant.action = q.request.action
        /\ q.grant.approval = a
    <3>1. p.task \in DOMAIN tasks
      BY <2>1 DEF AgreeInv, ApprovalsAgree, PendingMatchesTasks
    <3>2. authority.pending[a] = [task |-> p.task, operation |-> p.operation,
                                  action |-> p.request.action]
      BY <2>1 DEF AgreeInv, ApprovalsAgree, PendingMatchesAuthority
    <3>3. q.grant = [approval |-> a, task |-> authority.pending[a].task,
                     operation |-> authority.pending[a].operation,
                     action |-> authority.pending[a].action]
      BY DEF GrantOf
    <3> HIDE DEF p
    <3>4. q.task = p.task /\ q.request = p.request
      BY SMTT(60)
    <3> HIDE DEF q
    <3>5. q.grant = [approval |-> a, task |-> p.task,
                     operation |-> p.operation, action |-> p.request.action]
      BY <3>2, <3>3
    <3>6. /\ q.grant.approval = a /\ q.grant.task = p.task
          /\ q.grant.operation = p.operation
          /\ q.grant.action = p.request.action
      BY <3>5
    <3> QED BY <3>1, <3>4, <3>6
  <2>5. /\ approved_operations' = Insert(approved_operations, p.operation, q)
        /\ DOMAIN pending_operations' = DOMAIN pending_operations \ {a}
    BY SMTT(60), <1>4 DEF ApproveOperation, Without
  <2> HIDE DEF p, q
  <2>6. GrantsMatchTasks'
    BY SMTT(60), <2>3, <2>4, <2>5
       DEF AgreeInv, ApprovalsAgree, GrantsMatchTasks, Insert
  <2> QED BY <2>3, <2>6 DEF ApprovalsAgree
<1>5. ASSUME NEW a \in ApprovalIds, ApproveOperationAuditFails(a)
      PROVE  ApprovalsAgree' /\ LiveTasksLogged'
  <2>1. a \in DOMAIN authority.pending
    BY <1>5 DEF ApproveOperationAuditFails, MayApprove, CanApprove, Contains
  <2>2. authority.pending[a] = [task |-> authority.pending[a].task,
                                operation |-> authority.pending[a].operation,
                                action |-> authority.pending[a].action]
    <3>1. authority.pending[a] \in PendingApproval
      BY <2>1 DEF AgreeInv, TypeOK, ApprovalsTypeOK
    <3> QED BY <3>1 DEF PendingApproval
  <2>3. authority' = Restore(Remove(authority, a), GrantOf(authority, a))
        /\ UNCHANGED <<log, tasks, pending_operations, approved_operations>>
    BY <1>5 DEF ApproveOperationAuditFails
  <2>4. IndexExact(authority)
    BY DEF AgreeInv, ApprovalsAgree, IndexMatchesAuthority
  <2>5. /\ IndexExact(authority')
        /\ DOMAIN authority'.pending = DOMAIN authority.pending
        /\ \A b \in DOMAIN authority.pending :
             authority'.pending[b] = authority.pending[b]
    BY SMTT(60), <2>1, <2>2, <2>3, <2>4, ApprovalUndone
  <2> QED BY SMTT(60), <2>3, <2>5, UndoneAgree
<1>6. ASSUME NEW a \in ApprovalIds, DenyOperation(a)
      PROVE  ApprovalsAgree' /\ LiveTasksLogged'
  <2>1. DOMAIN log \subseteq DOMAIN log'
    BY SMTT(60), <1>6, AppendKeepsLogs DEF DenyOperation
  <2>2. /\ PendingMatchesAuthority' /\ IndexMatchesAuthority'
        /\ PendingMatchesTasks' /\ LiveTasksLogged'
        /\ DOMAIN tasks' = DOMAIN tasks
    BY SMTT(60), <1>6, <2>1, ResolveAgree DEF DenyOperation, AgreeInv, Revoke
  <2>3. UNCHANGED approved_operations
        /\ DOMAIN pending_operations' \subseteq DOMAIN pending_operations
    <3>1. UNCHANGED approved_operations
          /\ pending_operations' = Without(pending_operations, {a})
      BY Zenon, <1>6 DEF DenyOperation
    <3> QED BY <3>1 DEF Without
  <2>4. GrantsMatchTasks'
    BY <2>2, <2>3 DEF AgreeInv, ApprovalsAgree, GrantsMatchTasks
  <2> QED BY <2>2, <2>4 DEF ApprovalsAgree
<1>7. ASSUME DOMAIN log \subseteq DOMAIN log', NEW o,
             approved_operations' = Without(approved_operations, {o}),
             UNCHANGED <<tasks, authority, pending_operations>>
      PROVE  ApprovalsAgree' /\ LiveTasksLogged'
  BY SMTT(60), <1>7 DEF AgreeInv, ApprovalsAgree, LiveTasksLogged,
     PendingMatchesAuthority, IndexMatchesAuthority, IndexExact,
     PendingMatchesTasks, GrantsMatchTasks, Without
<1>8. ASSUME NEW t \in TaskIds, NEW o \in ApprovalIds, NEW request \in Requests,
             AuthorizeOperation(t, o, request)
      PROVE  ApprovalsAgree' /\ LiveTasksLogged'
  BY Zenon, <1>7, <1>8, AppendKeepsLogs DEF AuthorizeOperation
<1>9. ASSUME NEW t \in TaskIds, NEW o \in ApprovalIds,
             AuthorizeOperationFails(t, o)
      PROVE  ApprovalsAgree' /\ LiveTasksLogged'
  BY Zenon, <1>7, <1>9 DEF AuthorizeOperationFails
<1> QED BY SMTT(60), <1>1, <1>2, <1>3, <1>4, <1>5, <1>6, <1>8, <1>9
           DEF Approving

\* The inductive step: agreement, typing and logs of the live Tasks.
LEMMA AgreeInductive == AgreeInv /\ [Next]_vars => AgreeInv'
<1> SUFFICES ASSUME AgreeInv, [Next]_vars PROVE AgreeInv'
  OBVIOUS
<1>1. TypeOK'
  BY TypeInductive DEF AgreeInv
<1>2. ASSUME NEW a \in ApprovalIds, DeadlinePasses(a)
      PROVE  ApprovalsAgree' /\ LiveTasksLogged'
  BY <1>2, UntouchedAgree DEF DeadlinePasses, AgreeInv, volatile
<1>3. CASE UNCHANGED vars
  BY <1>1, <1>3, UntouchedAgree DEF vars, volatile, AgreeInv
<1> QED BY <1>1, <1>2, <1>3, RestartAgree, LifecycleAgree, SweepingAgree,
        ApprovingAgree DEF Next, AgreeInv

\* For every instance, the supervisor's pending operations, the authority's
\* requests, its index, the grants and the states of the Tasks agree after
\* every step: none of the undo paths in request_operation and
\* approve_operation, and none of the four ways to lose a request, misses one.
THEOREM ApprovalsCoherent == Spec => []ApprovalsAgree
<1>1. Init => AgreeInv
  <2>1. Init => TypeOK
    BY DEF Init, TypeOK, TasksTypeOK, ApprovalsTypeOK, CallTypeOK, EmptyMap,
       EmptyAuthority
  <2>2. Init => ApprovalsAgree /\ LiveTasksLogged
    BY DEF Init, ApprovalsAgree, LiveTasksLogged, PendingMatchesAuthority,
       IndexMatchesAuthority, IndexExact, PendingMatchesTasks,
       GrantsMatchTasks, EmptyAuthority, EmptyMap
  <2> QED BY <2>1, <2>2 DEF AgreeInv
<1>2. AgreeInv => ApprovalsAgree
  BY DEF AgreeInv
<1> QED BY <1>1, <1>2, AgreeInductive, PTL DEF Spec

=============================================================================

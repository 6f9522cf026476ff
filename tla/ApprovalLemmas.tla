--------------------------- MODULE ApprovalLemmas ---------------------------
(***************************************************************************)
(* What the operations of the authority do to its index, and which steps   *)
(* of the supervisor keep the four views of the approvals in agreement.    *)
(*                                                                         *)
(* ApprovalsAgree is not inductive alone: a submission must not reuse the  *)
(* id of a live Task, and a request must draw an id that no grant has.     *)
(* The first needs every live Task to have a log, the second the type      *)
(* invariant.                                                              *)
(***************************************************************************)
EXTENDS Supervisor, TLAPS

\* A request under a fresh approval and a fresh key keeps the index exact.
LEMMA AddPendingExact ==
  ASSUME NEW auth, IndexExact(auth), NEW a, NEW p,
         a \notin DOMAIN auth.pending,
         <<p.task, p.operation>> \notin DOMAIN auth.operation_index
  PROVE  IndexExact(AddPending(auth, a, p))
<1> DEFINE key == <<p.task, p.operation>>
           new == AddPending(auth, a, p)
<1>1. /\ DOMAIN new.pending = DOMAIN auth.pending \cup {a}
      /\ DOMAIN new.operation_index = DOMAIN auth.operation_index \cup {key}
      /\ new.pending[a] = p /\ new.operation_index[key] = a
      /\ \A b \in DOMAIN auth.pending : new.pending[b] = auth.pending[b]
      /\ \A k \in DOMAIN auth.operation_index :
           new.operation_index[k] = auth.operation_index[k]
  BY DEF AddPending, Insert
<1> HIDE DEF new, key
<1>2. ASSUME NEW b \in DOMAIN new.pending
      PROVE  LET k == <<new.pending[b].task, new.pending[b].operation>>
             IN  k \in DOMAIN new.operation_index
                 /\ new.operation_index[k] = b
  <2>1. CASE b = a
    BY <1>1, <2>1 DEF key
  <2>2. CASE b \in DOMAIN auth.pending
    BY <1>1, <2>2 DEF IndexExact
  <2> QED BY <1>1, <2>1, <2>2
<1>3. ASSUME NEW k \in DOMAIN new.operation_index
      PROVE  LET b == new.operation_index[k]
             IN  /\ b \in DOMAIN new.pending
                 /\ k = <<new.pending[b].task, new.pending[b].operation>>
  <2>1. CASE k = key
    BY <1>1, <2>1 DEF key
  <2>2. CASE k \in DOMAIN auth.operation_index
    BY <1>1, <2>2 DEF IndexExact
  <2> QED BY <1>1, <2>1, <2>2
<1>4. IndexExact(new)
  BY <1>2, <1>3 DEF IndexExact
<1> QED BY <1>4 DEF new

\* remove keeps operation_index exact: it drops the entry of the request.
LEMMA RemoveExact ==
  ASSUME NEW auth, IndexExact(auth), NEW a
  PROVE  IndexExact(Remove(auth, a))
<1>1. CASE a \notin DOMAIN auth.pending
  BY <1>1 DEF Remove
<1>2. CASE a \in DOMAIN auth.pending
  <2> DEFINE key == <<auth.pending[a].task, auth.pending[a].operation>>
             new == Remove(auth, a)
  <2>1. /\ DOMAIN new.pending = DOMAIN auth.pending \ {a}
        /\ DOMAIN new.operation_index = DOMAIN auth.operation_index \ {key}
        /\ \A b \in DOMAIN new.pending : new.pending[b] = auth.pending[b]
        /\ \A k \in DOMAIN new.operation_index :
             new.operation_index[k] = auth.operation_index[k]
    BY <1>2 DEF Remove, Without
  <2> HIDE DEF new, key
  <2>2. ASSUME NEW b \in DOMAIN new.pending
        PROVE  LET k == <<new.pending[b].task, new.pending[b].operation>>
               IN  k \in DOMAIN new.operation_index
                   /\ new.operation_index[k] = b
    <3> DEFINE k == <<auth.pending[b].task, auth.pending[b].operation>>
    <3>1. k \in DOMAIN auth.operation_index /\ auth.operation_index[k] = b
      BY <2>1 DEF IndexExact
    <3>2. auth.operation_index[key] = a
      BY <1>2 DEF IndexExact, key
    <3>3. k # key
      BY <2>1, <3>1, <3>2
    <3> QED BY <2>1, <3>1, <3>3
  <2>3. ASSUME NEW k \in DOMAIN new.operation_index
        PROVE  LET b == new.operation_index[k]
               IN  /\ b \in DOMAIN new.pending
                   /\ k = <<new.pending[b].task, new.pending[b].operation>>
    <3> DEFINE b == auth.operation_index[k]
    <3>1. /\ b \in DOMAIN auth.pending
          /\ k = <<auth.pending[b].task, auth.pending[b].operation>>
      BY <2>1 DEF IndexExact
    <3>2. b # a
      BY <2>1, <3>1 DEF key
    <3> QED BY <2>1, <3>1, <3>2
  <2>4. IndexExact(new)
    BY <2>2, <2>3 DEF IndexExact
  <2> QED BY <2>4 DEF new
<1> QED BY <1>1, <1>2

\* What Remove leaves.
LEMMA RemoveLeaves ==
  ASSUME NEW auth, NEW a
  PROVE  /\ DOMAIN Remove(auth, a).pending = DOMAIN auth.pending \ {a}
         /\ \A b \in DOMAIN auth.pending \ {a} :
              Remove(auth, a).pending[b] = auth.pending[b]
<1>1. CASE a \notin DOMAIN auth.pending
  BY <1>1 DEF Remove
<1>2. CASE a \in DOMAIN auth.pending
  BY <1>2 DEF Remove, Without
<1> QED BY <1>1, <1>2

\* Undoing: a request taken back, and a grant turned back into its request,
\* leave the requests as they were.
LEMMA RequestUndone ==
  ASSUME NEW auth, IndexExact(auth), NEW a, NEW task, NEW action,
         a \notin DOMAIN auth.pending,
         <<task, a>> \notin DOMAIN auth.operation_index
  PROVE  LET new == Revoke(Request(auth, a, task, a, action), a)
         IN  /\ IndexExact(new)
             /\ DOMAIN new.pending = DOMAIN auth.pending
             /\ \A b \in DOMAIN auth.pending : new.pending[b] = auth.pending[b]
<1> DEFINE p == [task |-> task, operation |-> a, action |-> action]
           mid == AddPending(auth, a, p)
<1>1. IndexExact(mid)
  BY AddPendingExact
<1>2. DOMAIN mid.pending = DOMAIN auth.pending \cup {a}
      /\ \A b \in DOMAIN auth.pending : mid.pending[b] = auth.pending[b]
  BY DEF AddPending, Insert
<1> HIDE DEF mid
<1>3. IndexExact(Remove(mid, a))
  BY <1>1, RemoveExact
<1>4. /\ DOMAIN Remove(mid, a).pending = DOMAIN auth.pending
      /\ \A b \in DOMAIN auth.pending :
           Remove(mid, a).pending[b] = auth.pending[b]
  <2>1. /\ DOMAIN Remove(mid, a).pending = DOMAIN mid.pending \ {a}
        /\ \A b \in DOMAIN mid.pending \ {a} :
             Remove(mid, a).pending[b] = mid.pending[b]
    BY RemoveLeaves
  <2> QED BY <1>2, <2>1
<1>5. Revoke(Request(auth, a, task, a, action), a) = Remove(mid, a)
  BY DEF mid, Request, Revoke
<1> QED BY <1>3, <1>4, <1>5

\* approve followed by restore gives back the same requests and index.
LEMMA ApprovalUndone ==
  ASSUME NEW auth, IndexExact(auth), NEW a \in DOMAIN auth.pending,
         auth.pending[a] = [task |-> auth.pending[a].task,
                            operation |-> auth.pending[a].operation,
                            action |-> auth.pending[a].action]
  PROVE  LET new == Restore(Remove(auth, a), GrantOf(auth, a))
         IN  /\ IndexExact(new)
             /\ DOMAIN new.pending = DOMAIN auth.pending
             /\ \A b \in DOMAIN auth.pending : new.pending[b] = auth.pending[b]
<1> DEFINE p == auth.pending[a]
           mid == Remove(auth, a)
           new == AddPending(mid, a, p)
<1>1. p = [task |-> p.task, operation |-> p.operation, action |-> p.action]
  OBVIOUS
<1>2. Restore(mid, GrantOf(auth, a)) = new
  BY <1>1 DEF Restore, GrantOf
<1>3. IndexExact(mid)
  BY RemoveExact
<1>4. DOMAIN mid.pending = DOMAIN auth.pending \ {a}
      /\ \A b \in DOMAIN mid.pending : mid.pending[b] = auth.pending[b]
  BY RemoveLeaves
<1>5. <<p.task, p.operation>> \notin DOMAIN mid.operation_index
  BY DEF Remove, Without
<1> HIDE DEF mid, p
<1>6. IndexExact(new)
  BY <1>3, <1>4, <1>5, AddPendingExact
<1>7. DOMAIN new.pending = DOMAIN auth.pending
      /\ \A b \in DOMAIN auth.pending : new.pending[b] = auth.pending[b]
  BY <1>4 DEF AddPending, Insert, p
<1> QED BY <1>2, <1>6, <1>7 DEF mid, p

-----------------------------------------------------------------------------
(***************************************************************************)
(* The supervisor.                                                         *)
(***************************************************************************)
LiveTasksLogged == DOMAIN tasks \subseteq DOMAIN log

AgreeInv == TypeOK /\ ApprovalsAgree /\ LiveTasksLogged

\* append_batch forgets no Task.
LEMMA AppendKeepsLogs ==
  ASSUME NEW t, NEW batch, AppendBatch(t, batch)
  PROVE  DOMAIN log \subseteq DOMAIN log' /\ t \in DOMAIN log'
BY SMTT(60) DEF AppendBatch, Insert

\* Steps that touch neither the Tasks nor the approvals.
LEMMA UntouchedAgree ==
  ASSUME ApprovalsAgree, LiveTasksLogged, DOMAIN log \subseteq DOMAIN log',
         UNCHANGED <<tasks, authority, pending_operations,
                     approved_operations>>
  PROVE  ApprovalsAgree' /\ LiveTasksLogged'
BY DEF ApprovalsAgree, LiveTasksLogged, PendingMatchesAuthority,
   IndexMatchesAuthority, IndexExact, PendingMatchesTasks, GrantsMatchTasks

\* Steps that only move a Task, between states in which it may have a pending
\* request, or out of Queued.
LEMMA MoveAgree ==
  ASSUME ApprovalsAgree, LiveTasksLogged, DOMAIN log \subseteq DOMAIN log',
         NEW t \in DOMAIN tasks,
         DOMAIN tasks' = DOMAIN tasks,
         tasks'[t].state = "Running",
         \A u \in DOMAIN tasks \ {t} : tasks'[u] = tasks[u],
         UNCHANGED <<authority, pending_operations, approved_operations>>
  PROVE  ApprovalsAgree' /\ LiveTasksLogged'
<1>1. PendingMatchesAuthority' /\ IndexMatchesAuthority'
  BY DEF ApprovalsAgree, PendingMatchesAuthority, IndexMatchesAuthority,
     IndexExact
<1>2. PendingMatchesTasks'
  BY DEF ApprovalsAgree, PendingMatchesTasks
<1>3. GrantsMatchTasks'
  BY DEF ApprovalsAgree, GrantsMatchTasks
<1> QED BY SMTT(60), <1>1, <1>2, <1>3 DEF ApprovalsAgree, LiveTasksLogged

\* Steps that take away one request and move its Task.
LEMMA ResolveAgree ==
  ASSUME ApprovalsAgree, LiveTasksLogged, DOMAIN log \subseteq DOMAIN log',
         TypeOK,
         NEW a \in DOMAIN pending_operations, NEW next \in {"Running", "Failed"},
         SetTaskState(pending_operations[a].task, next),
         authority' = Remove(authority, a),
         pending_operations' = Without(pending_operations, {a})
  PROVE  /\ PendingMatchesAuthority' /\ IndexMatchesAuthority'
         /\ PendingMatchesTasks' /\ LiveTasksLogged'
         /\ DOMAIN tasks' = DOMAIN tasks
<1> DEFINE t == pending_operations[a].task
<1>1. /\ DOMAIN tasks' = DOMAIN tasks
      /\ \A u \in DOMAIN tasks \ {t} : tasks'[u] = tasks[u]
      /\ t \in DOMAIN tasks
      /\ tasks'[t].state = next
  BY DEF SetTaskState, ApprovalsAgree, PendingMatchesTasks, TypeOK,
     TasksTypeOK, TaskRecord
<1>2. /\ DOMAIN authority'.pending = DOMAIN authority.pending \ {a}
      /\ \A b \in DOMAIN authority.pending \ {a} :
           authority'.pending[b] = authority.pending[b]
  BY RemoveLeaves
<1>3. /\ DOMAIN pending_operations' = DOMAIN pending_operations \ {a}
      /\ \A b \in DOMAIN pending_operations \ {a} :
           pending_operations'[b] = pending_operations[b]
  BY DEF Without
<1>4. PendingMatchesAuthority'
  BY ZenonT(60), <1>2, <1>3 DEF ApprovalsAgree, PendingMatchesAuthority
<1>5. IndexMatchesAuthority'
  BY RemoveExact DEF ApprovalsAgree, IndexMatchesAuthority
<1>6. PendingMatchesTasks'
  <2>1. ASSUME NEW b \in DOMAIN pending_operations'
        PROVE  /\ pending_operations'[b].task \in DOMAIN tasks'
               /\ tasks'[pending_operations'[b].task].state
                    \in {"Running", "WaitingApproval"}
               /\ \A c \in DOMAIN pending_operations' :
                    pending_operations'[c].task = pending_operations'[b].task
                      => c = b
    <3> DEFINE u == pending_operations[b].task
    <3>1. b # a /\ b \in DOMAIN pending_operations
          /\ pending_operations'[b].task = u
      BY <1>3
    <3>2. /\ u \in DOMAIN tasks
          /\ tasks[u].state \in {"Running", "WaitingApproval"}
          /\ \A c \in DOMAIN pending_operations :
               pending_operations[c].task = u => c = b
      BY <3>1 DEF ApprovalsAgree, PendingMatchesTasks
    <3>3. u # t
      BY <3>1, <3>2
    <3> QED BY SMTT(60), <1>1, <1>3, <3>1, <3>2, <3>3
  <2>2. ASSUME NEW u \in DOMAIN tasks', tasks'[u].state = "WaitingApproval"
        PROVE  \E b \in DOMAIN pending_operations' :
                 pending_operations'[b].task = u
    <3>1. u # t /\ tasks[u].state = "WaitingApproval" /\ u \in DOMAIN tasks
      BY <1>1, <2>2
    <3>2. PICK b \in DOMAIN pending_operations : pending_operations[b].task = u
      BY <3>1 DEF ApprovalsAgree, PendingMatchesTasks
    <3>3. b # a
      BY <3>1, <3>2
    <3> QED BY <1>3, <3>2, <3>3
  <2> QED BY Zenon, <2>1, <2>2 DEF PendingMatchesTasks
<1> QED BY <1>1, <1>4, <1>5, <1>6 DEF LiveTasksLogged

\* A terminal transition takes all of the Task's requests and grants.
LEMMA EndAgree ==
  ASSUME AgreeInv, NEW t \in Known, NEW next \in Terminal, NEW failure,
         ApplyTransition(t, next, failure)
  PROVE  ApprovalsAgree' /\ LiveTasksLogged'
<1>1. InvalidateApprovals(t)
  BY DEF ApplyTransition, IsTerminal
<1>2. DOMAIN log \subseteq DOMAIN log'
  BY AppendKeepsLogs DEF ApplyTransition
<1>3. /\ DOMAIN tasks' = DOMAIN tasks
      /\ \A u \in DOMAIN tasks \ {t} : tasks'[u] = tasks[u]
      /\ t \in DOMAIN tasks => tasks'[t].state = next
  <2>1. CASE t \in DOMAIN tasks
    BY <2>1 DEF ApplyTransition, SetTaskState, AgreeInv, TypeOK, TasksTypeOK,
       TaskRecord
  <2>2. CASE t \notin DOMAIN tasks
    BY <2>2 DEF ApplyTransition
  <2> QED BY <2>1, <2>2
<1>4. /\ DOMAIN pending_operations' = DOMAIN pending_operations \ PendingOf(t)
      /\ \A a \in DOMAIN pending_operations' :
           /\ pending_operations'[a] = pending_operations[a]
           /\ pending_operations[a].task # t
      /\ \A a \in DOMAIN pending_operations :
           pending_operations[a].task # t => a \in DOMAIN pending_operations'
  BY <1>1 DEF InvalidateApprovals, Without, PendingOf
<1>5. /\ DOMAIN authority.pending = DOMAIN pending_operations
      /\ \A a \in DOMAIN pending_operations :
           authority.pending[a] =
             [task |-> pending_operations[a].task,
              operation |-> pending_operations[a].operation,
              action |-> pending_operations[a].request.action]
  BY DEF AgreeInv, ApprovalsAgree, PendingMatchesAuthority
<1> DEFINE gone == {<<authority.pending[a].task, authority.pending[a].operation>> :
                      a \in PendingOf(t)}
<1>6. /\ DOMAIN authority'.pending = DOMAIN authority.pending \ PendingOf(t)
      /\ \A a \in DOMAIN authority'.pending :
           authority'.pending[a] = authority.pending[a]
      /\ DOMAIN authority'.operation_index
           = DOMAIN authority.operation_index \ gone
      /\ \A k \in DOMAIN authority'.operation_index :
           authority'.operation_index[k] = authority.operation_index[k]
  <2>1. PendingOf(t) \cap DOMAIN authority.pending = PendingOf(t)
    BY <1>5 DEF PendingOf
  <2> QED BY <1>1, <2>1 DEF InvalidateApprovals, Without
<1>7. PendingMatchesAuthority'
  BY <1>4, <1>5, <1>6 DEF PendingMatchesAuthority
<1>8. IndexMatchesAuthority'
  <2>1. ASSUME NEW a \in DOMAIN authority'.pending
        PROVE  LET k == <<authority'.pending[a].task,
                          authority'.pending[a].operation>>
               IN  k \in DOMAIN authority'.operation_index
                   /\ authority'.operation_index[k] = a
    <3> DEFINE k == <<authority.pending[a].task,
                      authority.pending[a].operation>>
    <3>1. a \in DOMAIN authority.pending /\ a \notin PendingOf(t)
          /\ authority'.pending[a] = authority.pending[a]
      BY <1>6
    <3>2. k \in DOMAIN authority.operation_index
          /\ authority.operation_index[k] = a
      BY <3>1 DEF AgreeInv, ApprovalsAgree, IndexMatchesAuthority, IndexExact
    <3>3. k \notin gone
      <4> SUFFICES ASSUME NEW b \in PendingOf(t),
                          k = <<authority.pending[b].task,
                                authority.pending[b].operation>>
                   PROVE  FALSE
        OBVIOUS
      <4>1. b \in DOMAIN authority.pending
        BY <1>5 DEF PendingOf
      <4>2. authority.operation_index[k] = b
        BY <4>1 DEF AgreeInv, ApprovalsAgree, IndexMatchesAuthority, IndexExact
      <4> QED BY <3>1, <3>2, <4>2
    <3> QED BY <1>6, <3>1, <3>2, <3>3
  <2>2. ASSUME NEW k \in DOMAIN authority'.operation_index
        PROVE  LET a == authority'.operation_index[k]
               IN  /\ a \in DOMAIN authority'.pending
                   /\ k = <<authority'.pending[a].task,
                            authority'.pending[a].operation>>
    <3> DEFINE a == authority.operation_index[k]
    <3>1. k \in DOMAIN authority.operation_index /\ k \notin gone
          /\ authority'.operation_index[k] = a
      BY <1>6
    <3>2. /\ a \in DOMAIN authority.pending
          /\ k = <<authority.pending[a].task, authority.pending[a].operation>>
      BY <3>1 DEF AgreeInv, ApprovalsAgree, IndexMatchesAuthority, IndexExact
    <3>3. a \notin PendingOf(t)
      BY <3>1, <3>2
    <3> QED BY <1>6, <3>1, <3>2, <3>3
  <2> QED BY <2>1, <2>2 DEF IndexMatchesAuthority, IndexExact
<1>9. PendingMatchesTasks'
  <2>1. \A a \in DOMAIN pending_operations' :
          /\ pending_operations'[a].task \in DOMAIN tasks'
          /\ tasks'[pending_operations'[a].task].state
               \in {"Running", "WaitingApproval"}
          /\ \A b \in DOMAIN pending_operations' :
               pending_operations'[b].task = pending_operations'[a].task
                 => b = a
    BY <1>3, <1>4 DEF AgreeInv, ApprovalsAgree, PendingMatchesTasks
  <2>2. "WaitingApproval" \notin Terminal
    BY DEF Terminal
  <2>3. ASSUME NEW u \in DOMAIN tasks', tasks'[u].state = "WaitingApproval"
        PROVE  \E a \in DOMAIN pending_operations' :
                 pending_operations'[a].task = u
    <3>1. u # t /\ u \in DOMAIN tasks /\ tasks[u].state = "WaitingApproval"
      BY <1>3, <2>2, <2>3
    <3>2. PICK a \in DOMAIN pending_operations : pending_operations[a].task = u
      BY <3>1 DEF AgreeInv, ApprovalsAgree, PendingMatchesTasks
    <3> QED BY <1>4, <3>1, <3>2
  <2> QED BY <2>1, <2>3 DEF PendingMatchesTasks
<1>10. GrantsMatchTasks'
  <2>1. /\ DOMAIN approved_operations' \subseteq DOMAIN approved_operations
        /\ \A o \in DOMAIN approved_operations' :
             approved_operations'[o] = approved_operations[o]
    BY <1>1 DEF InvalidateApprovals, Without
  <2> QED BY <1>3, <1>4, <2>1 DEF AgreeInv, ApprovalsAgree, GrantsMatchTasks
<1> QED BY <1>2, <1>3, <1>7, <1>8, <1>9, <1>10
        DEF AgreeInv, ApprovalsAgree, LiveTasksLogged

\* The lifecycle calls keep the views of approvals in agreement.
LEMMA LifecycleAgree == AgreeInv /\ Lifecycle => ApprovalsAgree' /\ LiveTasksLogged'
<1> SUFFICES ASSUME AgreeInv, NEW t \in TaskIds,
                    \/ \E spec \in Specs : Submit(t, spec)
                    \/ Start(t)
                    \/ Succeed(t)
                    \/ Fail(t)
                    \/ FailBudgetExceeded(t)
                    \/ Cancel(t)
             PROVE  ApprovalsAgree' /\ LiveTasksLogged'
  BY DEF Lifecycle
<1>1. ASSUME NEW spec \in Specs, Submit(t, spec)
      PROVE  ApprovalsAgree' /\ LiveTasksLogged'
  <2>1. t \in Nat /\ t \notin DOMAIN tasks
    BY <1>1, BoundsAssumption DEF TaskIds, Submit, IsNewTaskId, AgreeInv,
       LiveTasksLogged
  <2>2. /\ DOMAIN tasks' = DOMAIN tasks \cup {t}
        /\ \A u \in DOMAIN tasks : tasks'[u] = tasks[u]
        /\ tasks'[t].state # "WaitingApproval"
    <3>1. tasks' = Insert(tasks, t, SubmittedTask(spec))
      BY <1>1 DEF Submit
    <3>2. SubmittedTask(spec).state # "WaitingApproval"
      BY DEF SubmittedTask, SubmittedState
    <3> QED BY <3>1, <3>2, <2>1 DEF Insert
  <2>3. UNCHANGED <<authority, pending_operations, approved_operations>>
    BY SMTT(60), <1>1 DEF Submit, approvals
  <2>4. DOMAIN log \subseteq DOMAIN log' /\ t \in DOMAIN log'
    BY SMTT(60), <1>1, AppendKeepsLogs DEF Submit
  <2>5. PendingMatchesAuthority' /\ IndexMatchesAuthority'
    BY <2>3 DEF AgreeInv, ApprovalsAgree, PendingMatchesAuthority,
       IndexMatchesAuthority, IndexExact
  <2>6. PendingMatchesTasks'
    BY <2>1, <2>2, <2>3 DEF AgreeInv, ApprovalsAgree, PendingMatchesTasks
  <2>7. GrantsMatchTasks'
    BY SMTT(60), <2>2, <2>3 DEF AgreeInv, ApprovalsAgree, GrantsMatchTasks
  <2> QED BY <2>2, <2>4, <2>5, <2>6, <2>7
          DEF AgreeInv, ApprovalsAgree, LiveTasksLogged
<1>2. CASE Start(t)
  <2>1. DOMAIN log \subseteq DOMAIN log'
    BY <1>2, AppendKeepsLogs DEF Start
  <2>2. /\ t \in DOMAIN tasks
        /\ DOMAIN tasks' = DOMAIN tasks
        /\ tasks'[t].state = "Running"
        /\ \A u \in DOMAIN tasks \ {t} : tasks'[u] = tasks[u]
    BY <1>2 DEF Start, SetTaskState, AgreeInv, TypeOK, TasksTypeOK, TaskRecord
  <2> QED BY SMTT(60), <1>2, <2>1, <2>2, MoveAgree DEF Start, AgreeInv, approvals
<1>3. {"Succeeded", "Failed", "Cancelled"} \subseteq Terminal
  BY DEF Terminal
<1>4. CASE Succeed(t)
  BY <1>3, <1>4, EndAgree DEF Succeed, Transition
<1>5. CASE Fail(t)
  BY <1>3, <1>5, EndAgree DEF Fail, Transition
<1>6. CASE FailBudgetExceeded(t)
  BY <1>3, <1>6, EndAgree DEF FailBudgetExceeded
<1>7. CASE Cancel(t)
  BY <1>3, <1>7, EndAgree DEF Cancel
<1> QED BY <1>1, <1>2, <1>4, <1>5, <1>6, <1>7

\* So do the end of the process and recover, which start from none.
LEMMA RestartAgree == AgreeInv /\ Restart => ApprovalsAgree' /\ LiveTasksLogged'
<1> SUFFICES ASSUME AgreeInv, Restart PROVE ApprovalsAgree' /\ LiveTasksLogged'
  OBVIOUS
<1>1. CASE Crash
  BY <1>1 DEF Crash, ApprovalsAgree, LiveTasksLogged, PendingMatchesAuthority,
     IndexMatchesAuthority, IndexExact, PendingMatchesTasks, GrantsMatchTasks,
     EmptyAuthority, EmptyMap
<1>2. CASE RecoverSnapshots
  BY <1>2, UntouchedAgree DEF RecoverSnapshots, AgreeInv, approvals
<1>3. ASSUME NEW t \in TaskIds, RecoverInterrupted(t)
      PROVE  ApprovalsAgree' /\ LiveTasksLogged'
  BY <1>3, UntouchedAgree, AppendKeepsLogs
     DEF RecoverInterrupted, AgreeInv, approvals
<1>4. CASE RecoveryDone
  BY <1>4, UntouchedAgree DEF RecoveryDone, AgreeInv, volatile
<1> QED BY <1>1, <1>2, <1>3, <1>4 DEF Restart

=============================================================================

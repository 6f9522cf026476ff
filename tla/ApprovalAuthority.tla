------------------------- MODULE ApprovalAuthority -------------------------
(***************************************************************************)
(* The authority that holds pending approval requests and hands out        *)
(* one-time grants: aios-runtime/src/approval.rs.                          *)
(*                                                                         *)
(* The authority is a value with the two maps of the struct,               *)
(*   pending          approval id -> the operation it is for               *)
(*   operation_index  <<task, operation>> -> approval id                   *)
(* and the methods are operators on it, so that a caller can undo one.     *)
(*                                                                         *)
(* A deadline is a lifetime chosen by the caller added to the monotonic    *)
(* clock, so deadlines pass in any order and never come back.  The set of  *)
(* approval ids whose deadline has passed stands for the clock: now >=     *)
(* deadline is membership.  A grant keeps the deadline of its request.     *)
(***************************************************************************)
EXTENDS Maps, Naturals, FiniteSets

CONSTANTS MaxPending,   \* max_pending
          MaxTtl        \* max_ttl, in milliseconds

ASSUME MaxPendingAssumption == MaxPending \in Nat \ {0}
ASSUME MaxTtlAssumption == MaxTtl \in Nat \ {0}

EmptyAuthority == [pending |-> EmptyMap, operation_index |-> EmptyMap]

\* The lifetimes a caller can ask for: both refused ends and the middle.
Ttl == {0, 1, MaxTtl, MaxTtl + 1}

ValidTtl(ttl) == 1 <= ttl /\ ttl <= MaxTtl

\* The two insertions that request makes, and that restore makes again.
AddPending(auth, approval, p) ==
  [pending |-> Insert(auth.pending, approval, p),
   operation_index |->
     Insert(auth.operation_index, <<p.task, p.operation>>, approval)]

\* request, when it is not refused.
CanRequest(auth, task, operation, ttl) ==
  /\ ValidTtl(ttl)
  /\ <<task, operation>> \notin DOMAIN auth.operation_index
  /\ Cardinality(DOMAIN auth.pending) < MaxPending
Request(auth, approval, task, operation, action) ==
  AddPending(auth, approval,
             [task |-> task, operation |-> operation, action |-> action])

Remove(auth, approval) ==
  IF approval \notin DOMAIN auth.pending THEN auth
  ELSE LET p == auth.pending[approval]
       IN  [pending |-> Without(auth.pending, {approval}),
            operation_index |->
              Without(auth.operation_index, {<<p.task, p.operation>>})]

Contains(auth, approval) == approval \in DOMAIN auth.pending

Revoke(auth, approval) == Remove(auth, approval)

ExpiredIds(auth, passed) == DOMAIN auth.pending \cap passed

\* approve: the request becomes a grant with the same scope.
CanApprove(auth, approval, passed) ==
  Contains(auth, approval) /\ approval \notin passed
\* Mutant: the grant is not bound to the action.
GrantOfAnyAction(auth, approval) ==
  [approval |-> approval,
   task |-> auth.pending[approval].task,
   operation |-> auth.pending[approval].operation]
GrantOf(auth, approval) ==
  [approval |-> approval,
   task |-> auth.pending[approval].task,
   operation |-> auth.pending[approval].operation,
   action |-> auth.pending[approval].action]

\* Mutant: the index is not restored.
RestoreOnlyPending(auth, grant) ==
  [auth EXCEPT !.pending =
     Insert(auth.pending, grant.approval,
            [task |-> grant.task, operation |-> grant.operation,
             action |-> grant.action])]

\* ApprovalGrant::restore.
Restore(auth, grant) ==
  AddPending(auth, grant.approval,
             [task |-> grant.task, operation |-> grant.operation,
              action |-> grant.action])

\* ApprovalGrant::authorize succeeds.
Authorizes(grant, task, operation, action, passed) ==
  /\ grant.approval \notin passed
  /\ grant.task = task
  /\ grant.operation = operation
  /\ grant.action = action

-----------------------------------------------------------------------------
\* operation_index is the exact inverse of pending: no request is left that
\* the index does not find, and no entry points at a request that is gone.
IndexExact(auth) ==
  /\ \A a \in DOMAIN auth.pending :
       LET key == <<auth.pending[a].task, auth.pending[a].operation>>
       IN  key \in DOMAIN auth.operation_index /\ auth.operation_index[key] = a
  /\ \A key \in DOMAIN auth.operation_index :
       LET a == auth.operation_index[key]
       IN  /\ a \in DOMAIN auth.pending
           /\ key = <<auth.pending[a].task, auth.pending[a].operation>>

=============================================================================

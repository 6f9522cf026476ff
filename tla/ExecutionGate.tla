--------------------------- MODULE ExecutionGate ---------------------------
(***************************************************************************)
(* The execution gates in front of the adapters: aios-runtime/src/         *)
(* execution.rs, composed with the supervisor whose approval calls only    *)
(* they make.  Each adapter has a gate of its own; all share one           *)
(* supervisor, which a gate borrows for the whole of a call.               *)
(*                                                                         *)
(* A gate call is a sequence of supervisor calls followed by the adapter's *)
(* execute.  Its arguments and the gate it goes through are read after the *)
(* sweep of the first supervisor call, which leaves the gates alone, so    *)
(* they are chosen there.  Between authorization and execute "turn" holds  *)
(* the operation the call owns.                                            *)
(***************************************************************************)
EXTENDS Supervisor

CONSTANTS Gates,        \* one per adapter
          OwnerEnds     \* whether the owner ends Tasks past the gates

ASSUME OwnerEndsAssumption == OwnerEnds \in BOOLEAN

VARIABLES
  gates,      \* gate -> [pending, approval_index]
  turn,       \* the operation on its way to its adapter, or NoTurn
  executed    \* Task id -> the operations adapters were called with, in order

gateVars == <<gates, turn, executed>>
allVars == <<vars, gateVars>>

NoTurn == [at |-> "none"]
Free == turn = NoTurn

\* An operation that needed no approval has no id of its own.
Unnumbered == 0

EmptyGate == [pending |-> EmptyMap, approval_index |-> EmptyMap]

Executed(t) == IF t \in DOMAIN executed THEN executed[t] ELSE <<>>

-----------------------------------------------------------------------------
(***************************************************************************)
(* The private helpers of the gate.                                        *)
(***************************************************************************)
Retain(gate, approval, pending) ==
  [pending |-> Insert(gate.pending, pending.operation, pending),
   approval_index |-> Insert(gate.approval_index, approval, pending.operation)]

\* Mutant: the retained operation stays.
RemovePendingFromIndex(gate, approval) ==
  [gate EXCEPT !.approval_index = Without(gate.approval_index, {approval})]
RemovePending(gate, approval) ==
  [pending |-> Without(gate.pending, {gate.approval_index[approval]}),
   approval_index |-> Without(gate.approval_index, {approval})]

RemoveTasks(gate, S) ==
  LET gone == {o \in DOMAIN gate.pending : gate.pending[o].task \in S}
  IN  [pending |-> Without(gate.pending, gone),
       approval_index |->
         Without(gate.approval_index, {gate.pending[o].approval : o \in gone})]

\* Mutant: every Task that is not waiting is purged.
PurgeNotWaiting(gate) ==
  RemoveTasks(gate, {t \in Known : StateOf(t) # "WaitingApproval"})
PurgeTerminal(gate) == RemoveTasks(gate, {t \in Known : IsTerminal(StateOf(t))})

\* The operation a call names, if the gate retains it.
Retains(g, approval) ==
  /\ approval \in DOMAIN gates[g].approval_index
  /\ gates[g].approval_index[approval] \in DOMAIN gates[g].pending

ToAdapter(t, o) == [at |-> "execute", task |-> t, operation |-> o]

-----------------------------------------------------------------------------
(***************************************************************************)
(* The calls.                                                              *)
(***************************************************************************)
GateInit ==
  /\ Init
  /\ gates = [g \in Gates |-> EmptyGate]
  /\ turn = NoTurn
  /\ executed = EmptyMap

\* A gate calls the supervisor, which begins to sweep.  An approval the gate
\* does not know is refused before that.
GateCall(c) ==
  /\ Free
  /\ c \in {"approve_operation", "deny_operation"} =>
       \E g \in Gates, a \in ApprovalIds :
         a \in DOMAIN gates[g].approval_index
  /\ BeginCall(c)
  /\ UNCHANGED gateVars

GateExpireNext(a) == ExpireNext(a) /\ UNCHANGED gateVars
GateSweepFails == SweepFails /\ UNCHANGED gateVars

\* request, approve_and_execute or deny returns the supervisor's error.
GateReturnsError(c) ==
  /\ c # "expire_approvals"
  /\ ReturnUnchanged(c)
  /\ UNCHANGED gateVars

\* request: allowed, denied, or retained until it is approved.
GateRequestDecided(t, request) ==
  /\ RequestDecided(t, request)
  /\ turn' = IF Evaluate(tasks[t].spec, request) = "Allow"
             THEN ToAdapter(t, Unnumbered) ELSE NoTurn
  /\ UNCHANGED <<gates, executed>>

GateRequestRetained(g, t, request, ttl) ==
  /\ RequestApproval(t, request, ttl)
  /\ gates' = [gates EXCEPT ![g] =
                 Retain(gates[g], issued + 1,
                        [task |-> t, approval |-> issued + 1,
                         operation |-> issued + 1, request |-> request])]
  /\ UNCHANGED <<turn, executed>>

GateRequestAuditFails(t, request, ttl) ==
  /\ RequestApprovalAuditFails(t, request, ttl)
  /\ UNCHANGED gateVars

\* approve_and_execute, first half: approve_operation and remove_pending.
GateApprove(g, a) ==
  /\ Retains(g, a)
  /\ ApproveOperation(a)
  /\ gates' = [gates EXCEPT ![g] = RemovePending(gates[g], a)]
  /\ LET p == gates[g].pending[gates[g].approval_index[a]]
     IN  turn' = [at |-> "authorize", task |-> p.task,
                  operation |-> gates[g].approval_index[a],
                  request |-> p.request]
  /\ UNCHANGED executed

GateApproveAuditFails(g, a) ==
  /\ Retains(g, a)
  /\ ApproveOperationAuditFails(a)
  /\ UNCHANGED gateVars

\* Second half: authorize_operation, whose failure drops the operation.
GateAuthorize ==
  /\ turn.at = "authorize"
  /\ AuthorizeOperation(turn.task, turn.operation, turn.request)
  /\ turn' = ToAdapter(turn.task, turn.operation)
  /\ UNCHANGED <<gates, executed>>

\* Mutant: the adapter is called whatever authorize_operation returned.
GateAuthorizeIgnored ==
  /\ turn.at = "authorize"
  /\ AuthorizeOperationFails(turn.task, turn.operation)
  /\ turn' = ToAdapter(turn.task, turn.operation)
  /\ UNCHANGED <<gates, executed>>
GateAuthorizeFails ==
  /\ turn.at = "authorize"
  /\ AuthorizeOperationFails(turn.task, turn.operation)
  /\ turn' = NoTurn
  /\ UNCHANGED <<gates, executed>>

\* The adapter's execute, whatever it returns.
\* Mutant: the operation is borrowed, not moved, and may be executed again.
GateExecuteBorrowed ==
  /\ turn.at = "execute"
  /\ Len(Executed(turn.task)) < MaxApprovalId
  /\ executed' = Insert(executed, turn.task,
                        Append(Executed(turn.task), turn.operation))
  /\ UNCHANGED <<vars, gates, turn>>
GateExecute ==
  /\ turn.at = "execute"
  /\ executed' = Insert(executed, turn.task,
                        Append(Executed(turn.task), turn.operation))
  /\ turn' = NoTurn
  /\ UNCHANGED <<vars, gates>>

GateDeny(g, a) ==
  /\ a \in DOMAIN gates[g].approval_index
  /\ DenyOperation(a)
  /\ gates' = [gates EXCEPT ![g] = RemovePending(gates[g], a)]
  /\ UNCHANGED <<turn, executed>>

\* expire: the sweep has ended.
GateExpire(g) ==
  /\ ReturnUnchanged("expire_approvals")
  /\ gates' = [gates EXCEPT ![g] = PurgeTerminal(gates[g])]
  /\ UNCHANGED <<turn, executed>>

\* cancel, which removes the operations of a Task that had ended as well.
GateCancel(g, t) ==
  /\ Free
  /\ \/ Cancel(t)
     \/ /\ Idle /\ t \in Known /\ IsTerminal(StateOf(t))
        /\ UNCHANGED vars
  /\ gates' = [gates EXCEPT ![g] = RemoveTasks(gates[g], {t})]
  /\ UNCHANGED <<turn, executed>>

-----------------------------------------------------------------------------
\* Calls of the supervisor by its owner, past the gates.
DirectCall ==
  /\ Free
  /\ \E t \in TaskIds :
       \/ \E spec \in Specs : Submit(t, spec)
       \/ Start(t)
       \/ /\ OwnerEnds
          /\ Succeed(t) \/ Fail(t) \/ FailBudgetExceeded(t) \/ Cancel(t)
  /\ UNCHANGED gateVars

GateDeadlinePasses ==
  (\E a \in ApprovalIds : DeadlinePasses(a)) /\ UNCHANGED gateVars

\* The gates and the call in progress die with the process.
GateRestart ==
  \/ /\ Crash
     /\ gates' = [g \in Gates |-> EmptyGate]
     /\ turn' = NoTurn
     /\ UNCHANGED executed
  \/ /\ \/ RecoverSnapshots
        \/ \E t \in TaskIds : RecoverInterrupted(t)
        \/ RecoveryDone
     /\ UNCHANGED gateVars

GateNext ==
  \/ \E c \in SweepingCall : GateCall(c) \/ GateReturnsError(c)
  \/ \E a \in ApprovalIds : GateExpireNext(a)
  \/ GateSweepFails
  \/ \E t \in TaskIds, request \in Requests :
       \/ GateRequestDecided(t, request)
       \/ \E ttl \in Ttl :
            \/ \E g \in Gates : GateRequestRetained(g, t, request, ttl)
            \/ GateRequestAuditFails(t, request, ttl)
  \/ \E g \in Gates, a \in ApprovalIds :
       GateApprove(g, a) \/ GateApproveAuditFails(g, a) \/ GateDeny(g, a)
  \/ GateAuthorize
  \/ GateAuthorizeFails
  \/ GateExecute
  \/ \E g \in Gates : GateExpire(g) \/ \E t \in TaskIds : GateCancel(g, t)
  \/ DirectCall
  \/ GateDeadlinePasses
  \/ GateRestart

GateSpec == GateInit /\ [][GateNext]_allVars

-----------------------------------------------------------------------------
(***************************************************************************)
(* Properties.                                                             *)
(***************************************************************************)
\* The two maps of a gate are inverse to each other, through every order of
\* approve, deny, expire, cancel and sweeps caused by other gates' calls.
GateIndexExact ==
  \A g \in Gates :
    /\ \A o \in DOMAIN gates[g].pending :
         LET a == gates[g].pending[o].approval
         IN  a \in DOMAIN gates[g].approval_index
             /\ gates[g].approval_index[a] = o
    /\ \A a \in DOMAIN gates[g].approval_index :
         LET o == gates[g].approval_index[a]
         IN  o \in DOMAIN gates[g].pending /\ gates[g].pending[o].approval = a

\* Every request the supervisor holds is retained, by exactly one gate, with
\* the same Task and request: no approval is asked for an operation that can
\* no longer be executed, or that two adapters would execute.  What a gate
\* retains beyond that belongs to a Task that has ended, so the next purge of
\* that gate drops it.
RetainedMatchPending ==
  /\ \A a \in DOMAIN pending_operations :
       LET p == pending_operations[a]
       IN  \E g \in Gates :
             /\ p.operation \in DOMAIN gates[g].pending
             /\ gates[g].pending[p.operation] =
                  [task |-> p.task, approval |-> a, operation |-> p.operation,
                   request |-> p.request]
             /\ \A h \in Gates \ {g} :
                  p.operation \notin DOMAIN gates[h].pending
  /\ \A g \in Gates : \A o \in DOMAIN gates[g].pending :
       LET r == gates[g].pending[o]
       IN  r.approval \in DOMAIN pending_operations
           \/ (r.task \in Known /\ IsTerminal(StateOf(r.task)))

\* The operations of a Task that its log says were authorized, in order.
Authorized(t) ==
  LET events == SelectSeq(log[t], LAMBDA e :
                  e.type \in {"OperationAllowed", "ApprovalConsumed"})
  IN  [i \in DOMAIN events |-> IF events[i].type = "OperationAllowed"
                               THEN Unnumbered ELSE events[i].operation]

\* Adapters run what the audit log authorizes, in that order and nothing else:
\* an operation runs after its OperationAllowed or ApprovalConsumed event is
\* stored, and while the process lives each such event is followed by its run.
\* A crash can cost the last one its run; no restart runs it again.
ExecutionIsAudited ==
  /\ DOMAIN executed \subseteq DOMAIN log
  /\ \A t \in DOMAIN log :
       LET onItsWay == IF turn.at = "execute" /\ turn.task = t
                       THEN <<turn.operation>> ELSE <<>>
           lost == Len(Authorized(t)) - Len(Executed(t))
       IN  IF t \in DOMAIN tasks
           THEN Executed(t) \o onItsWay = Authorized(t)
           ELSE /\ lost \in {0, 1}
                /\ Executed(t) = SubSeq(Authorized(t), 1, Len(Executed(t)))

\* An operation reaches its adapter only while its Task runs: whatever ended
\* the Task between the request and the execution has taken the operation away.
ExecutesOnlyWhileRunning ==
  turn # NoTurn => turn.task \in DOMAIN tasks /\ StateOf(turn.task) = "Running"

\* A grant lives only inside approve_and_execute: it is spent or lost by the
\* authorization that follows the approval at once, which always finds it, and
\* no return, sweep or end of a Task leaves one behind.
GrantsAreSpentAtOnce ==
  IF turn.at = "authorize"
  THEN /\ DOMAIN approved_operations = {turn.operation}
       /\ MayAuthorize(turn.task, turn.operation)
       /\ approved_operations[turn.operation].task = turn.task
       /\ approved_operations[turn.operation].request = turn.request
  ELSE DOMAIN approved_operations = {}

\* "Pending operation count is bounded by the supervisor's approval authority"
\* (the comment on ExecutionGate): a gate never retains more than max_pending.
RetainedBounded ==
  \A g \in Gates : Cardinality(DOMAIN gates[g].pending) <= MaxPending

\* How often an adapter was called with operation o, and whether the log says
\* that its grant was consumed.
Runs(o) ==
  Cardinality(UNION {{<<t, i>> : i \in {j \in DOMAIN executed[t] :
                                         executed[t][j] = o}} :
                     t \in DOMAIN executed})
Consumed(o) ==
  \E t \in DOMAIN log : \E i \in DOMAIN log[t] :
    log[t][i].type = "ApprovalConsumed" /\ log[t][i].operation = o

\* The stage an operation has reached: every operation is born with an id,
\* waits while its request is pending, is granted while the grant is unused,
\* and is spent once its consumption is stored and until the adapter has run.
LifeOf(o) ==
  CASE Runs(o) > 1 -> "run again"
    [] Runs(o) = 1 -> "run"
    [] turn.at = "execute" /\ turn.operation = o /\ Consumed(o) -> "spent"
    [] o \in DOMAIN approved_operations -> "granted"
    [] \E a \in DOMAIN pending_operations :
         pending_operations[a].operation = o -> "waiting"
    [] o > issued -> "unborn"
    [] OTHER -> "lost"

Lives == INSTANCE OperationLives
  WITH Operation <- ApprovalIds, life <- [o \in ApprovalIds |-> LifeOf(o)]

\* The gates and the supervisor implement OperationLives: whatever fails or
\* dies in between, no operation runs twice or without its grant, none that
\* was denied, expired, revoked or lost comes back.
OperationsAreLinear == Lives!LinearLives

=============================================================================

------------------------ MODULE SupervisorProperties ------------------------
(***************************************************************************)
(* What the supervisor promises of its logs, its capacity and its keys:    *)
(* the properties that relate what it holds in memory to what it has       *)
(* recorded, and to what a later process makes of it.                      *)
(***************************************************************************)
EXTENDS Supervisor

\* The state the log of a Task ends in.
DurableState(t) == StateAfter(Events(t), Len(Events(t)))

\* A state the supervisor reports is one it has recorded: while it serves, it
\* knows exactly the Tasks that have a log, and the last transition of the log
\* is to the state it holds (state changes only after the append succeeds).
DurableStateAgrees ==
  mode = "serving" =>
    /\ Known = DOMAIN log
    /\ DOMAIN tasks \cap DOMAIN recovered_tasks = {}
    /\ \A t \in Known : DurableState(t) = StateOf(t)

\* Every log can be replayed at the next start, to the state reported now
\* (recover_snapshot accepts whatever the supervisor appends).
LogsRecoverable ==
  \A t \in DOMAIN log :
    /\ RecoverSnapshot(log[t]) # "Corrupt"
    /\ mode = "serving" => RecoverSnapshot(log[t]) = StateOf(t)

\* What the log of a Task says about one approval, in order.
ApprovalEvents(t, a) ==
  SelectSeq(log[t], LAMBDA e : e.type \in ApprovalEventType /\ e.approval = a)
ApprovalTrace(t, a) ==
  LET events == ApprovalEvents(t, a)
  IN  [i \in DOMAIN events |-> events[i].type]

LegalTraces ==
  {<<>>} \cup
  {<<"ApprovalRequested">> \o rest :
     rest \in {<<>>, <<"ApprovalDenied">>, <<"ApprovalExpired">>,
               <<"ApprovalRevoked">>, <<"ApprovalGranted">>,
               <<"ApprovalGranted", "ApprovalConsumed">>,
               <<"ApprovalGranted", "ApprovalRevoked">>}}

\* Every approval lives one life in the audit log, in one Task, for one
\* operation: requested once, then at most one of denied, expired, revoked or
\* granted, and a grant consumed or revoked at most once.
ApprovalsAreLinear ==
  \A a \in 1..issued :
    /\ \A t \in DOMAIN log :
         /\ ApprovalTrace(t, a) \in LegalTraces
         /\ \A i, j \in DOMAIN ApprovalEvents(t, a) :
              ApprovalEvents(t, a)[i].operation
                = ApprovalEvents(t, a)[j].operation
    /\ Cardinality({t \in DOMAIN log : ApprovalTrace(t, a) # <<>>}) = 1

\* The authority in memory is what the audit log says is outstanding: while
\* the supervisor serves, the requests of its live Tasks that the log leaves
\* open are exactly the pending ones, and an unused grant is one the log
\* records as granted, to that Task, and not yet as used or revoked.
AuthorityIsAudited ==
  mode = "serving" =>
    /\ \A t \in DOMAIN tasks, a \in 1..issued :
         (ApprovalTrace(t, a) = <<"ApprovalRequested">>) <=> (a \in PendingOf(t))
    /\ \A o \in DOMAIN approved_operations :
         ApprovalTrace(approved_operations[o].task,
                       approved_operations[o].grant.approval)
           = <<"ApprovalRequested", "ApprovalGranted">>

\* No step rewrites a log, and a Task that has ended stays as it is for good:
\* not a late approval, a sweep, a second cancellation or a restart adds an
\* event to it (is_terminal in cancel, in transition_to and in recover).
TerminalIsFinal ==
  [][\A t \in DOMAIN log :
       /\ t \in DOMAIN log'
       /\ Len(log[t]) <= Len(log'[t])
       /\ SubSeq(log'[t], 1, Len(log[t])) = log[t]
       /\ DurableState(t) \in Terminal => log'[t] = log[t]]_vars

\* Once the supervisor serves, every Task of an earlier process has ended, so
\* nothing of what was interrupted can still run (the loop in recover).
RecoveredTasksHaveEnded ==
  mode = "serving" =>
    \A t \in DOMAIN recovered_tasks : IsTerminal(recovered_tasks[t])

\* No number of restarts takes the store over max_tasks, so that the capacity
\* test in recover never refuses what the same supervisor has written.
TaskCapacityKept == Cardinality(DOMAIN log) <= MaxTasks

\* The keys of the live Tasks and the Tasks of the known keys are one to one:
\* a retried submission finds its Task, and two Tasks never share a key.
IdempotencyIndexExact ==
  /\ \A k \in DOMAIN idempotency_index :
       /\ idempotency_index[k] \in DOMAIN tasks
       /\ tasks[idempotency_index[k]].spec.key = k
  /\ \A t \in DOMAIN tasks :
       /\ tasks[t].spec.key \in DOMAIN idempotency_index
       /\ idempotency_index[tasks[t].spec.key] = t

\* A Task never waits for an approval for ever: it is decided, its deadline
\* is swept, it ends, or a restart fails it, however often the process dies
\* and however many sweeps are cut short by another Task's append.
WaitingEnds ==
  \A t \in TaskIds :
    DurableState(t) = "WaitingApproval"
      ~> DurableState(t) # "WaitingApproval"

\* When a Task ends nothing of its authority is left: "every terminal
\* transition record[s] approval_revoked before invalidating pending requests
\* and unused grants" (docs/approval-grants.md).
NoAuthorityAfterEnd ==
  \A t \in DOMAIN tasks :
    IsTerminal(tasks[t].state) => PendingOf(t) = {} /\ ApprovedOf(t) = {}

=============================================================================

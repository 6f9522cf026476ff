---------------------------- MODULE AgentRuntime ----------------------------
(***************************************************************************)
(* The synchronous single-Task Agent: aios-agent/src/lib.rs, composed with *)
(* its Tool and Network gates and the supervisor.                          *)
(*                                                                         *)
(* A call of the Agent borrows the supervisor until it returns; "stage" is *)
(* how far it has come, and between two stages only time passes or the     *)
(* process dies.  Between calls the owner of both may submit and end Tasks *)
(* by itself.  The model decides freely; its decisions are abstracted to   *)
(* their kind and the request they lead to.                                *)
(***************************************************************************)
EXTENDS ExecutionGate, SupervisorProperties

CONSTANTS MaxSteps,          \* config.max_steps
          ToolGate,          \* the gate that pending_adapter defaults to
          AdapterRequests    \* gate -> the requests its operations make

ASSUME MaxStepsAssumption == MaxSteps \in Nat \ {0}
ASSUME ToolGateAssumption == ToolGate \in Gates

VARIABLES
  active,     \* the session: [task, next_step, pending], or NoSession
  stage,      \* where the call in progress is
  overrun,    \* Tasks whose wall time since started_at is used up
  abandoned   \* Tasks a call has let go of without ending them

agentVars == <<active, stage, overrun, abandoned>>
world == <<allVars, agentVars>>

NoSession == [task |-> 0]
NoApproval == [approval |-> 0]
At(where) == [at |-> where]
Through(where, gate) == [at |-> where, adapter |-> gate]
Resting == stage = At("idle") /\ Free

PendingAdapter ==
  IF active = NoSession \/ active.pending = NoApproval
  THEN ToolGate ELSE active.pending.adapter

\* require_pending.
AwaitsApproval(a) == active # NoSession /\ active.pending.approval = a

-----------------------------------------------------------------------------
AgentInit ==
  /\ GateInit
  /\ active = NoSession
  /\ stage = At("idle")
  /\ overrun = {}
  /\ abandoned = {}

\* start, up to the new session.  start_execution sets started_at.
AgentStart(t) ==
  /\ Resting
  /\ active = NoSession
  /\ Start(t)
  /\ stage' = [at |-> "starting", task |-> t]
  /\ overrun' = overrun \ {t}
  /\ UNCHANGED <<gateVars, active, abandoned>>

SessionStarts ==
  /\ stage.at = "starting"
  /\ active' = [task |-> stage.task, next_step |-> 1, pending |-> NoApproval]
  /\ stage' = At("looping")
  /\ UNCHANGED <<allVars, overrun, abandoned>>

\* What ends a Task may fail to be recorded; the call lets go of it anyway.
EndOrAbandon(t, End) ==
  \/ End /\ UNCHANGED abandoned
  \/ UNCHANGED vars /\ abandoned' = abandoned \cup {t}

SessionRefused ==
  /\ stage.at = "starting"
  /\ EndOrAbandon(stage.task, Fail(stage.task))
  /\ stage' = At("idle")
  /\ UNCHANGED <<gateVars, active, overrun>>

\* fail_active and fail_budget_active, in the call that ends with them.
\* Mutant: fail_active tries again until the failure is recorded.
FailActiveRetries ==
  /\ stage.at = "failing"
  /\ Fail(active.task)
  /\ active' = NoSession
  /\ stage' = At("idle")
  /\ UNCHANGED <<gateVars, overrun, abandoned>>
FailActive ==
  /\ stage.at = "failing"
  /\ active' = NoSession
  /\ EndOrAbandon(active.task, Fail(active.task))
  /\ stage' = At("idle")
  /\ UNCHANGED <<gateVars, overrun>>

FailBudgetActive ==
  /\ stage.at = "over budget"
  /\ active' = NoSession
  /\ EndOrAbandon(active.task, FailBudgetExceeded(active.task))
  /\ stage' = At("idle")
  /\ UNCHANGED <<gateVars, overrun>>

-----------------------------------------------------------------------------
(***************************************************************************)
(* drive.                                                                  *)
(***************************************************************************)
\* execution_context and the wall time that remains.
AfterWallTimeCheck(next) ==
  IF StateOf(active.task) # "Running" THEN At("idle")
  ELSE IF active.task \in overrun THEN At("over budget")
  ELSE next

\* Mutant: the limit on the turns is off by one.
DriveTopLate ==
  /\ stage.at = "looping"
  /\ stage' = AfterWallTimeCheck(IF active.next_step > MaxSteps + 1
                                 THEN At("failing") ELSE At("deciding"))
  /\ UNCHANGED <<allVars, active, overrun, abandoned>>
DriveTop ==
  /\ stage.at = "looping"
  /\ stage' = AfterWallTimeCheck(IF active.next_step > MaxSteps
                                 THEN At("failing") ELSE At("deciding"))
  /\ UNCHANGED <<allVars, active, overrun, abandoned>>

ModelFails ==
  /\ stage.at = "deciding"
  /\ stage' = At("failing")
  /\ UNCHANGED <<allVars, active, overrun, abandoned>>

ModelDecides ==
  /\ stage.at = "deciding"
  /\ stage' = AfterWallTimeCheck(At("decided"))
  /\ active' = IF stage' = At("decided")
               THEN [active EXCEPT !.next_step = @ + 1] ELSE active
  /\ UNCHANGED <<allVars, overrun, abandoned>>

ModelFinishes ==
  /\ stage.at = "decided"
  /\ active' = NoSession
  /\ EndOrAbandon(active.task, Succeed(active.task))
  /\ stage' = At("idle")
  /\ UNCHANGED <<gateVars, overrun>>

\* An unknown route, no network gate, arguments the catalog refuses.
InvalidDecision ==
  /\ stage.at = "decided"
  /\ stage' = At("failing")
  /\ UNCHANGED <<allVars, active, overrun, abandoned>>

CallAdapter(g) ==
  /\ stage.at = "decided"
  /\ GateCall("request_operation")
  /\ stage' = Through("requesting", g)
  /\ UNCHANGED <<active, overrun, abandoned>>

\* request of a gate: denied, allowed, or left for an approval.
RequestIsDecided(request) ==
  /\ stage.at = "requesting"
  /\ request \in AdapterRequests[stage.adapter]
  /\ GateRequestDecided(active.task, request)
  /\ stage' = IF turn' = NoTurn THEN At("failing") ELSE stage
  /\ UNCHANGED <<active, overrun, abandoned>>

\* Mutant: every approval is taken for one of the Tool gate.
RequestWaitsOnTool(request) ==
  /\ stage.at = "requesting"
  /\ request \in AdapterRequests[stage.adapter]
  /\ GateRequestRetained(stage.adapter, active.task, request, MaxTtl)
  /\ active' = [active EXCEPT !.pending =
                  [approval |-> issued + 1, adapter |-> ToolGate]]
  /\ stage' = At("idle")
  /\ UNCHANGED <<overrun, abandoned>>
RequestWaits(request) ==
  /\ stage.at = "requesting"
  /\ request \in AdapterRequests[stage.adapter]
  /\ GateRequestRetained(stage.adapter, active.task, request, MaxTtl)
  /\ active' = [active EXCEPT !.pending =
                  [approval |-> issued + 1, adapter |-> stage.adapter]]
  /\ stage' = At("idle")
  /\ UNCHANGED <<overrun, abandoned>>

\* The supervisor's error drops the session, and the Task stays as it is.
RequestFails ==
  /\ stage.at = "requesting"
  /\ \/ GateSweepFails
     \/ GateReturnsError("request_operation")
     \/ \E request \in AdapterRequests[stage.adapter] :
          GateRequestAuditFails(active.task, request, MaxTtl)
  /\ active' = NoSession
  /\ abandoned' = abandoned \cup {active.task}
  /\ stage' = At("idle")
  /\ UNCHANGED overrun

\* The adapter returns.  It refuses to run for a Task that is out of time.
AdapterReturns ==
  /\ GateExecute
  /\ \/ /\ active.task \notin overrun
        /\ active' = [active EXCEPT !.pending = NoApproval]
        /\ stage' = At("looping")
     \/ UNCHANGED active /\ stage' = At("over budget")
     \/ UNCHANGED active /\ stage' = At("failing")
  /\ UNCHANGED <<overrun, abandoned>>

-----------------------------------------------------------------------------
(***************************************************************************)
(* approve_and_resume, deny, expire and cancel.                            *)
(***************************************************************************)
AgentApprove(a) ==
  /\ Resting
  /\ AwaitsApproval(a)
  /\ \/ /\ Retains(active.pending.adapter, a)
        /\ GateCall("approve_operation")
        /\ stage' = At("approving")
     \/ /\ ~Retains(active.pending.adapter, a)   \* OperationNotFound
        /\ stage' = At("failing")
        /\ UNCHANGED allVars
  /\ UNCHANGED <<active, overrun, abandoned>>

ApprovalGoesOn ==
  /\ stage.at = "approving"
  /\ \/ GateApprove(active.pending.adapter, active.pending.approval)
     \/ GateAuthorize
  /\ UNCHANGED agentVars

\* Mutant: a refused approval resumes the session.
ApprovalErrorResumes ==
  /\ stage.at = "approving"
  /\ GateSweepFails \/ GateReturnsError("approve_operation")
  /\ stage' = At("looping")
  /\ UNCHANGED <<active, overrun, abandoned>>
\* Every error of the supervisor leaves the session as it is.
ApprovalFails ==
  /\ stage.at = "approving"
  /\ \/ GateSweepFails
     \/ GateReturnsError("approve_operation")
     \/ GateApproveAuditFails(active.pending.adapter, active.pending.approval)
     \/ GateAuthorizeFails
  /\ stage' = At("idle")
  /\ UNCHANGED <<active, overrun, abandoned>>

AgentDeny(a) ==
  /\ Resting
  /\ AwaitsApproval(a)
  /\ a \in DOMAIN gates[active.pending.adapter].approval_index
  /\ GateCall("deny_operation")
  /\ stage' = At("denying")
  /\ UNCHANGED <<active, overrun, abandoned>>

Denied ==
  /\ stage.at = "denying"
  /\ GateDeny(active.pending.adapter, active.pending.approval)
  /\ active' = NoSession
  /\ stage' = At("idle")
  /\ UNCHANGED <<overrun, abandoned>>

\* Mutant: the session is dropped before the denial is known to be recorded.
DenialDropsSession ==
  /\ stage.at = "denying"
  /\ GateSweepFails \/ GateReturnsError("deny_operation")
  /\ active' = NoSession
  /\ stage' = At("idle")
  /\ UNCHANGED <<overrun, abandoned>>
DenialFails ==
  /\ stage.at = "denying"
  /\ GateSweepFails \/ GateReturnsError("deny_operation")
  /\ stage' = At("idle")
  /\ UNCHANGED <<active, overrun, abandoned>>

\* expire.  wall_time_exceeded is an error for a Task that has ended, and the
\* call returns it.
AgentExpire ==
  /\ Resting
  /\ active # NoSession =>
       /\ active.task \in DOMAIN tasks
       /\ StateOf(active.task) \in {"Running", "WaitingApproval"}
  /\ IF active.task \in overrun
     THEN stage' = Through("overdue", PendingAdapter) /\ UNCHANGED allVars
     ELSE /\ GateCall("expire_approvals")
          /\ stage' = Through("expiring", PendingAdapter)
  /\ UNCHANGED <<active, overrun, abandoned>>

\* A session whose Task is out of time; the gate is swept after that, unless
\* the failure could not be recorded.
OverdueFails ==
  /\ stage.at = "overdue"
  /\ active' = NoSession
  /\ EndOrAbandon(active.task, FailBudgetExceeded(active.task))
  /\ stage' = IF vars' = vars THEN At("idle")
              ELSE Through("purging", stage.adapter)
  /\ UNCHANGED <<gateVars, overrun>>

OverdueSweeps ==
  /\ stage.at = "purging"
  /\ GateCall("expire_approvals")
  /\ stage' = Through("expiring", stage.adapter)
  /\ UNCHANGED <<active, overrun, abandoned>>

Expired ==
  /\ stage.at = "expiring"
  /\ GateExpire(stage.adapter)
  /\ active' = IF active # NoSession /\ IsTerminal(StateOf(active.task))
               THEN NoSession ELSE active
  /\ stage' = At("idle")
  /\ UNCHANGED <<overrun, abandoned>>

ExpiryFails ==
  /\ stage.at = "expiring"
  /\ GateSweepFails
  /\ stage' = At("idle")
  /\ UNCHANGED <<active, overrun, abandoned>>

AgentCancel(t) ==
  /\ Resting
  /\ active # NoSession => active.task = t
  /\ GateCancel(PendingAdapter, t)
  /\ active' = NoSession
  /\ UNCHANGED <<stage, overrun, abandoned>>

-----------------------------------------------------------------------------
\* The owner submits Tasks, and may end them past the Agent.
OwnerCalls ==
  /\ Resting
  /\ \E t \in TaskIds :
       \/ \E spec \in Specs : Submit(t, spec)
       \/ OwnerEnds /\ (Succeed(t) \/ Fail(t) \/ Cancel(t))
  /\ UNCHANGED <<gateVars, agentVars>>

SweepGoesOn ==
  (\E a \in ApprovalIds : GateExpireNext(a)) /\ UNCHANGED agentVars

DeadlinePass == GateDeadlinePasses /\ UNCHANGED agentVars

WallTimePasses(t) ==
  /\ t \in DOMAIN tasks \ overrun
  /\ StateOf(t) \in {"Running", "WaitingApproval"}
  /\ overrun' = overrun \cup {t}
  /\ UNCHANGED <<allVars, active, stage, abandoned>>

AgentRestart ==
  /\ GateRestart
  /\ IF mode' = "down"
     THEN active' = NoSession /\ stage' = At("idle") /\ overrun' = {}
          /\ abandoned' = {}
     ELSE UNCHANGED agentVars

InCall ==
  \/ SessionStarts \/ SessionRefused \/ FailActive \/ FailBudgetActive
  \/ DriveTop \/ ModelFails \/ ModelDecides \/ ModelFinishes
  \/ InvalidDecision
  \/ \E g \in Gates : CallAdapter(g)
  \/ \E request \in Requests : RequestIsDecided(request) \/ RequestWaits(request)
  \/ RequestFails \/ AdapterReturns
  \/ ApprovalGoesOn \/ ApprovalFails \/ Denied \/ DenialFails
  \/ OverdueFails \/ OverdueSweeps \/ Expired \/ ExpiryFails
  \/ SweepGoesOn

AgentNext ==
  \/ \E t \in TaskIds : AgentStart(t) \/ AgentCancel(t) \/ WallTimePasses(t)
  \/ \E a \in ApprovalIds : AgentApprove(a) \/ AgentDeny(a)
  \/ AgentExpire
  \/ InCall
  \/ OwnerCalls
  \/ DeadlinePass
  \/ AgentRestart

AgentSpec == AgentInit /\ [][AgentNext]_world

(***************************************************************************)
(* Fairness: a call that has begun takes its next step, the model and the  *)
(* adapters included; the owner polls expire.                              *)
(***************************************************************************)
FairAgentSpec == AgentSpec /\ WF_world(InCall) /\ SF_world(AgentExpire)

-----------------------------------------------------------------------------
(***************************************************************************)
(* Properties.                                                             *)
(***************************************************************************)
\* Type invariant of the Agent: a session has a live step counter, and the
\* stages that use a session have one.
AgentTypeOK ==
  /\ active = NoSession \/ active.next_step \in 1..(MaxSteps + 1)
  /\ stage.at \notin {"idle", "starting", "purging", "expiring"} =>
       active # NoSession
  /\ overrun \subseteq TaskIds

\* No work without a session: a Task that runs or waits is the one of the
\* session or of the call that starts it, unless a call has let go of it
\* because the store refused its end or the supervisor refused its request.
SessionCoversWork ==
  \A t \in DOMAIN tasks :
    StateOf(t) \in {"Running", "WaitingApproval"} =>
      \/ active.task = t
      \/ stage.at = "starting" /\ stage.task = t
      \/ t \in abandoned

\* What a session waits for can be approved through the gate it remembers: as
\* long as the supervisor holds the request, it is for the Task of the session
\* and that gate retains it.  While the Agent rests, a waiting Task of the
\* session waits for that very approval.
SessionWaitsForRetained ==
  active # NoSession =>
    /\ active.pending # NoApproval /\ active.pending.approval \in DOMAIN pending_operations =>
         /\ pending_operations[active.pending.approval].task = active.task
         /\ Retains(active.pending.adapter, active.pending.approval)
    /\ Resting /\ call = "idle" /\ active.task \in DOMAIN tasks
       /\ StateOf(active.task) = "WaitingApproval" =>
         /\ active.pending # NoApproval
         /\ active.pending.approval \in PendingOf(active.task)

\* The model is asked, and an adapter called, only for a Task that runs: the
\* errors of execution_context inside drive cannot happen.
DrivesRunningTask ==
  stage.at \in {"looping", "deciding", "decided"} =>
    active.task \in DOMAIN tasks /\ StateOf(active.task) = "Running"

\* Every call of the Agent returns: the turns of a session are bounded by
\* max_steps, whatever the model decides and the adapters return.
CallsReturn == stage # At("idle") ~> stage = At("idle")

\* "Expires pending approvals and drops a model session whose Task became
\* terminal" (the comment on expire): when the owner keeps polling expire, a
\* session does not outlive its Task for ever.
EndedSessionsAreDropped ==
  (active # NoSession /\ IsTerminal(DurableState(active.task)))
    ~> (active = NoSession \/ ~IsTerminal(DurableState(active.task)))

=============================================================================

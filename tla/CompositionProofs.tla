------------------------- MODULE CompositionProofs -------------------------
(***************************************************************************)
(* Proofs about the composition: the gates do not make the supervisor do   *)
(* anything that it does not do by itself, so what is proved of every      *)
(* behaviour of the supervisor holds behind them.                          *)
(*                                                                         *)
(* The operation a gate call hands to authorize_operation comes from what  *)
(* the gate retains; that it is one the supervisor knows the type of is an *)
(* invariant, GateTyped, proved together with the type invariant.          *)
(***************************************************************************)
EXTENDS ExecutionGate, SupervisorProofs

Retained == [task : TaskIds, approval : ApprovalIds, operation : ApprovalIds,
             request : Requests]

GateValueTyped(gate) ==
  /\ \A o \in DOMAIN gate.pending : gate.pending[o] \in Retained
  /\ \A a \in DOMAIN gate.approval_index : gate.approval_index[a] \in ApprovalIds

TurnTyped(u) ==
  \/ u = NoTurn
  \/ u.at = "execute"
  \/ u \in [at : {"authorize"}, task : TaskIds, operation : ApprovalIds,
            request : Requests]

GateTyped ==
  /\ DOMAIN gates = Gates
  /\ \A g \in Gates : GateValueTyped(gates[g])
  /\ TurnTyped(turn)

GateInv == TypeOK /\ GateTyped

\* Every step of a gate call is a step of the supervisor, or none.
LEMMA GateStep == GateInv /\ [GateNext]_allVars => [Next]_vars
<1> SUFFICES ASSUME GateInv, [GateNext]_allVars PROVE [Next]_vars
  OBVIOUS
<1> USE DEF Next
<1>1. CASE UNCHANGED allVars
  BY <1>1 DEF allVars
<1>2. ASSUME NEW c \in SweepingCall, GateCall(c) \/ GateReturnsError(c)
      PROVE  Next
  BY <1>2 DEF GateCall, GateReturnsError, Sweeping
<1>3. CASE (\E a \in ApprovalIds : GateExpireNext(a)) \/ GateSweepFails
  BY <1>3 DEF GateExpireNext, GateSweepFails, Sweeping
<1>4. ASSUME NEW t \in TaskIds, NEW request \in Requests,
             \/ GateRequestDecided(t, request)
             \/ \E ttl \in Ttl :
                  \/ \E g \in Gates : GateRequestRetained(g, t, request, ttl)
                  \/ GateRequestAuditFails(t, request, ttl)
      PROVE  Next
  BY SMTT(60), <1>4
     DEF GateRequestDecided, GateRequestRetained, GateRequestAuditFails,
     Approving
<1>5. ASSUME NEW g \in Gates, NEW a \in ApprovalIds,
             GateApprove(g, a) \/ GateApproveAuditFails(g, a) \/ GateDeny(g, a)
      PROVE  Next
  BY <1>5 DEF GateApprove, GateApproveAuditFails, GateDeny, Approving
<1>6. CASE GateAuthorize \/ GateAuthorizeFails
  <2>1. /\ turn.task \in TaskIds
        /\ turn.operation \in ApprovalIds
        /\ turn.request \in Requests
    BY <1>6 DEF GateAuthorize, GateAuthorizeFails, GateInv, GateTyped,
       TurnTyped, NoTurn
  <2> QED BY <1>6, <2>1 DEF GateAuthorize, GateAuthorizeFails, Approving
<1>7. CASE GateExecute
  BY <1>7 DEF GateExecute
<1>8. ASSUME NEW g \in Gates, GateExpire(g) PROVE Next
  BY <1>8 DEF GateExpire, Sweeping, SweepingCall
<1>9. ASSUME NEW g \in Gates, NEW t \in TaskIds, GateCancel(g, t)
      PROVE  [Next]_vars
  BY <1>9 DEF GateCancel, Lifecycle
<1>10. CASE DirectCall
  BY <1>10 DEF DirectCall, Lifecycle
<1>11. CASE GateDeadlinePasses
  BY <1>11 DEF GateDeadlinePasses
<1>12. CASE GateRestart
  BY SMTT(60), <1>12 DEF GateRestart, Restart
<1> QED BY SMTT(60), <1>1, <1>2, <1>3, <1>4, <1>5, <1>6, <1>7, <1>8, <1>9, <1>10, <1>11,
           <1>12
        DEF GateNext

\* What the helpers of a gate do to what it retains.
LEMMA GateHelpersTyped ==
  ASSUME NEW gate, GateValueTyped(gate)
  PROVE  /\ \A a \in ApprovalIds, r \in Retained :
              GateValueTyped(Retain(gate, a, r))
         /\ \A a : GateValueTyped(RemovePending(gate, a))
         /\ \A S : GateValueTyped(RemoveTasks(gate, S))
BY DEF GateValueTyped, Retain, RemovePending, RemoveTasks, Retained, Insert,
   Without

\* One gate changes, to a value of its type.
LEMMA OneGateTyped ==
  ASSUME GateTyped, NEW g \in Gates, NEW new, GateValueTyped(new),
         gates' = [gates EXCEPT ![g] = new], TurnTyped(turn')
  PROVE  GateTyped'
<1>1. DOMAIN gates' = Gates
  BY DEF GateTyped
<1>2. ASSUME NEW h \in Gates PROVE GateValueTyped(gates'[h])
  BY <1>2 DEF GateTyped
<1> QED BY <1>1, <1>2 DEF GateTyped, GateValueTyped, TurnTyped

\* Every gate call leaves well-typed operations behind, retained or on their way.
LEMMA GateTypedStep == GateInv /\ [GateNext]_allVars => GateTyped'
<1> SUFFICES ASSUME GateInv, [GateNext]_allVars PROVE GateTyped'
  OBVIOUS
<1>0. GateTyped /\ TurnTyped(turn)
  BY DEF GateInv, GateTyped
<1>1. ASSUME UNCHANGED gates, TurnTyped(turn') PROVE GateTyped'
  BY <1>0, <1>1 DEF GateTyped, GateValueTyped, TurnTyped
<1>2. ASSUME UNCHANGED gateVars PROVE GateTyped'
  BY <1>0, <1>1, <1>2 DEF gateVars
<1>3. ASSUME NEW t, NEW o, turn' = NoTurn \/ turn' = ToAdapter(t, o)
      PROVE  TurnTyped(turn')
  BY <1>3 DEF TurnTyped, ToAdapter
<1>4. ASSUME NEW t \in TaskIds, NEW request \in Requests, NEW ttl \in Ttl,
             NEW g \in Gates, GateRequestRetained(g, t, request, ttl)
      PROVE  GateTyped'
  <2>1. issued + 1 \in ApprovalIds
    BY <1>4, BoundsAssumption DEF GateRequestRetained, RequestApproval,
       MayRequestApproval, ApprovalIds, GateInv, TypeOK, CallTypeOK
  <2> DEFINE r == [task |-> t, approval |-> issued + 1,
                   operation |-> issued + 1, request |-> request]
  <2>2. r \in Retained
    BY <2>1 DEF Retained
  <2>3. GateValueTyped(Retain(gates[g], issued + 1, r))
    BY <1>0, <2>1, <2>2, GateHelpersTyped DEF GateTyped
  <2> QED BY ZenonT(60), <1>0, <1>4, <2>3, OneGateTyped DEF GateRequestRetained
<1>5. ASSUME NEW g \in Gates, NEW a \in ApprovalIds, GateApprove(g, a)
      PROVE  GateTyped'
  <2> DEFINE o == gates[g].approval_index[a]
             p == gates[g].pending[o]
  <2>1. o \in ApprovalIds /\ p \in Retained
    BY <1>0, <1>5 DEF GateApprove, Retains, GateTyped, GateValueTyped
  <2>2. turn' = [at |-> "authorize", task |-> p.task, operation |-> o,
                 request |-> p.request]
    BY <1>5 DEF GateApprove
  <2> HIDE DEF o, p
  <2>3. TurnTyped(turn')
    BY <2>1, <2>2 DEF TurnTyped, Retained
  <2>4. GateValueTyped(RemovePending(gates[g], a))
    BY <1>0, GateHelpersTyped DEF GateTyped
  <2> QED BY Zenon, <1>0, <1>5, <2>3, <2>4, OneGateTyped DEF GateApprove
<1>6. ASSUME NEW g \in Gates, NEW a \in ApprovalIds, GateDeny(g, a)
      PROVE  GateTyped'
  <2>1. GateValueTyped(RemovePending(gates[g], a))
    BY <1>0, GateHelpersTyped DEF GateTyped
  <2> QED BY Zenon, <1>0, <1>6, <2>1, OneGateTyped DEF GateDeny
<1>7. ASSUME NEW g \in Gates, NEW t \in TaskIds, GateCancel(g, t)
      PROVE  GateTyped'
  <2>1. GateValueTyped(RemoveTasks(gates[g], {t}))
    BY <1>0, GateHelpersTyped DEF GateTyped
  <2> QED BY Zenon, <1>0, <1>7, <2>1, OneGateTyped DEF GateCancel
<1>8. ASSUME NEW g \in Gates, GateExpire(g) PROVE GateTyped'
  <2>1. GateValueTyped(PurgeTerminal(gates[g]))
    BY <1>0, GateHelpersTyped DEF GateTyped, PurgeTerminal
  <2> QED BY Zenon, <1>0, <1>8, <2>1, OneGateTyped DEF GateExpire
<1>9. ASSUME NEW t \in TaskIds, NEW request \in Requests,
             GateRequestDecided(t, request)
      PROVE  GateTyped'
  BY <1>1, <1>3, <1>9 DEF GateRequestDecided
<1>10. CASE GateAuthorize \/ GateAuthorizeFails \/ GateExecute
  BY <1>1, <1>3, <1>10 DEF GateAuthorize, GateAuthorizeFails, GateExecute
<1>11. CASE GateRestart
  <2>1. CASE UNCHANGED gateVars
    BY <1>2, <2>1
  <2>2. CASE gates' = [g \in Gates |-> EmptyGate] /\ turn' = NoTurn
    <3>1. GateValueTyped(EmptyGate)
      BY DEF GateValueTyped, EmptyGate, EmptyMap
    <3> QED BY <2>2, <3>1 DEF GateTyped, GateValueTyped, TurnTyped
  <2> QED BY <1>11, <2>1, <2>2 DEF GateRestart
<1>12. CASE UNCHANGED allVars
  BY <1>2, <1>12 DEF allVars
<1> QED BY SMTT(60), <1>2, <1>4, <1>5, <1>6, <1>7, <1>8, <1>9, <1>10, <1>11, <1>12
        DEF GateNext, GateCall, GateReturnsError, GateExpireNext,
            GateSweepFails, GateRequestAuditFails, GateApproveAuditFails,
            DirectCall, GateDeadlinePasses

\* With the gates in front of it the supervisor behaves as it does alone: a
\* gate only makes calls the supervisor accepts, with arguments it handed out.
THEOREM GateImplementsSupervisor == GateSpec => Spec /\ []GateInv
<1>1. GateInit => Init /\ GateInv
  <2>1. Init => TypeOK
    BY DEF Init, TypeOK, TasksTypeOK, ApprovalsTypeOK, CallTypeOK, EmptyMap,
       EmptyAuthority
  <2>2. GateInit => GateTyped
    BY DEF GateInit, GateTyped, GateValueTyped, TurnTyped, EmptyGate, EmptyMap
  <2> QED BY <2>1, <2>2 DEF GateInit, GateInv
<1>2. GateInv /\ [GateNext]_allVars => [Next]_vars /\ GateInv'
  BY GateStep, GateTypedStep, TypeInductive DEF GateInv
<1> QED BY <1>1, <1>2, PTL DEF GateSpec, Spec

\* The four views of an approval agree in every state of the gates, whichever
\* of their calls fails half way.
THEOREM GateApprovalsCoherent == GateSpec => []ApprovalsAgree
BY GateImplementsSupervisor, ApprovalsCoherent, PTL

============================================================================

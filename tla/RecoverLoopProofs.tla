-------------------------- MODULE RecoverLoopProofs -------------------------
(***************************************************************************)
(* recover_snapshot computes RecoverSnapshot, for logs of every length and *)
(* any set of event kinds.                                                 *)
(***************************************************************************)
EXTENDS RecoverLoop, Integers, WellFoundedInduction, TLAPS

-----------------------------------------------------------------------------
(***************************************************************************)
(* What the operators of TaskEvents return when a log grows.               *)
(***************************************************************************)
\* A set of positions that is not empty has a last one.
LEMMA LastPosition ==
  ASSUME NEW n \in Nat, NEW M \in SUBSET (1..n), M # {}
  PROVE  \E m \in M : \A k \in M : k <= m
<1> DEFINE D == {n - m : m \in M}
<1>1. \A m \in M : m \in 1..n /\ m \in Nat /\ n - m \in Nat
  OBVIOUS
<1>2. D \subseteq Nat /\ D # {}
  BY Zenon, <1>1
<1>3. PICK x \in D : \A y \in D : ~(<<y, x>> \in OpToRel(<, Nat))
  BY <1>2, NatLessThanWellFounded, WFMin, Zenon
<1>4. \A y \in D : ~(y < x)
  BY Zenon, <1>2, <1>3 DEF OpToRel
<1>5. PICK m \in M : x = n - m
  OBVIOUS
<1>6. ASSUME NEW k \in M PROVE k <= m
  <2>1. n - k \in D
    OBVIOUS
  <2>2. ~(n - k < n - m)
    BY <2>1, <1>4, <1>5
  <2> QED BY <2>2, <1>1
<1> QED BY <1>6

\* The state after n events is where the last move among them leads.
LEMMA StateAfterLastMove ==
  ASSUME NEW events, NEW n \in Nat, NEW m \in Moves(events, n),
         \A k \in Moves(events, n) : k <= m
  PROVE  StateAfter(events, n) = Target(events[m])
<1> DEFINE M == Moves(events, n)
           c == CHOOSE i \in M : \A k \in M : k <= i
<1>1. M \subseteq Nat
  BY DEF Moves
<1>2. c \in M /\ \A k \in M : k <= c
  <2> HIDE DEF M
  <2> QED BY Zenon DEF M
<1>3. c = m
  <2> HIDE DEF c
  <2>1. c <= m /\ m <= c
    BY <1>2
  <2>2. c \in Nat /\ m \in Nat
    BY <1>1, <1>2
  <2> QED BY <2>1, <2>2
<1>4. M # {}
  OBVIOUS
<1>5. StateAfter(events, n) = Target(events[c])
  BY <1>4 DEF StateAfter
<1> QED BY Zenon, <1>3, <1>5

\* A log in which nothing moves is still in its first state.
LEMMA StateAfterNoMove ==
  ASSUME NEW events, NEW n \in Nat, Moves(events, n) = {}
  PROVE  StateAfter(events, n) = "None"
BY DEF StateAfter

\* The state after n events depends on those events only.
LEMMA StateAfterPrefix ==
  ASSUME NEW e, NEW f, NEW n \in Nat, \A i \in 1..n : e[i] = f[i]
  PROVE  StateAfter(e, n) = StateAfter(f, n)
<1>1. Moves(e, n) = Moves(f, n)
  BY DEF Moves
<1>2. CASE Moves(e, n) = {}
  BY Zenon, <1>1, <1>2, StateAfterNoMove
<1>3. CASE Moves(e, n) # {}
  <2>1. Moves(e, n) \in SUBSET (1..n)
    BY DEF Moves
  <2>2. PICK m \in Moves(e, n) : \A k \in Moves(e, n) : k <= m
    BY Zenon, <1>3, <2>1, LastPosition
  <2>3. StateAfter(e, n) = Target(e[m])
    BY <2>2, StateAfterLastMove
  <2>4. StateAfter(f, n) = Target(f[m])
    BY <1>1, <2>2, StateAfterLastMove
  <2> QED BY <2>1, <2>3, <2>4
<1> QED BY <1>2, <1>3

\* One more event: a move sets the state, any other event leaves it.
LEMMA StateAfterMove ==
  ASSUME NEW e, NEW n \in Nat,
         e[n + 1].type \in {"Submitted", "StateTransitioned"}
  PROVE  StateAfter(e, n + 1) = Target(e[n + 1])
<1>1. n + 1 \in Moves(e, n + 1) /\ \A k \in Moves(e, n + 1) : k <= n + 1
  BY DEF Moves
<1> QED BY <1>1, StateAfterLastMove

\* An event that is no move leaves the state of the log as it was.
LEMMA StateAfterPass ==
  ASSUME NEW e, NEW n \in Nat,
         e[n + 1].type \notin {"Submitted", "StateTransitioned"}
  PROVE  StateAfter(e, n + 1) = StateAfter(e, n)
<1>1. Moves(e, n + 1) = Moves(e, n)
  BY DEF Moves
<1>2. CASE Moves(e, n) = {}
  BY <1>1, <1>2, StateAfterNoMove
<1>3. CASE Moves(e, n) # {}
  <2>1. Moves(e, n) \in SUBSET (1..n)
    BY DEF Moves
  <2>2. PICK m \in Moves(e, n) : \A k \in Moves(e, n) : k <= m
    BY Zenon, <1>3, <2>1, LastPosition
  <2> QED BY <1>1, <2>2, StateAfterLastMove
<1> QED BY <1>2, <1>3

\* Whether an event is accepted depends on the events up to it only.
LEMMA AcceptedPrefix ==
  ASSUME NEW e, NEW f, NEW n \in Nat, \A i \in 1..n : e[i] = f[i],
         NEW i \in 1..n
  PROVE  Accepted(e, i) <=> Accepted(f, i)
<1>1. i - 1 \in Nat /\ \A j \in 1..(i - 1) : e[j] = f[j]
  OBVIOUS
<1>2. StateAfter(e, i - 1) = StateAfter(f, i - 1)
  BY <1>1, StateAfterPrefix
<1>3. e[i] = f[i] /\ (i > 1 => e[i - 1] = f[i - 1])
  BY <1>1
<1> QED BY <1>2, <1>3 DEF Accepted

\* A log begins with Submitted.
LEMMA FirstAccepted ==
  ASSUME NEW e \in TaskEventKind, Accepts("None", e)
  PROVE  e.type = "Submitted"
<1>1. CASE e.type \in {"Submitted", "ValidationFailed", "OperationAllowed",
                       "OperationDenied"}
  BY Zenon, <1>1 DEF Accepts
<1>2. CASE e.type = "StateTransitioned"
  <2>1. e.from \in TaskState
    BY <1>2 DEF TaskEventKind, ApprovalEventType
  <2>2. e.from = "None"
    BY <1>2 DEF Accepts
  <2> QED BY <2>1, <2>2 DEF TaskState
<1>3. CASE e.type = "TaskFailed"
  BY <1>3 DEF Accepts, TaskState
<1>4. CASE e.type \in ApprovalEventType
  BY Zenon, <1>4 DEF Accepts, ApprovalEventType
<1> QED BY <1>1, <1>2, <1>3, <1>4 DEF TaskEventKind

\* A log whose events are all accepted, and that is not empty, is in a state.
LEMMA AcceptedState ==
  ASSUME NEW e \in Seq(TaskEventKind), e # <<>>,
         \A i \in 1..Len(e) : Accepted(e, i)
  PROVE  StateAfter(e, Len(e)) \in TaskState
<1>1. Len(e) \in Nat /\ Len(e) >= 1 /\ 1 \in 1..Len(e)
  OBVIOUS
<1>2. StateAfter(e, 0) = "None"
  BY StateAfterNoMove DEF Moves
<1>3. Accepts("None", e[1]) /\ e[1] \in TaskEventKind
  BY <1>1, <1>2 DEF Accepted
<1>4. e[1].type = "Submitted"
  BY <1>3, FirstAccepted
<1>5. 1 \in Moves(e, Len(e))
  BY <1>1, <1>4 DEF Moves
<1>6. Moves(e, Len(e)) \in SUBSET (1..Len(e))
  BY DEF Moves
<1>7. PICK m \in Moves(e, Len(e)) : \A k \in Moves(e, Len(e)) : k <= m
  BY Zenon, <1>1, <1>5, <1>6, LastPosition
<1>8. StateAfter(e, Len(e)) = Target(e[m])
  BY <1>1, <1>7, StateAfterLastMove
<1>9. e[m] \in TaskEventKind /\ e[m].type \in {"Submitted", "StateTransitioned"}
  BY <1>7 DEF Moves
<1>10. Target(e[m]) \in TaskState
  BY <1>9 DEF Target, TaskEventKind, TaskState, ApprovalEventType
<1> QED BY <1>8, <1>10

\* What recover_snapshot accepts is in a state of the state machine.
LEMMA RecoveredState ==
  ASSUME NEW e \in Seq(TaskEventKind), RecoverSnapshot(e) # "Corrupt"
  PROVE  /\ WellFormed(e)
         /\ RecoverSnapshot(e) = StateAfter(e, Len(e))
         /\ RecoverSnapshot(e) \in TaskState
BY AcceptedState DEF RecoverSnapshot, WellFormed

-----------------------------------------------------------------------------
(***************************************************************************)
(* The loop.                                                               *)
(***************************************************************************)
\* LoopInvariant is kept by every round, but says nothing of what the loop
\* returns: the strengthening adds the result, and that "seen" is a sequence.
IInv ==
  /\ seen \in Seq(TaskEventKind)
  /\ state \in TaskState \cup {"None"}
  /\ pending_failure \in BOOLEAN
  /\ LoopInvariant
  /\ ReturnsSnapshot

\* The events behind the loop are judged as before when one is appended.
LEMMA AppendKeepsVerdicts ==
  ASSUME NEW e \in Seq(TaskEventKind), NEW k \in TaskEventKind
  PROVE  LET f == Append(e, k)
             n == Len(e)
         IN  /\ f \in Seq(TaskEventKind)
             /\ Len(f) = n + 1 /\ f # <<>>
             /\ f[n + 1] = k
             /\ \A i \in 1..n : f[i] = e[i]
             /\ \A i \in 1..n : Accepted(f, i) <=> Accepted(e, i)
             /\ StateAfter(f, n) = StateAfter(e, n)
<1> DEFINE f == Append(e, k)
           n == Len(e)
<1>1. /\ f \in Seq(TaskEventKind)
      /\ n \in Nat
      /\ Len(f) = n + 1
      /\ f[n + 1] = k
      /\ \A i \in 1..n : f[i] = e[i]
  OBVIOUS
<1>2. f # <<>>
  BY <1>1
<1>3. \A i \in 1..n : Accepted(f, i) <=> Accepted(e, i)
  <2> HIDE DEF f, n
  <2> QED BY Zenon, <1>1, AcceptedPrefix
<1>4. StateAfter(f, n) = StateAfter(e, n)
  <2> HIDE DEF f, n
  <2> QED BY <1>1, StateAfterPrefix
<1> QED BY <1>1, <1>2, <1>3, <1>4

\* A round's tests are those of Accepted.
LEMMA RoundVerdict ==
  ASSUME IInv, Looking, NEW e \in Kinds
  PROVE  LET f == Append(seen, e)
             n == Len(seen)
         IN  /\ StateAfter(f, n) = state
             /\ Accepted(f, n + 1) <=>
                  IF pending_failure THEN e = StateTransitioned(state, "Failed")
                                     ELSE Accepts(state, e)
<1> DEFINE f == Append(seen, e)
           n == Len(seen)
<1>1. seen \in Seq(TaskEventKind) /\ n \in Nat /\ e \in TaskEventKind
  BY KindsAssumption DEF IInv
<1>2. /\ state = StateAfter(seen, n)
      /\ pending_failure <=> seen # <<>> /\ seen[n].type = "TaskFailed"
  BY DEF IInv, LoopInvariant, Looking
<1>3. f[n + 1] = e /\ \A i \in 1..n : f[i] = seen[i]
  BY <1>1, AppendKeepsVerdicts
<1>4. StateAfter(f, n) = state
  BY <1>1, <1>2, AppendKeepsVerdicts
<1>5. pending_failure <=> n + 1 > 1 /\ f[n].type = "TaskFailed"
  <2>1. seen # <<>> <=> n >= 1
    BY <1>1
  <2>2. n >= 1 => f[n] = seen[n]
    BY <1>1, <1>3
  <2> HIDE DEF f, n
  <2> QED BY <1>1, <1>2, <2>1, <2>2
<1>6. (n + 1) - 1 = n
  BY <1>1
<1> HIDE DEF f, n
<1>7. Accepted(f, n + 1) <=>
        IF n + 1 > 1 /\ f[n].type = "TaskFailed"
        THEN e = StateTransitioned(state, "Failed") ELSE Accepts(state, e)
  BY <1>3, <1>4, <1>6 DEF Accepted
<1>8. Accepted(f, n + 1) <=>
        IF pending_failure THEN e = StateTransitioned(state, "Failed")
                           ELSE Accepts(state, e)
  BY <1>5, <1>7
<1> QED BY <1>4, <1>8 DEF f, n

\* A round that goes on keeps the invariant.
LEMMA RoundKeepsInvariant ==
  ASSUME IInv, Looking, NEW e \in Kinds,
         seen' = Append(seen, e), result' = result,
         IF pending_failure THEN e = StateTransitioned(state, "Failed")
                            ELSE Accepts(state, e),
         state' = IF e.type \in {"Submitted", "StateTransitioned"}
                  THEN Target(e) ELSE state,
         state' \in TaskState \cup {"None"},
         pending_failure' = (e.type = "TaskFailed")
  PROVE  IInv'
<1> DEFINE f == Append(seen, e)
           n == Len(seen)
<1>1. seen \in Seq(TaskEventKind) /\ n \in Nat /\ e \in TaskEventKind
  BY KindsAssumption DEF IInv
<1>2. /\ f \in Seq(TaskEventKind)
      /\ Len(f) = n + 1 /\ f # <<>>
      /\ f[n + 1] = e
      /\ \A i \in 1..n : Accepted(f, i) <=> Accepted(seen, i)
  BY <1>1, AppendKeepsVerdicts
<1>3. StateAfter(f, n) = state /\ Accepted(f, n + 1)
  BY RoundVerdict
<1>4. \A i \in 1..n : Accepted(seen, i)
  BY DEF IInv, LoopInvariant, Looking
<1>5. seen' = f /\ result' = "None"
  BY DEF Looking
<1> HIDE DEF f, n
<1>6. \A i \in 1..Len(f) : Accepted(f, i)
  <2> TAKE i \in 1..Len(f)
  <2>1. i \in 1..n \/ i = n + 1
    BY <1>1, <1>2
  <2> QED BY <1>2, <1>3, <1>4, <2>1
<1>7. state' = StateAfter(f, Len(f))
  <2>1. CASE e.type \in {"Submitted", "StateTransitioned"}
    BY <1>1, <1>2, <2>1, StateAfterMove
  <2>2. CASE e.type \notin {"Submitted", "StateTransitioned"}
    BY <1>1, <1>2, <1>3, <2>2, StateAfterPass
  <2> QED BY <2>1, <2>2
<1>8. pending_failure' <=> f # <<>> /\ f[Len(f)].type = "TaskFailed"
  BY Zenon, <1>2
<1>9. LoopInvariant'
  BY <1>5, <1>6, <1>7, <1>8 DEF LoopInvariant
<1>10. ReturnsSnapshot'
  BY <1>5 DEF ReturnsSnapshot
<1> QED BY <1>2, <1>5, <1>9, <1>10 DEF IInv

\* The invariant holds after every step of the loop.
LEMMA LoopInductive == IInv /\ [Next]_loop => IInv'
<1> SUFFICES ASSUME IInv, [Next]_loop PROVE IInv'
  OBVIOUS
<1>1. \A e \in Kinds : e \in TaskEventKind
  BY KindsAssumption
<1>2. ASSUME NEW e \in Kinds, CompleteFailure(e) PROVE IInv'
  <2>1. e.type = "StateTransitioned" /\ Target(e) = "Failed" /\ e.to = "Failed"
    BY <1>2 DEF CompleteFailure, StateTransitioned, Target
  <2> QED BY Zenon, <1>2, <2>1, RoundKeepsInvariant
          DEF CompleteFailure, TaskState
<1>3. ASSUME NEW e \in Kinds, AnnounceFailure(e) PROVE IInv'
  BY Zenon, <1>3, RoundKeepsInvariant DEF AnnounceFailure, IInv
<1>4. ASSUME NEW e \in Kinds, MoveState(e) PROVE IInv'
  <2>1. Target(e) \in TaskState
    BY <1>1, <1>4 DEF MoveState, Target, TaskEventKind, TaskState,
       ApprovalEventType
  <2> QED BY <1>4, <2>1, RoundKeepsInvariant DEF MoveState, IInv
<1>5. ASSUME NEW e \in Kinds, PassEvent(e) PROVE IInv'
  BY <1>5, RoundKeepsInvariant DEF PassEvent, IInv
<1>6. ASSUME NEW e \in Kinds, RejectEvent(e) PROVE IInv'
  <2> DEFINE f == Append(seen, e)
             n == Len(seen)
  <2>1. seen \in Seq(TaskEventKind) /\ n \in Nat
    BY DEF IInv
  <2>2. f \in Seq(TaskEventKind) /\ Len(f) = n + 1
    BY <1>1, <2>1, AppendKeepsVerdicts
  <2>3. ~Accepted(f, n + 1)
    BY <1>6, RoundVerdict DEF RejectEvent
  <2>4. seen' = f /\ result' = "Corrupt"
    BY <1>6 DEF RejectEvent
  <2> HIDE DEF f, n
  <2>5. ~WellFormed(f)
    BY <2>1, <2>2, <2>3 DEF WellFormed
  <2>6. ReturnsSnapshot' /\ LoopInvariant'
    BY <2>4, <2>5 DEF ReturnsSnapshot, LoopInvariant, RecoverSnapshot
  <2> QED BY <1>6, <2>2, <2>4, <2>6 DEF IInv, RejectEvent
<1>7. CASE Finish
  <2>1. /\ seen \in Seq(TaskEventKind) /\ Len(seen) \in Nat
        /\ state = StateAfter(seen, Len(seen))
        /\ pending_failure <=>
             seen # <<>> /\ seen[Len(seen)].type = "TaskFailed"
        /\ \A i \in 1..Len(seen) : Accepted(seen, i)
    BY <1>7 DEF IInv, LoopInvariant, Finish
  <2>2. state = "None" => seen = <<>>
    <3> SUFFICES ASSUME state = "None", seen # <<>> PROVE FALSE
      OBVIOUS
    <3>1. state \in TaskState
      BY <2>1, AcceptedState
    <3> QED BY <3>1 DEF TaskState
  <2>3. result' = RecoverSnapshot(seen)
    <3>1. CASE pending_failure \/ state = "None"
      BY <1>7, <2>1, <2>2, <3>1 DEF Finish, RecoverSnapshot, WellFormed
    <3>2. CASE ~(pending_failure \/ state = "None")
      <4>1. seen # <<>>
        <5>1. StateAfter(<<>>, 0) = "None"
          BY StateAfterNoMove DEF Moves
        <5> QED BY <2>1, <3>2, <5>1
      <4> QED BY <1>7, <2>1, <3>2, <4>1 DEF Finish, RecoverSnapshot, WellFormed
    <3> QED BY <3>1, <3>2
  <2>4. result' # "None" /\ UNCHANGED <<seen, state, pending_failure>>
    BY <1>7 DEF Finish
  <2> QED BY <2>3, <2>4 DEF IInv, LoopInvariant, ReturnsSnapshot
<1>8. CASE UNCHANGED loop
  BY <1>8 DEF loop, IInv, LoopInvariant, ReturnsSnapshot
<1> QED BY <1>2, <1>3, <1>4, <1>5, <1>6, <1>7, <1>8 DEF Next

\* For every log, whatever its length, recover_snapshot returns the state that
\* RecoverSnapshot gives it, and refuses exactly the logs that are not well
\* formed (LoopInvariant is why).
THEOREM LoopCorrect == Spec => [](ReturnsSnapshot /\ LoopInvariant)
<1>1. Init => IInv
  <2> SUFFICES ASSUME Init PROVE IInv
    OBVIOUS
  <2>1. StateAfter(<<>>, 0) = "None"
    BY StateAfterNoMove DEF Moves
  <2>2. seen = <<>> /\ Len(seen) = 0 /\ 1..0 = {}
    BY DEF Init
  <2>3. LoopInvariant
    BY <2>1, <2>2 DEF Init, LoopInvariant
  <2>4. seen \in Seq(TaskEventKind)
    BY <2>2
  <2> QED BY Zenon, <2>3, <2>4 DEF Init, IInv, ReturnsSnapshot
<1>2. IInv => ReturnsSnapshot /\ LoopInvariant
  BY DEF IInv
<1> QED BY <1>1, <1>2, LoopInductive, PTL DEF Spec

=============================================================================

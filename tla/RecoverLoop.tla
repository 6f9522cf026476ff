---------------------------- MODULE RecoverLoop -----------------------------
(***************************************************************************)
(* recover_snapshot, aios-storage-sqlite/src/lib.rs, as the loop it is.    *)
(* One action is one round.  The event a round looks at is chosen when it  *)
(* is looked at: "seen" is the part of the log the loop has gone through,  *)
(* and what follows an early return is never looked at.                    *)
(***************************************************************************)
EXTENDS TaskEvents

CONSTANTS Kinds,    \* the events that may stand in a log
          MaxSeen   \* bound: the length of a log

ASSUME KindsAssumption == Kinds \subseteq TaskEventKind
ASSUME MaxSeenAssumption == MaxSeen \in Nat

VARIABLES seen, state, pending_failure, result

loop == <<seen, state, pending_failure, result>>

Init ==
  /\ seen = <<>>
  /\ state = "None"
  /\ pending_failure = FALSE
  /\ result = "None"

Looking == result = "None" /\ Len(seen) < MaxSeen

\* The transition that a TaskFailed event has announced.
CompleteFailure(e) ==
  /\ Looking
  /\ pending_failure
  /\ e = StateTransitioned(state, "Failed")
  /\ seen' = Append(seen, e)
  /\ state' = e.to
  /\ pending_failure' = FALSE
  /\ UNCHANGED result

\* Mutant: the flag is left as it was.
AnnounceNothing(e) ==
  /\ Looking
  /\ ~pending_failure
  /\ e.type = "TaskFailed"
  /\ Accepts(state, e)
  /\ seen' = Append(seen, e)
  /\ UNCHANGED <<state, pending_failure, result>>

AnnounceFailure(e) ==
  /\ Looking
  /\ ~pending_failure
  /\ e.type = "TaskFailed"
  /\ Accepts(state, e)
  /\ seen' = Append(seen, e)
  /\ pending_failure' = TRUE
  /\ UNCHANGED <<state, result>>

MoveState(e) ==
  /\ Looking
  /\ ~pending_failure
  /\ e.type \in {"Submitted", "StateTransitioned"}
  /\ Accepts(state, e)
  /\ seen' = Append(seen, e)
  /\ state' = Target(e)
  /\ UNCHANGED <<pending_failure, result>>

PassEvent(e) ==
  /\ Looking
  /\ ~pending_failure
  /\ e.type \notin {"Submitted", "StateTransitioned", "TaskFailed"}
  /\ Accepts(state, e)
  /\ seen' = Append(seen, e)
  /\ UNCHANGED <<state, pending_failure, result>>

RejectEvent(e) ==
  /\ Looking
  /\ IF pending_failure THEN e # StateTransitioned(state, "Failed")
                        ELSE ~Accepts(state, e)
  /\ seen' = Append(seen, e)
  /\ result' = "Corrupt"
  /\ UNCHANGED <<state, pending_failure>>

\* The log ends here.
Finish ==
  /\ result = "None"
  /\ result' = IF pending_failure \/ state = "None" THEN "Corrupt" ELSE state
  /\ UNCHANGED <<seen, state, pending_failure>>

Next ==
  \/ \E e \in Kinds :
       \/ CompleteFailure(e)
       \/ AnnounceFailure(e)
       \/ MoveState(e)
       \/ PassEvent(e)
       \/ RejectEvent(e)
  \/ Finish

Spec == Init /\ [][Next]_loop

-----------------------------------------------------------------------------
\* What the loop carries from one round to the next is a function of the part
\* of the log behind it, and all of that part was accepted.
LoopInvariant ==
  result = "None" =>
    /\ state = StateAfter(seen, Len(seen))
    /\ pending_failure <=> seen # <<>> /\ seen[Len(seen)].type = "TaskFailed"
    /\ \A i \in 1..Len(seen) : Accepted(seen, i)

\* The loop returns the state the supervisor's model takes the log for: the
\* result of recover_snapshot is RecoverSnapshot of what it has looked at.
ReturnsSnapshot == result # "None" => result = RecoverSnapshot(seen)

=============================================================================

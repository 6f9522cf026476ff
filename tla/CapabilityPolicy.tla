-------------------------- MODULE CapabilityPolicy --------------------------
(***************************************************************************)
(* The deterministic decision on one operation of a Task:                  *)
(* aios-core/src/policy.rs.                                                *)
(*                                                                         *)
(* A Task specification is a record                                        *)
(*   key           idempotency_key                                         *)
(*   valid         whether TaskSpec::validate accepts it                   *)
(*   granted       the resources its capabilities cover                    *)
(*   required_for  the actions that need a fresh approval                  *)
(* and a request one of                                                    *)
(*   resource      the path and access, destination or tool it names       *)
(*   action        the approval action of that kind of request             *)
(*   well_formed   whether the lexical checks of its kind accept it        *)
(* How a path, host or identifier is matched is left to "granted".         *)
(***************************************************************************)

Decision == {"Allow", "Deny", "ApprovalRequired"}

\* CapabilityPolicy::finish: the capability is checked before the approval.
Finish(spec, granted, action) ==
  IF ~granted THEN "Deny"
  ELSE IF action \in spec.required_for THEN "ApprovalRequired"
  ELSE "Allow"

Evaluate(spec, request) ==
  IF ~request.well_formed THEN "Deny"
  ELSE Finish(spec, request.resource \in spec.granted, request.action)

=============================================================================

------------------------------ MODULE TaskSpec ------------------------------
(***************************************************************************)
(* TaskSpec::validate of aios-core/src/task.rs: what must hold of a        *)
(* submission before the policy is ever asked about it.                    *)
(*                                                                         *)
(* A submission is a record                                                *)
(*   goal          [blank, chars]                                          *)
(*   idempotency_key                                                       *)
(*   filesystem    sequence of [path, access]                              *)
(*   network       [mode, destinations: sequence of [host, port]]          *)
(*   tools         sequence of tool names                                  *)
(*   budget        [wall_time_seconds, memory_bytes, max_parallel_agents]  *)
(*   required_for  sequence of approval actions                            *)
(* The lists are sequences because an entry must not occur twice.  Which   *)
(* error a field gets is left out: any one rejects the Task.               *)
(***************************************************************************)
EXTENDS CapabilityMatching

CONSTANTS
  MaxGoalChars,   \* MAX_GOAL_CHARS
  MaxListed       \* MAX_FILESYSTEM_CAPABILITIES, MAX_TOOLS,
                  \* MAX_APPROVAL_ACTIONS and MAX_NETWORK_DESTINATIONS

ValidateGoal(goal) == ~goal.blank /\ goal.chars <= MaxGoalChars

\* Mutant: the paths are taken as they are.
ValidateFilesUnread(list) == Len(list) <= MaxListed /\ IsInjective(list)

ValidateFiles(list) ==
  /\ Len(list) <= MaxListed
  /\ IsInjective(list)
  /\ \A i \in DOMAIN list : IsNormalizedAbsolutePath(list[i].path)

ValidateNetwork(policy) ==
  policy.mode = "Allow" =>
    /\ Len(policy.destinations) \in 1..MaxListed
    /\ IsInjective(policy.destinations)
    /\ \A i \in DOMAIN policy.destinations :
         policy.destinations[i].host.valid /\ policy.destinations[i].port # 0

\* The names of Tools, and the actions that need an approval.
ValidateNames(list) ==
  /\ Len(list) <= MaxListed
  /\ IsInjective(list)
  /\ \A i \in DOMAIN list : IsValidIdentifier(list[i])

ValidateBudget(budget) ==
  /\ budget.wall_time_seconds > 0
  /\ budget.memory_bytes > 0
  /\ budget.max_parallel_agents \in 1..8

Validate(task) ==
  /\ ValidateGoal(task.goal)
  /\ IsValidIdentifier(task.idempotency_key)
  /\ ValidateFiles(task.filesystem)
  /\ ValidateNetwork(task.network)
  /\ ValidateNames(task.tools)
  /\ ValidateBudget(task.budget)
  /\ ValidateNames(task.required_for)

\* What the policy makes of it: it looks for any entry that matches.
Granted(task) ==
  [filesystem |-> Range(task.filesystem),
   network |-> IF task.network.mode = "Allow"
               THEN Range(task.network.destinations) ELSE {},
   tools |-> Range(task.tools),
   required_for |-> Range(task.required_for)]

=============================================================================

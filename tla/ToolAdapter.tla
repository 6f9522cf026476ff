---------------------------- MODULE ToolAdapter -----------------------------
(***************************************************************************)
(* Tools by name: aios-adapter-tool/src/lib.rs.  A builder registers       *)
(* routes, each with the capability it needs and its handler, and is       *)
(* turned into a catalog, which prepares operations, and the adapter,      *)
(* which executes them.  An operation carries the capability it was        *)
(* prepared with, and may have waited for an approval since; the catalog   *)
(* it came from need not be the one built with the adapter.                *)
(***************************************************************************)
EXTENDS ProcessAdapter

CONSTANTS Routes, ToolAction,
          MaxRoutes      \* max_routes

VARIABLES routes,     \* route -> [tool, handler]
          operation   \* the ToolOperation of the call: [route, tool]

toolVars == <<routes, operation>>

NoOperation == [route |-> "none", tool |-> "none"]

\* ToolAdapterBuilder::register.
Register(r, tool, h) ==
  /\ Idle
  /\ \A name \in {r, tool, ToolAction} : IsValidIdentifier(name)
  /\ r \notin DOMAIN routes
  /\ Cardinality(DOMAIN routes) < MaxRoutes
  /\ routes' = Insert(routes, r, [tool |-> tool, handler |-> h])
  /\ UNCHANGED <<lifecycle, elapsed, call, cgroupVars, processVars, run, operation>>

\* The adapter is dropped, with its handlers, and a new builder begun.
NewBuilder ==
  /\ Idle
  /\ routes # EmptyMap
  /\ routes' = EmptyMap
  /\ UNCHANGED <<lifecycle, elapsed, call, cgroupVars, processVars, run, operation>>

\* ToolCatalog::prepare, and the gate: the policy has allowed the Tool that the
\* operation names.
RequestTool(t, op) ==
  /\ t \in Active
  /\ EvaluateTool(spec[t], op.tool, ToolAction) # "Deny"
  /\ BeginCall("tool", t, "execute")
  /\ operation' = op
  /\ UNCHANGED <<lifecycle, elapsed, cgroupVars, processVars, run, routes>>

ScopeMatches(op) == routes[op.route].tool = op.tool

ExecuteTool ==
  /\ At("tool", "execute")
  /\ CASE ~BudgetLeft -> Return("BudgetExceeded") /\ UNCHANGED run
       [] operation.route \notin DOMAIN routes ->
            Return("RouteNotFound") /\ UNCHANGED run
       [] ~ScopeMatches(operation) -> Return("ScopeMismatch") /\ UNCHANGED run
       [] OTHER ->
            LET h == routes[operation.route].handler IN
            /\ run' = [run EXCEPT !.handler = h]
            /\ Goto(IF h.launcher = "function" THEN "function" ELSE "process")
  /\ UNCHANGED <<lifecycle, elapsed, cgroupVars, processVars, toolVars>>

\* A handler in this process: the context is not passed on to it, and its
\* verdict is its own.
RunFunction ==
  /\ At("tool", "function")
  /\ \E result \in {"Ok", "HandlerFailed", "BudgetExceeded"} :
       call' = [call EXCEPT !.pc = "returned", !.result = result, !.effect = TRUE]
  /\ run' = NoRun
  /\ UNCHANGED <<lifecycle, elapsed, cgroupVars, processVars, toolVars>>

ToolStep ==
  \/ ExecuteTool
  \/ RunFunction
  \/ RunStep /\ UNCHANGED toolVars

\* Trusted code runs a handler it has built and registered nowhere.  What is
\* registered plays no part in it: nothing is.
RunChecked(h) ==
  /\ h.launcher # "function"
  /\ routes = EmptyMap
  /\ BeginRunChecked(h)
  /\ UNCHANGED toolVars

=============================================================================

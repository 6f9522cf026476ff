--------------------------- MODULE ProcessAdapter ---------------------------
(***************************************************************************)
(* A Tool that is a process: aios-adapter-process/src/lib.rs and           *)
(* descriptor.rs.  A handler is built once and runs one process per call,  *)
(* which it polls until the process exits, meets a limit of its cgroup or  *)
(* outlives its deadline.                                                  *)
(*                                                                         *)
(* What is checked again before every spawn - arguments, their policy, the *)
(* identities of executables, of the scratch directory and of the sealed   *)
(* root - is one check that may fail.  The object a mount descriptor was   *)
(* opened on is named by the path it had when the handler was built.       *)
(***************************************************************************)
EXTENDS CgroupLauncher, CapabilityMatching

CONSTANT MaxMounts      \* MAX_FILESYSTEM_CAPABILITY_MOUNTS

VARIABLE run    \* the local variables of run_checked_with_timeout

NoHandler ==
  [launcher |-> "none", cgroup |-> 0, inode |-> 0, mounts |-> <<>>]

\* deadline: whose time it is, the Task's or the handler's own; expired: that
\* time is over; now: whether the deadline had passed when the
\* loop last read the clock; after, strict: see Terminate.
NoRun ==
  [handler |-> NoHandler, deadline |-> "own", expired |-> FALSE, now |-> FALSE,
   after |-> "none", strict |-> FALSE]

-----------------------------------------------------------------------------
\* BubblewrapProcessToolBuilder and ProcessToolBuilder: launcher, the Task of
\* the scratch directory, the Task of the cgroup (0: none) and the capabilities
\* to mount.
ValidateCapabilities(capabilities) ==
  /\ Cardinality(capabilities) <= MaxMounts
  /\ \A c \in capabilities : IsNormalizedAbsolutePath(c.path) /\ c.access = "Read"

CanBuild(launcher, t, cg, capabilities) ==
  IF launcher = "bubblewrap"
  THEN /\ cg # 0 => /\ t = cg
                    /\ cg \in DOMAIN owned
                    /\ IsCgroup(cg, owned[cg])
                    /\ cgroups[cg].configured
       /\ capabilities # {} => t # 0 /\ cg # 0
       /\ ValidateCapabilities(capabilities)
  ELSE t = 0 /\ cg = 0 /\ capabilities = {}

\* open_capabilities sorts by depth, parents first.
Handler(launcher, cg, capabilities) ==
  [launcher |-> launcher, cgroup |-> cg,
   inode |-> IF cg = 0 THEN 0 ELSE owned[cg],
   mounts |-> SetToSortSeq({c.path : c \in capabilities},
                LAMBDA x, y : Cardinality(Separators(x)) < Cardinality(Separators(y)))]

KindOf(h) ==
  CASE h.launcher = "direct" -> "direct"
    [] h.inode = 0 -> "bare"
    [] h.mounts = <<>> -> "legacy"
    [] OTHER -> "broker"

-----------------------------------------------------------------------------
InRun(pc) == runtime = "up" /\ call.adapter \in {"tool", "process"} /\ call.pc = pc
runUnchanged == UNCHANGED <<lifecycle, elapsed, cgroupVars>>
handler == run.handler

\* Mutant: every timeout is taken for the end of the Task's time.
OutcomeBlamesTask(error) ==
  CASE call.adapter = "process" \/ error = "Ok" -> error
    [] error \in {"ResourceLimitExceeded", "TimedOut"} -> "BudgetExceeded"
    [] OTHER -> "HandlerFailed"

\* What execute_for_task, and the Tool adapter above it, make of an error;
\* run_checked returns it as it is.
Outcome(error) ==
  CASE call.adapter = "process" \/ error = "Ok" -> error
    [] error = "ResourceLimitExceeded" -> "BudgetExceeded"
    [] error = "TimedOut" /\ run.deadline = "task" -> "BudgetExceeded"
    [] OTHER -> "HandlerFailed"

\* The Child is dropped: what has ended is gone, what is alive stays.
Leave(result) ==
  /\ Return(result)
  /\ run' = NoRun
  /\ child' = 0
  /\ proc' = Without(proc, {child} \ {p \in DOMAIN proc : Alive(p)})

\* Mutant: a result is reported while the Child is still to be looked after.
FinishRunEarly(error) == Return(Outcome(error)) /\ run' = NoRun /\ UNCHANGED processVars

FinishRun(error) == Leave(Outcome(error))

\* limit_reached: it also fails when a file of the cgroup cannot be read.
LimitReadings ==
  IF handler.inode = 0 THEN {"below"}
  ELSE {"error"} \cup
       IF IsCgroup(handler.cgroup, handler.inode) /\ cgroups[handler.cgroup].configured
       THEN {IF cgroups[handler.cgroup].over THEN "over" ELSE "below"}
       ELSE {}

\* filesystem_capabilities_match
CapabilitiesMatch(capabilities, mounts) ==
  capabilities = {[path |-> mounts[i], access |-> "Read"] : i \in DOMAIN mounts}

\* Mutant: the handler is not compared with the Task.
AnyHandlerServes(t) == TRUE

\* That the budget of the cgroup is the one of the Task is part of the match.
HandlerServes(t) ==
  /\ handler.cgroup = t
  /\ CapabilitiesMatch(spec[t].filesystem, handler.mounts)

StartRun(deadline) == run' = [run EXCEPT !.deadline = deadline] /\ Goto("checks")

\* ToolHandler::execute_for_task, up to run_checked_with_timeout.
ExecuteForTask ==
  /\ At("tool", "process")
  /\ \/ /\ ~BudgetLeft
        /\ Leave("BudgetExceeded")
     \/ /\ BudgetLeft
        /\ handler.launcher = "direct"
        /\ StartRun("task") \/ StartRun("own")
        /\ UNCHANGED processVars
     \/ /\ BudgetLeft
        /\ handler.launcher = "bubblewrap"
        /\ IF handler.inode # 0 /\ HandlerServes(call.task)
           THEN StartRun("task") /\ UNCHANGED processVars
           ELSE FinishRun("Mismatch")
  /\ runUnchanged

\* run_checked: the handler's own timeout, and no capabilities authorized.
BeginRunChecked(h) ==
  /\ BeginCall("process", 0, "checks")
  /\ run' = [NoRun EXCEPT !.handler = h]
  /\ UNCHANGED <<lifecycle, elapsed, cgroupVars, processVars>>

\* What is checked before the spawn, limit_reached last.
CheckRun ==
  /\ InRun("checks")
  /\ \/ FinishRun("InvalidSandbox")
     \/ /\ handler.mounts = <<>> \/ call.adapter = "tool"
        /\ \E reading \in LimitReadings :
             CASE reading = "over" -> FinishRun("ResourceLimitExceeded")
               [] reading = "error" -> FinishRun("InvalidResourceControl")
               [] OTHER -> Goto("spawn") /\ UNCHANGED <<run, processVars>>
  /\ runUnchanged

-----------------------------------------------------------------------------
\* A direct process is the Tool at once; bubblewrap inherits the filter, or is
\* sent it.  The record is the Child: bubblewrap and all that runs in it end
\* together, while what a direct Tool forks is on its own and is left out.
Spawned ==
  LET kind == KindOf(handler) IN
  [task |-> call.task, home |-> handler.cgroup, inode |-> handler.inode,
   kind |-> kind, pc |-> IF kind = "direct" THEN "running" ELSE "spawned",
   dying |-> FALSE, refused |-> FALSE, mounts |-> handler.mounts,
   fds |-> IF kind \in {"bare", "legacy"} THEN <<FilterFile>> ELSE <<>>,
   binds |-> {}, filter |-> "none", strayed |-> FALSE]

Spawn ==
  /\ InRun("spawn")
  /\ \/ /\ child' = Min(1..(Cardinality(DOMAIN proc) + 1) \ DOMAIN proc)
        /\ proc' = Insert(proc, child', Spawned)
        /\ GotoAfterEffect(IF handler.mounts = <<>> THEN "poll" ELSE "transfer")
        /\ UNCHANGED run
     \/ FinishRun("SpawnFailed")
  /\ runUnchanged

\* terminate_cgroup_child, or kill and wait: what to return after it, and
\* whether a failure to terminate replaces that.
Terminate(error, strict) ==
  /\ run' = [run EXCEPT !.after = Outcome(error), !.strict = strict, !.now = FALSE]
  /\ Goto("kill")
  /\ UNCHANGED processVars

\* DescriptorSender::send: the filter first, then the objects of the mounts.  It
\* does not notice that the launcher has ended: the Command holds the receiving
\* end as well.
Transfer ==
  /\ InRun("transfer")
  /\ \/ /\ proc' = [proc EXCEPT ![child].fds = <<FilterFile>> \o handler.mounts]
        /\ Goto("poll")
        /\ UNCHANGED <<run, child>>
     \/ Terminate("DescriptorTransferFailed", FALSE)
  /\ runUnchanged

\* Mutant: only the handler's own timeout is looked at.
PastOwnDeadline == run.deadline = "own" /\ run.expired

PastDeadline == run.expired

\* The head of the loop: try_wait, and the clock.
Poll ==
  /\ InRun("poll")
  /\ \/ Terminate("WaitFailed", FALSE)
     \/ /\ ~Alive(child)
        /\ \E reading \in LimitReadings :
             FinishRun(CASE reading = "over" -> "ResourceLimitExceeded"
                         [] reading = "error" -> "InvalidResourceControl"
                         [] proc[child].pc = "exited" -> "Ok"
                         [] OTHER -> "ExitFailed")
     \/ /\ Alive(child)
        /\ run' = [run EXCEPT !.now = PastDeadline]
        /\ Goto("limits")
        /\ UNCHANGED processVars
  /\ runUnchanged

\* The rest of the loop: a limit outranks the deadline.
CheckLimits ==
  /\ InRun("limits")
  /\ \E reading \in LimitReadings :
       CASE reading = "over" -> Terminate("ResourceLimitExceeded", TRUE)
         [] reading = "error" -> Terminate("InvalidResourceControl", TRUE)
         [] run.now -> Terminate("TimedOut", TRUE)
         [] OTHER -> Goto("poll") /\ UNCHANGED <<run, processVars>>
  /\ runUnchanged

-----------------------------------------------------------------------------
OnFailure(error) ==
  run' = IF run.strict THEN [run EXCEPT !.after = Outcome(error)] ELSE run

\* TaskCgroupState::terminate: what has joined is killed, unless the write
\* fails.
KillCgroup ==
  /\ InRun("kill")
  /\ handler.inode # 0
  /\ \/ /\ IsCgroup(handler.cgroup, handler.inode)
        /\ Kill(Members(handler.inode))
        /\ UNCHANGED run
     \/ OnFailure("InvalidResourceControl") /\ UNCHANGED proc
  /\ Goto("killchild")
  /\ UNCHANGED child
  /\ runUnchanged

\* Mutant: only the cgroup is killed.
RelyOnCgroup ==
  /\ InRun("killchild")
  /\ Goto("wait")
  /\ UNCHANGED <<run, processVars>>
  /\ runUnchanged

\* child.kill(): the launcher may not have joined yet.  It is the runtime's own
\* process and cannot refuse.
KillChild ==
  /\ InRun("killchild")
  /\ Kill(IF Alive(child) THEN {child} ELSE {})
  /\ Goto("wait")
  /\ UNCHANGED <<run, child>>
  /\ runUnchanged

\* Without a cgroup the process alone is killed.  If that is refused at the
\* deadline it is looked at once more, and left alone.
KillDirect ==
  /\ InRun("kill")
  /\ handler.inode = 0
  /\ \/ /\ Kill(IF Alive(child) THEN {child} ELSE {})
        /\ Goto("wait")
        /\ UNCHANGED <<run, child>>
     \/ /\ ~run.strict
        /\ Alive(child)
        /\ proc' = [proc EXCEPT ![child].refused = TRUE]
        /\ Goto("wait")
        /\ UNCHANGED <<run, child>>
     \/ /\ run.strict
        /\ Alive(child)
        /\ Return(Outcome("WaitFailed"))
        /\ proc' = [proc EXCEPT ![child].refused = TRUE]
        /\ child' = 0
        /\ run' = NoRun
     \/ /\ run.strict
        /\ ~Alive(child)
        /\ FinishRun("TimedOut") \/ FinishRun("WaitFailed")
  /\ runUnchanged

\* child.wait() blocks until the process has ended.
WaitForChild ==
  /\ InRun("wait")
  /\ \/ ~Alive(child) /\ Leave(run.after)
     \/ Leave(IF run.strict THEN Outcome("WaitFailed") ELSE run.after)
  /\ runUnchanged

RunStep ==
  \/ ExecuteForTask
  \/ CheckRun
  \/ Spawn
  \/ Transfer
  \/ Poll
  \/ CheckLimits
  \/ KillCgroup
  \/ KillChild
  \/ KillDirect
  \/ WaitForChild

\* The deadline goes by.  It is computed from the time the Task had left when
\* execute_for_task was entered, so that it is never before the end of that
\* time, but may be after it.
DeadlinePasses ==
  /\ child # 0
  /\ call.pc # "returned"
  /\ run.deadline = "task" => ~BudgetLeft
  /\ ~run.expired
  /\ run' = [run EXCEPT !.expired = TRUE]
  /\ UNCHANGED <<lifecycle, elapsed, call, cgroupVars, processVars>>

=============================================================================

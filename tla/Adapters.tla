------------------------------ MODULE Adapters ------------------------------
(***************************************************************************)
(* The adapters of one runtime together: file writer, TCP exchange and     *)
(* Tools, the cgroups and processes these leave in the kernel, the         *)
(* directories of their sandboxes, and the runtime's death and start.      *)
(***************************************************************************)
EXTENDS FilesystemAdapter, NetworkAdapter, ToolAdapter, Sandbox, TaskSpec

\* A deployment is a record
\*   adapters   the adapters that trusted code sets up
\*   launchers  the kinds of handlers it builds
\*   tasks      the Tasks that are submitted to it, with the specifications
\*              each may have
\*   tools      the names of Tools that are in use
\*   inodes     bound: cgroup directories ever made
\*   processes  bound: processes that exist at the same time
\*   builders   the builders of root file systems, and
\*   outputs    where they build, or have built if there are none now
CONSTANT Deployments

VARIABLE deployment

vars == <<lifecycle, elapsed, call, fsVars, conn, cgroupVars, processVars, run,
          toolVars, sandboxVars, deployment>>

Init ==
  /\ deployment \in Deployments
  /\ runtime = "down"
  /\ recorded = {} /\ recovered = {}
  /\ spec = EmptyMap
  /\ elapsed = {}
  /\ call = NoCall
  /\ files = EmptyMap /\ target = <<>>
  /\ conn = NoConnection
  /\ cgroups = EmptyMap /\ inodes = 0 /\ owned = EmptyMap
  /\ proc = EmptyMap /\ child = 0
  /\ run = NoRun
  /\ routes = EmptyMap /\ operation = NoOperation
  /\ SandboxInit(IF deployment.builders = {} THEN deployment.outputs ELSE {})

fsIdle == UNCHANGED fsVars
networkIdle == UNCHANGED conn
toolIdle == UNCHANGED <<cgroupVars, processVars, run, toolVars>>
sandboxIdle == UNCHANGED sandboxVars

\* The process dies.  A running sandbox dies with its parent; a launcher on its
\* way to become one does not.
Crash ==
  /\ runtime # "down"
  /\ runtime' = "down"
  /\ call' = NoCall
  /\ elapsed' = {}
  /\ target' = <<>> /\ conn' = NoConnection
  /\ owned' = EmptyMap
  /\ child' = 0
  /\ proc' = [p \in {q \in DOMAIN proc : Alive(q)} |->
                [proc[p] EXCEPT !.dying =
                   @ \/ (proc[p].kind \in Sandboxed /\ proc[p].pc = "running")]]
  /\ run' = NoRun
  /\ routes' = EmptyMap /\ operation' = NoOperation
  /\ SandboxCrash
  /\ UNCHANGED <<recorded, spec, recovered, files, cgroups, inodes>>

\* Handlers are built from any parts trusted code may put together.
Handlers ==
  {Handler(l, cg, caps) :
     <<l, t, cg, caps>> \in
       {c \in deployment.launchers \X ({0} \cup Tasks)
              \X ({0} \cup Tasks) \X ({{}} \cup {spec[t].filesystem : t \in recorded}) :
          CanBuild(c[1], c[2], c[3], c[4])}}

\* Only these look at the time of a Task.
Timed == deployment.adapters \cap {"filesystem", "network", "tool"} # {}

\* A Task that is rejected is never called for.
Supervise ==
  /\ \/ \E t \in DOMAIN deployment.tasks : \E s \in deployment.tasks[t] :
          Validate(s) /\ SubmitTask(t, Granted(s))
     \/ Timed /\ \E t \in Tasks : TimePasses(t)
  /\ fsIdle /\ networkIdle /\ toolIdle

Request ==
  \/ /\ "filesystem" \in deployment.adapters
     /\ \E t \in Tasks, path \in Paths : RequestCreate(t, path)
     /\ networkIdle /\ toolIdle
  \/ /\ "network" \in deployment.adapters
     /\ \E t \in Tasks, h \in Hosts, port \in Ports :
          \E request \in 0..MaxRequest, reply \in 0..(MaxResponse + 1) :
            RequestExchange(t, h, port, request, reply)
     /\ fsIdle /\ toolIdle
  \/ /\ "tool" \in deployment.adapters
     /\ \E t \in Tasks, op \in [route : Routes, tool : deployment.tools] : RequestTool(t, op)
     /\ fsIdle /\ networkIdle

\* What trusted code does to prepare and to clean up.
Administer ==
  /\ "tool" \in deployment.adapters
  /\ \/ \E r \in Routes, tool \in deployment.tools, h \in Handlers : Register(r, tool, h)
     \/ NewBuilder
     \/ \E h \in Handlers : RunChecked(h)
     \/ /\ inodes < deployment.inodes
        /\ \E t \in Tasks : CreateCgroup(t) /\ UNCHANGED <<run, toolVars>>
     \/ \E t \in Tasks : FinishCgroup(t) /\ UNCHANGED <<run, toolVars>>
  /\ fsIdle /\ networkIdle

\* Builders need no runtime.
Start ==
  /\ DOMAIN deployment.tasks # {}
  /\ StartRuntime /\ fsIdle /\ networkIdle /\ UNCHANGED <<run, toolVars>>

\* The thread of the runtime.
Delivered ==
  /\ Deliver
  /\ target' = <<>> /\ conn' = NoConnection /\ operation' = NoOperation
  /\ UNCHANGED <<files, cgroupVars, processVars, run, routes>>

RuntimeStep ==
  \/ FilesystemStep /\ networkIdle /\ toolIdle
  \/ NetworkStep /\ fsIdle /\ toolIdle
  \/ /\ ToolStep /\ fsIdle /\ networkIdle
     /\ Cardinality(DOMAIN proc') <= deployment.processes
  \/ /\ ConfigureCgroup \/ FinishStep \/ ReconcileNext \/ ReconcileStep
     /\ fsIdle /\ networkIdle /\ UNCHANGED <<run, toolVars>>

Environment ==
  \/ /\ \E p \in DOMAIN proc : ProcessStep(p)
     /\ fsIdle /\ networkIdle /\ UNCHANGED <<run, toolVars>>
  \/ DeadlinePasses /\ fsIdle /\ networkIdle /\ UNCHANGED toolVars

\* Root file systems are built, scratch directories made, and both put to use.
Build ==
  \E b \in deployment.builders :
    \/ \E o \in deployment.outputs : BeginBuild(b, o)
    \/ BuildStep(b)
    \/ BuildStops(b)
    \/ BuildMeasures(b)
    \/ BuildPrints(b)

HostChanges ==
  \/ \E o \in deployment.outputs : HostChangesTree(o) \/ HostRemovesTree(o)
  \/ deployment.builders # {} /\ HostChangesSource
  \/ "scratch" \in deployment.adapters /\ HostReplacesScratchRoot

Prepare ==
  /\ "scratch" \in deployment.adapters
  /\ \/ NewManager
     \/ \E t \in Tasks : BeginCreate(t)
     \/ MakeDirectory
     \/ ValidateScratch
     \/ \E p \in printed : OpenVerified(p)
     \/ \E t \in Tasks, v \in {NoRoot, handles.verified} : BeginLaunch(t, v)
     \/ Mount
     \/ EndLaunch

SandboxStep ==
  /\ Build \/ HostChanges \/ Prepare
  /\ UNCHANGED <<lifecycle, elapsed, call>>
  /\ fsIdle /\ networkIdle /\ toolIdle

\* A result is delivered before anything else happens: no step of a process,
\* and no clock, depends on whether it has been.
Next ==
  /\ IF call.pc = "returned" THEN Delivered /\ sandboxIdle
     ELSE \/ /\ Supervise \/ Request \/ Administer \/ Start \/ RuntimeStep \/ Environment
             /\ sandboxIdle
          \/ SandboxStep
          \/ Crash
  /\ UNCHANGED deployment

Spec == Init /\ [][Next]_vars

\* The thread of the runtime goes on until it dies - a wait for a process only
\* when the process has ended -, time goes by, and what has been killed ends.
\* Neither the Tool nor the peer need ever do anything.
FairSpec ==
  /\ Spec
  /\ WF_vars(Delivered /\ sandboxIdle /\ UNCHANGED deployment)
  /\ WF_vars(/\ RuntimeStep /\ sandboxIdle /\ UNCHANGED deployment
             /\ call.pc # "returned"
             /\ call.pc = "wait" => ~Alive(child))
  /\ \A t \in Tasks :
       WF_vars(/\ Timed /\ TimePasses(t) /\ fsIdle /\ networkIdle /\ toolIdle
               /\ sandboxIdle /\ UNCHANGED deployment)
  /\ WF_vars(/\ DeadlinePasses /\ fsIdle /\ networkIdle /\ sandboxIdle
             /\ UNCHANGED <<toolVars, deployment>>)
  /\ WF_vars(/\ ProcessDies(child) /\ fsIdle /\ networkIdle /\ sandboxIdle
             /\ UNCHANGED <<run, toolVars, deployment>>)

-----------------------------------------------------------------------------
\* The state of the adapters is well formed: one call at a time, its process
\* known, handles only of directories that were made, files only of Tasks.
AdapterTypeOK ==
  /\ runtime \in {"down", "starting", "up"}
  /\ recovered \subseteq recorded /\ recorded \subseteq Tasks
  /\ elapsed \subseteq recorded
  /\ call.task \in recorded \cup {0}
  /\ call = NoCall => child = 0 /\ run = NoRun
  /\ child # 0 => child \in DOMAIN proc
  /\ DOMAIN proc \subseteq 1..deployment.processes
  /\ \A p \in DOMAIN proc : p = child \/ Alive(p)
  /\ DOMAIN files \subseteq Paths
  /\ \A path \in DOMAIN files :
       files[path].task \in recorded /\ files[path].data \in {"empty", "partial", "whole"}
  /\ DOMAIN cgroups \subseteq recorded
  /\ \A t \in DOMAIN cgroups : cgroups[t].inode \in 1..inodes
  /\ \A t, u \in DOMAIN cgroups : cgroups[t].inode = cgroups[u].inode => t = u

\* terminate_cgroup_child, kill and wait: however a run ends, and whatever fails
\* on the way, the process it spawned is not left without having been killed -
\* also not a launcher that had not joined the cgroup when the cgroup was killed.
\* Only one without a cgroup may be left, when the kernel refuses to kill it.
\* Nothing is said of what a direct Tool has forked: the direct mode kills the
\* Child alone and makes no claim about its descendants.
NoRunawayProcess ==
  runtime = "up" =>
    \A p \in DOMAIN proc :
      proc[p].task \in Active \/ proc[p].home \in Active =>
        p = child \/ proc[p].dying \/ (proc[p].kind \notin InCgroup /\ proc[p].refused)

\* reconcile_stale_task_cgroups, which aiosd calls when it is given a cgroup
\* root: once a runtime accepts work no cgroup of an earlier one is left, and no
\* Tool of an earlier one runs in a cgroup or will ever come to, although its
\* launcher may still be on the way.
StartsClean ==
  runtime = "up" =>
    /\ recovered \cap DOMAIN cgroups = {}
    /\ \A p \in DOMAIN proc :
         proc[p].kind \in InCgroup /\ proc[p].pc \in {"joined", "running"}
           => proc[p].task \notin recovered /\ proc[p].home \notin recovered

\* execute_for_task, open_capabilities, send, receive_descriptors and the
\* filter together: what runs in a cgroup for a Task is in the cgroup of that
\* very Task, has the filter loaded and not, say, a directory in its place, has
\* each of the Task's read capabilities mounted from its own object and nothing
\* else, has made no system call outside the reviewed list, and is a Tool the
\* Task may use - although the operation may come from another catalog, and
\* handlers are built from any parts.
ToolRunsConfined ==
  \A p \in DOMAIN proc :
    LET q == proc[p] IN
    q.pc = "running" /\ q.kind \in InCgroup /\ q.task \in Active =>
      /\ q.home = q.task
      /\ q.task \in DOMAIN cgroups /\ cgroups[q.task].inode = q.inode
      /\ q.filter = FilterFile
      /\ q.binds = {<<c.path, c.path>> : c \in spec[q.task].filesystem}
      /\ ~q.strayed
      /\ p = child => routes[operation.route].tool \in spec[q.task].tools

\* "A real Task wall-time or cgroup limit maps to BUDGET_EXCEEDED", and nothing
\* else does: not the timeout a handler has of its own, nor a cgroup that
\* cannot be read.  Only a handler in the process itself may say what it likes.
BudgetVerdictsTrue ==
  call.pc = "returned" /\ call.result = "BudgetExceeded" =>
    \/ call.task \in elapsed
    \/ call.task \in DOMAIN cgroups /\ cgroups[call.task].over
    \/ call.adapter = "tool" /\ routes[operation.route].handler.launcher = "function"

\* An operation that is executed when the Task has no time left - it waited for
\* its approval too long - is answered with BudgetExceeded, before a file is
\* made, a connection opened, a process spawned or a handler called.
LateCallsHaveNoEffect ==
  call.late /\ call.adapter \in {"filesystem", "network", "tool"} =>
    /\ ~call.effect
    /\ call.pc = "returned" => call.result = "BudgetExceeded"

\* create_new: a file is written by the call that made it and by no other: not
\* by a later call for the same path, and by nobody after a crash.
NothingOverwritten ==
  [][\A path \in DOMAIN files :
       /\ path \in DOMAIN files'
       /\ files'[path] # files[path] =>
            /\ call.adapter = "filesystem" /\ call.effect
            /\ target = path
            /\ files'[path].task = files[path].task]_vars

\* Every file that exists, whole or not, lies beneath a directory its Task may
\* write, by components: not merely next to one whose name its own begins with.
FilesWithinCapability ==
  \A path \in DOMAIN files :
    \E c \in spec[files[path].task].filesystem :
      c.access = "Write" /\ IsBeneath(path, c.path)

\* A call that reports success has done all of it: the file is whole; the
\* request was sent to the last byte, and the response is all the peer sent,
\* never one cut off at the limit.
SuccessIsComplete ==
  call.pc = "returned" /\ call.result = "Ok" =>
    /\ call.adapter = "filesystem" =>
         files[target] = [task |-> call.task, data |-> "whole"]
    /\ call.adapter = "network" =>
         conn.sent = conn.request /\ conn.received = conn.reply

\* Every call of an adapter returns, and every start-up ends, unless the
\* process dies: also when the Tool never exits and the peer never answers.
\* What may hold a call up for ever is a process outside any cgroup that the
\* kernel refuses to kill and that is waited for all the same.
AdapterCallsReturn ==
  call.pc # "idle" ~> call.pc = "idle" \/ (child # 0 /\ proc[child].refused)

\* Each capability can be used as it stands, and a path is granted exactly when
\* it is that of a capability or lies beneath one, by components.
IsExact(granted) ==
  /\ \A c \in granted.filesystem : EvaluateFile(granted, c.path, c.access) # "Deny"
  /\ \A d \in granted.network : EvaluateNetwork(granted, d.host, d.port) # "Deny"
  /\ \A tool \in granted.tools : EvaluateTool(granted, tool, ToolAction) # "Deny"
  /\ \A path \in Paths \cup Directories, access \in {"Read", "Write"} :
       EvaluateFile(granted, path, access) # "Deny"
         <=> /\ IsNormalizedAbsolutePath(path)
             /\ \E c \in granted.filesystem :
                  c.access = access /\ IsBeneath(path, c.path)

\* TaskSpec::validate and the policy agree: whatever specification is accepted,
\* the policy grants what it lists, all of it and nothing else.
GrantsAreExact == [][\A t \in recorded' \ recorded : IsExact(spec'[t])]_vars

\* A root file system with nothing missing.
Whole(entries) ==
  /\ HasMountPoints(entries)
  /\ BusyBox \in Files(entries)
  /\ entries[BusyBox].data \in Contents

\* build_minimal_root_filesystem: at whatever point a build stops, and however
\* many builders are at work, a tree that can be measured, and that nobody else
\* has changed, is whole; so a build that was cut short is never taken for a
\* root.  And the digest of a build depends on the executable alone.
BuildsAreWhole ==
  /\ \A o \in Outputs :
       ~trees[o].changed /\ Measurable(trees[o].entries) => Whole(trees[o].entries)
  /\ \A p, q \in printed :
       p.digest[BusyBox].data = q.digest[BusyBox].data => p.digest = q.digest

\* "Existing Task directories are rejected rather than reused": a scratch
\* directory that was given out was empty then, and is there as long as its
\* handle is, whatever becomes of other attempts to make one for the same Task
\* and of the runtime.  And what run_checked_with_timeout mounts, unless it was
\* changed after the checks, is that directory of the Task, and the whole root
\* whose digest was pinned, although both may have been changed before.
SandboxIsAsPrepared ==
  /\ \A t \in DOMAIN handles.given :
       LET given == handles.given[t] IN
       /\ ~given.used
       /\ given.inode[1] = root =>
            t \in DOMAIN scratch /\ scratch[t].inode = given.inode
  /\ launch.pc = "mounted" /\ ~launch.stale =>
       /\ launch.task \in DOMAIN scratch
       /\ scratch[launch.task].inode = handles.given[launch.task].inode
       /\ launch.verified # NoRoot =>
            LET entries == trees[launch.verified.output].entries
            IN  /\ Digest(entries) \in {p.digest : p \in printed}
                /\ Whole(entries)

=============================================================================

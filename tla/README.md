# A TLA+ model of the AI OS runtime

AI OS runs Tasks for AI agents under deterministic supervision. This directory
models the runtime: the Task supervisor with its audit log and approvals, the
execution gates, the Agent that drives both, the adapters behind the gates with the
processes, cgroups, files and directories they work on, and the daemon with its
local clients. TLC checks the models on small instances, TLAPS proves some of the
properties for all instances. Paths are relative to the repository root; `crates/`
is omitted where the crate name is given.

## 1. The system

| Part | Source | State | Operations | Modelled in |
| --- | --- | --- | --- | --- |
| Task lifecycle | `aios-core/src/state.rs` | none | `is_terminal`, `can_transition_to` | `TaskState` |
| Task specification | `aios-core/src/task.rs` | none | `validate` | `TaskSpec`, `CapabilityMatching` |
| Capability policy | `aios-core/src/policy.rs` | none | `evaluate`, `finish` | `CapabilityPolicy`, `CapabilityMatching` |
| Events and replay | `aios-runtime/src/event.rs`, `recover_snapshot` in `aios-storage-sqlite/src/lib.rs` | none | the reduction of a log to a state | `TaskEvents`, `RecoverLoop` |
| Event store | same files | one log per Task, durable | `append_batch`, `list` | `EventStore` |
| Approval authority | `aios-runtime/src/approval.rs` | `pending`, `operation_index` | `request`, `approve`, `revoke`, `expired_ids`, `restore`, `authorize` | `ApprovalAuthority` |
| Supervisor | `aios-runtime/src/supervisor.rs` | Tasks, recovered Tasks, keys, pending and approved operations | submit, start, succeed, fail, cancel, the four approval calls, `expire_approvals`, `recover` | `Supervisor` |
| Execution gate | `aios-runtime/src/execution.rs` | retained operations and an index | `request`, `approve_and_execute`, `deny`, `expire`, `cancel` | `ExecutionGate`, `OperationLives` |
| Agent | `aios-agent/src/lib.rs` | one model session | `start`, `drive`, `approve_and_resume`, `deny`, `expire`, `cancel` | `AgentRuntime` |
| Filesystem adapter | `aios-adapter-filesystem/src/lib.rs` | files | create-new write | `FilesystemAdapter` |
| Network adapter | `aios-adapter-network/src/lib.rs` | a connection | bounded TCP exchange | `NetworkAdapter` |
| Tool adapter | `aios-adapter-tool/src/lib.rs` | routes | `register`, `build`, `prepare`, `execute` | `ToolAdapter` |
| Process adapter | `aios-adapter-process/src/lib.rs`, `descriptor.rs` | handlers, a child | build, check, spawn, poll, terminate | `ProcessAdapter` |
| Task cgroups | `aios-adapter-process/src/cgroup.rs` | directories in the kernel | `create`, `finish`, terminate, reconcile | `TaskCgroup` |
| Cgroup launcher | `aios-adapter-process/src/bin/aios-cgroup-launch.rs` | a process | open, receive, join, exec | `CgroupLauncher` |
| System call filter | `aios-adapter-process/src/seccomp.rs` | none | the filter program | `Seccomp` |
| Sandbox directories | `aios-adapter-process/src/rootfs.rs`, `bin/aios-rootfs-build.rs`, `TaskScratchManager` in `lib.rs` | trees, scratch directories | build, measure, verify, `create` | `Sandbox` |
| Local API, `aiosd` | `aios-local-api/src/lib.rs`, `bin/aiosd.rs` | a socket, one supervisor | bind, start-up, request and response | `LocalApi` |
| Client `aiosctl` | `aios-local-api/src/bin/aiosctl.rs` | none | one request | the clients of `LocalApi` |

Everything in the runtime is synchronous: a caller owns the supervisor, a gate or an
adapter by `&mut` for the length of a call. What makes the system hard is what can
happen between two steps of one call, between calls of different owners, and what a
process leaves behind:

- an append can fail after memory has been changed, and the change is undone;
- a sweep of expired approvals precedes most approval calls, commits one batch
  per approval, and can fail half way, for a reason that has nothing to do with
  the call;
- deadlines pass between the sweep, the approval, the use of the grant, and each
  step of the adapter that carries the operation out;
- the process can die between any two batches, and between the record of an
  authorization and the execution it authorizes; recovery is itself a sequence of
  batches that can be cut short;
- several gates share a supervisor, and one gate's call removes approvals of
  another's operations; the Agent's owner can end a Task between two of its calls;
- launchers and Tools run on their own, outlive a runtime that dies, and join a
  cgroup that is being killed, drained or removed;
- files, sealed trees and scratch directories outlive failed calls and can be
  changed by other processes between a check and the next;
- daemons compete for a socket, requests of clients that have gone are carried out
  all the same, and answers get lost.

`PROJECT.json` lists these hazards with their lines and the properties about them.

## 2. Modules

    Maps  TaskState
            \
          TaskEvents ---- RecoverLoop           (replay as the loop in the code)
             |
          EventStore  ApprovalAuthority  CapabilityPolicy
                 \          |            /
                        Supervisor ------------- SupervisorProperties
                            |                            |
                      ExecutionGate  - - -> OperationLives (implements)
                            |                            |
                       AgentRuntime                  LocalApi

    AdapterCall         CapabilityMatching --- TaskSpec
       |    \   \__________   |                   |
       |     \             \  |                   |
    TaskCgroup Sandbox   FilesystemAdapter        |
       |        |        NetworkAdapter           |
    CgroupLauncher (Seccomp) |                    |
       |        |            |                    |
    ProcessAdapter           |                    |
       |        |            |                    |
    ToolAdapter |            |                    |
        \_______|____________|____________________|
                         Adapters

    proofs:  SupervisorTypes, ApprovalTypes, ApprovalLemmas, SupervisorProofs,
             RegistryProofs, CompositionProofs, RecoverLoopProofs, LocalApiProofs
    TLC:     MCRecoverLoop, MCSupervisor, MCExecutionGate, MCAgentRuntime,
             MCAdapters, MCLocalApi

The adapters are composed with each other, not with the gates' module: an adapter is
called by its gate when the operation may run, which `ExecutionGate` and `AgentRuntime`
check with the adapter as one step. `Adapters` looks inside that step, and asks the
policy itself (`CapabilityMatching`), so that what is granted and what is done can be
compared. `LocalApi` has the whole supervisor behind it.

### Supervisor, gates, Agent

**How state corresponds to the code.** The variables of `Supervisor` carry the
names of the fields of `TaskSupervisor`; maps are functions on finite domains
(`Maps`). Task, approval and operation ids are UUIDv7 in the code, unique and
ordered by creation; here the nth id is the number n. `log` alone survives a crash.
`mode`, `call` and `expired` are the program counter: whether the process is down,
recovering or serving, which sweeping call is in progress, and what is left of the
list its sweep goes through.

**Atomicity.** A call that appends one batch is one action. The calls that sweep
(`request_operation`, `approve_operation`, `deny_operation`, `expire_approvals`) are
`BeginCall`, one `ExpireNext` per expired approval, and the action of the call
itself. In between only deadlines pass or the process dies. Arguments are chosen
when they are first read, after the sweep.

**Failing appends.** An append may fail at any time. Where the code has changed
nothing by then the failure is a stuttering step; where it has, it is an action
(`RequestApprovalAuditFails`, `ApproveOperationAuditFails`,
`AuthorizeOperationFails`, `SweepFails`). A full log always fails.

**Time.** A deadline is the monotonic clock plus a lifetime chosen by the caller,
so deadlines pass in any order; `deadline_passed` is the set of those that have. A
lifetime itself matters only for `request`, which refuses zero and more than the
maximum: both ends are among the values of `Ttl`.

**Gates.** `ExecutionGate` conjoins supervisor actions with changes to the gates.
`approve_and_execute` is three steps (approve, authorize, execute), with `turn`
holding the operation that the call owns. `executed` records, per Task, what
adapters were called with; it is history and no guard reads it. `DirectCall` is the
owner of the supervisor (the local API) submitting, starting and ending Tasks past
the gates.

**Agent.** `AgentRuntime` adds the session and one `stage` per place in `drive` or
in the other calls where another component is called. `overrun` holds the Tasks
whose wall time is used up. `abandoned` is history: Tasks that a call let go of
without ending them, because the store refused the record or the supervisor the
request. The model's decisions are reduced to finish, fail, an invalid one, or a
request through one of the gates.

In these modules goals, arguments, outputs, timestamps and messages are left out.
Which resource a capability covers is membership in a set, and the validity of a
specification a Boolean of it.

### Specifications and the policy

`TaskSpec` is `TaskSpec::validate` on a submission with all its fields, and `Granted`
what the policy reads of it. `CapabilityMatching` has the three matching rules.
Paths are sequences of characters, split into components and compared as the code
does. Whether a text is an identifier is membership in `Identifiers`, and whether a
host name is valid a field of the host: these two scan one text and depend on nothing
else. The adapters read a path with the same operator, as the code does.

### Adapters

**Calls.** `AdapterCall` has the runtime (down, starting, up), the Tasks, their wall
time and the one call in progress, whose `pc` is the place in the adapter's code.
`late` and `effect` are history: the Task's time was over when `execute` began, and
something has been done outside the process. Between two steps time passes, other
processes act, and the runtime may die.

**Files and connections.** A file is "empty", "partial" or "whole". Exchanges are
counted in bytes, with the peer answering as much as it likes, in any pieces, or
never.

**Processes.** A process is a record of what it was started with and how far it has
come, from the launcher to the Tool it becomes. Bubblewrap and what runs in it are one
process, since the PID namespace and `--die-with-parent` end them together. A direct
Tool is the spawned child alone: the adapter knows and kills nothing else
(`child.kill`), and what the child forks is left out (section 6), so that
`NoRunawayProcess` is about spawned children. Handlers
are built from all combinations of parts the builder accepts; catalogs and adapters
need not belong together. What is checked again before every spawn is one check that
may fail here, because `Sandbox` looks at it by itself. The Tool makes system calls
against the filter program, run by a small BPF machine. That the values of a cgroup's
limits are those of the Task's budget is left out; a limit is reached at any time.

**Sandbox directories.** A build is the list of file system operations in the code
(`Script`); a builder stops after any of them, or in the middle of the copy, and
several may be given one output. A digest is the part of a tree that is hashed:
collisions are ruled out. Other processes of the host change, unseal, extend, replace
or remove trees, rewrite the source in place, and replace the scratch root. That a
tree changes while it is measured is the same here as that it changes between
the check and the mount, which the code says it does not rule out; `launch.stale`
marks it. The inode of a scratch directory that was removed is used again. Modes and
owners of scratch directories are part of checks that may fail.

**External**, modelled from how the code uses them: the kernel (files, signals,
cgroups, BPF), bubblewrap, the Tool, the peer, other processes of the host, the
operator who removes a socket file that was left, and only while no daemon runs.

### The daemon

`LocalApi` puts daemons and clients around the supervisor. A start is `BindCheck`,
`BindSocket`, `BindDone`, recovery, reconciliation, serving; each may be the last. A
connection has one request; what a client has asked for stays in the backlog when the
client gives up. Answers carry what `TaskView` and an event page carry, frames are
left out: one that cannot be read is a connection that is closed, one that is too
large an error. `known` and `pages` are what clients were told.

## 3. Runs

| Run | Question | Result |
| --- | --- | --- |
| `supervisor_deep` | one Task, three approvals, logs of up to 16 events, all start states | the four views of an approval agree; memory agrees with the log; each approval lives one life in the log; outstanding authority is exactly what the log says; an ended Task's log never grows |
| `supervisor_wide` | three Tasks ever, two at a time, three specifications, logs of up to 9 events, restarts | logs can be replayed to the state reported; a restart leaves nothing running; capacity and keys are exact |
| `supervisor_live` | two waiting Tasks under fairness | no Task waits for ever |
| `recover_loop` | arbitrary logs of up to 10 events | the loop of the store computes `RecoverSnapshot` |
| `gate` | two gates, two Tasks, three specifications | adapters run exactly what the log authorizes, in its order, at most once; a grant never outlives its call; `OperationLives` is implemented |
| `agent` | both gates, two Tasks with different specifications, two turns, logs of 9 events, so that they fill up | session and Tasks stay in step; every call returns |
| `adapters` | eight deployments, see below | no process that a run spawned is left unkilled unless the kernel refuses (descendants of a direct Tool are outside the model), a start leaves nothing of an earlier one in a cgroup, a Tool runs with the cgroup, filter and mounts of its own Task, budget verdicts are true, late calls do nothing, no file is overwritten or lies outside a capability, success means all of it, calls return; accepted specifications grant what they list; an unfinished build is never measured as a root; sandboxes mount what was prepared |
| `local_api` | three scenarios, see below | one daemon has the socket; what clients were told is true and stays so; pages add up to the log; nobody waits for ever |
| `supervisor_start`, `supervisor_grants`, `gate_bound`, `agent_stale` | statements of the documentation and of comments | violated, see section 5 |

**Deployments.** The adapters of a runtime share the Tasks and their time, and
nothing else that a property looks at, so `Init` chooses a deployment, and each family
is explored by itself: `FilesAndNetwork`; `PlainTools` (functions and processes outside
any sandbox, two processes at once); `SandboxedTools` (two Tasks, one with nested
mounts, one cgroup directory); `CgroupAgain` (the cgroup of one Task made twice);
`Specifications` (fields at and beyond each limit, in all kinds of lists);
`TwoBuilders` (one output); `SealedSandboxes` (a root built before, changed twice);
`ScratchDirectories` (two Tasks). In the same way `local_api` has scenarios: a client
that drives a Task past one that misbehaves, a log that is read while it grows, two
daemons.

**Bounds.** `MaxTaskId`, `MaxApprovalId` cap how many ids are ever issued,
`MaxEventsPerTask` is the code's own limit with a small value. A submission takes 3
events, a round of request and decision at most 4, so that 9 events leave a full
log within reach of a waiting Task, and 16 let one Task use three approvals. Two
Tasks are what a sweep needs to be cut short by somebody else; two gates what an
operation needs to be left behind. `MaxPending` is 1 or 2, so that the authority
fills up. Paths of 8 characters hold four components; two of them share a prefix and
not a component. A response of up to 3 bytes at a limit of 2 is one too long. Two
changes by other processes let a tree be unsealed and altered, or altered and
replaced. `inodes` and `processes` of a deployment bound how many cgroup directories
are ever made and how many processes exist at once.

**Reductions.** A result of a call is delivered before anything else happens: no step
of a process and no clock depends on whether it has been. Time passes only in
deployments that look at it. `run_checked` is called while no route is registered, as
it shares nothing with routes but the handler.

**Deadlock** is not checked where the instance runs out: a full log, no ids left, a
log that cannot be replayed. Those are states in which the program refuses further
work, not ones in which it hangs. `supervisor_wide`, `supervisor_live`, `adapters` and
`local_api`, where a restart is always possible, do check it.

**Fairness.** `Supervisor!Fairness`: deadlines pass (weak). A call that has begun
returns (weak). The owner polls `expire_approvals`, as `docs/agent-runtime.md` asks
(strong, since other calls may always come first). An append that is tried again and
again is not refused for ever (strong, on each step of the sweep and of recovery). A
process that is down is started again and recovery goes on. Crashes are not bounded.
The assumption on appends is one on the disk, not on the log limit: `supervisor_live`
has logs that do not fill up. Expiry, denial and cancellation all append to
the log, so a Task whose log is full can wait for ever and hold up the sweep of the
others, and recovery cannot complete;
`docs/adr/0004-non-resumable-restart.md` accepts the latter.

`AgentRuntime!FairAgentSpec`: a call goes on, which assumes that the model and the
adapters return, and not that appends succeed; the owner polls `expire`.

`Adapters!FairSpec`: the thread of the runtime goes on (in a wait for a process only
when the process has ended), time goes by, and a process that was killed ends. Neither
Tool nor peer need ever do anything. `AdapterCallsReturn` has one exception, a process
outside any cgroup that the kernel refuses to kill: the code then waits for it.

`LocalApi!ApiSpec`: a daemon that has begun to start goes on or exits, and one that
serves goes on serving, a read ending by its timeout at the latest. Nobody need restart
what has died; a client's wait ends with the connection.

## 4. Proofs

All theorems hold for every value of the constants that satisfies the named
assumptions of the modules (limits are positive, a specification has its four
fields, `Startable` contains no state but `Queued` and `WaitingApproval`, a scenario
starts only daemons there are).

- `ApprovalTypes!TypeCorrect`: `Spec => []TypeOK`. The invariant is inductive. It
  also says that only ids that were issued are in use, which the next proof needs.
  `SupervisorTypes` has the lifecycle and restart, `ApprovalTypes` the sweep and the
  approval calls.
- `SupervisorProofs!ApprovalsCoherent`: `Spec => []ApprovalsAgree`. The inductive
  invariant is `AgreeInv`, `TypeOK /\ ApprovalsAgree /\ LiveTasksLogged`: without the
  last conjunct a submission could draw the id of a live Task, and without the first a
  request could draw the id of a grant. The two undo paths are lemmas of
  `ApprovalLemmas`: `RequestUndone` (revoke after request gives back the authority) and
  `ApprovalUndone` (restore after approve does). What a Task's end removes is
  `EndAgree`, what the resolution of one approval removes `ResolveAgree`.
- `RegistryProofs!KeysExact`, `CapacityKept` and `RecoveredEnded`: `Spec =>
  []IdempotencyIndexExact`, `Spec => []TaskCapacityKept` and `Spec =>
  []RecoveredTasksHaveEnded`. They share the inductive invariant `RegistryInv`, which
  adds `PhasesAgree`: live and recovered Tasks are disjoint, and together are the
  store once the supervisor serves. Without it a submission could draw the id of a
  live Task, and the capacity test, which adds the sizes of the two maps, would say
  nothing of the store. All steps but submission and those of a restart only move a
  live Task to another state (`Touches`), since a recovered one has ended.
- `RecoverLoopProofs!LoopCorrect`: the replay loop returns `RecoverSnapshot` of what
  it has looked at, for logs of any length. `IInv` adds the result to
  `LoopInvariant`, which says what the loop's two variables mean between rounds. The
  lemmas on `StateAfter` say that it is the target of the last move, and that
  appending changes no verdict on an earlier event.
- `CompositionProofs!GateImplementsSupervisor`: `GateSpec => Spec`, for any set of
  gates. Each step of a gate is a step of the supervisor or none. The argument that
  a gate passes to `authorize_operation` comes from what it retains, so the typing of
  the retained operations (`GateTyped`) is proved along. `GateApprovalsCoherent`
  follows.
- `LocalApiProofs!SocketExcludes`: `ApiSpec => []SocketIsExclusive`, for any number of
  daemons and clients. `SocketInv` adds that a listener has its file, so that bind,
  which needs a free path, cannot succeed beside it, and that only a `LocalServer` that
  exists remembers an inode.
- `LocalApiProofs!ServiceRefines`: `ApiSpec => Spec`. A method of the API, a start and
  the end of a daemon are steps of the supervisor or none, for which the backlog has to
  hold requests of the clients only. So what is proved of the supervisor holds behind
  the service.

Only model-checked: liveness (`WaitingEnds`, `CallsReturn`, `AdapterCallsReturn`,
`ClientsAnswered`), which is outside what these proofs can reach; the properties of
logs as a whole (`ApprovalsAreLinear`, `AuthorityIsAudited`, `LogsRecoverable`,
`AnswersStayTrue`, `PagesAreExact`); the refinement of `OperationLives`; the
properties of the Agent and of the adapters.

## 5. Where the code and its documentation differ

- `supervisor_start`. `start` accepts a waiting Task (`state.rs:42`) and keeps its
  request pending. If that request is then denied or expires, the log says so while
  the Task is `Running`, and the next start of the process finds it corrupt.
  `docs/local-api.md:116` has `start` for a queued Task. With Tasks started from
  `Queued` only, `supervisor_wide` shows that every log can be replayed.
- `supervisor_grants`. `deny_operation` and `expire_approvals` end a Task without
  revoking an unused grant, unlike what `docs/approval-grants.md:45` says of every
  terminal transition. The grant cannot be used, and `GrantsAreSpentAtOnce` shows
  that there is none when all calls come through gates.
- `gate_bound`. The operations a gate retains are not bounded by the approval
  authority (`execution.rs:83`): what expires in the sweep inside another call stays
  until the next `expire` or `cancel` of that gate. `RetainedMatchPending` shows that
  all that stays belongs to ended Tasks.
- `agent_stale`. An approval that comes after its deadline ends the Task and keeps
  the session; `expire` then returns an error before it reaches the code that drops
  the session (`aios-agent/src/lib.rs:492`). `cancel` does drop it.

## 6. Not modelled

- `aiosctl`: it parses arguments, sends one request and prints the answer.
- SQLite itself, beyond that a batch is stored as a whole or not at all; file
  permissions of the database.
- What a Tool in direct mode forks. The code kills the direct child only, and
  `docs/process-adapter.md:176` says that the mode does not terminate descendants that
  leave the child's lifecycle; such a process can outlive its run and its Task, and no
  property here speaks of it.
- Arguments, environment and output of Tools (standard output and standard error are
  discarded); frames and encodings of the local API.
- Options of `aiosd`. `--cgroup-root` is optional: without it there is no
  reconciliation, and `StartsClean` says nothing. In `LocalApi` the step `Reconciled`
  changes nothing the service sees, so that it stands for both cases.
- The scripted model and the constructors of decisions and capabilities, which check
  the length and characters of one text.
- How host names and identifiers are spelt, and the encoding of digests and of the
  filter program: conversions of one value, which no property here tells apart.
- Code for platforms other than Unix, which returns `UnsupportedPlatform`.
- `ApprovalAuthority::deny` and `pending_count`, which nothing in the runtime calls.
- A Task whose log is full when `recover` has to fail it: the behaviour is in the model
  (recovery does not go on), but it is a documented limit and no property is claimed.

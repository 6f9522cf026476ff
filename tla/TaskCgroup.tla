----------------------------- MODULE TaskCgroup -----------------------------
(***************************************************************************)
(* The cgroup of a Task: CgroupV2Manager and TaskCgroup of                 *)
(* aios-adapter-process/src/cgroup.rs, and the start-up of                 *)
(* aios-local-api/src/bin/aiosd.rs that removes what an earlier process    *)
(* left.                                                                   *)
(*                                                                         *)
(* The kernel is external.  A cgroup is a directory named after the Task,  *)
(* with an inode of its own; writing cgroup.kill sends SIGKILL to every    *)
(* member, which stays a member until it is dead; a directory that has a   *)
(* member cannot be removed.                                               *)
(***************************************************************************)
EXTENDS AdapterCall, Maps

VARIABLES
  cgroups,  \* Task -> [inode, configured, over]; the directories that exist
  inodes,   \* the number of directories ever made
  owned,    \* Task -> inode; the TaskCgroup values of this process
  proc,     \* process -> its record, see CgroupLauncher
  child     \* the process whose Child this runtime holds, or 0

cgroupVars == <<cgroups, inodes, owned>>
processVars == <<proc, child>>

\* validate_task_cgroup_identity.
IsCgroup(t, inode) == t \in DOMAIN cgroups /\ cgroups[t].inode = inode

Members(inode) ==
  {p \in DOMAIN proc :
     proc[p].inode = inode /\ proc[p].pc \in {"joined", "running"}}

Kill(P) ==
  proc' = [p \in DOMAIN proc |->
             [proc[p] EXCEPT !.dying = @ \/ p \in P]]

-----------------------------------------------------------------------------
\* CgroupV2Manager::create, in two steps: the directory is made ...
CreateCgroup(t) ==
  /\ t \in Active
  /\ t \notin DOMAIN cgroups
  /\ BeginCall("cgroup", t, "configure")
  /\ inodes' = inodes + 1
  /\ cgroups' = Insert(cgroups, t,
                       [inode |-> inodes + 1, configured |-> FALSE, over |-> FALSE])
  /\ UNCHANGED <<lifecycle, elapsed, owned, processVars>>

\* ... and its limits are written.  On a failure the directory is removed
\* again; that this may fail in turn is ignored.
ConfigureCgroup ==
  /\ At("cgroup", "configure")
  /\ LET t == call.task IN
     \/ /\ cgroups' = [cgroups EXCEPT ![t].configured = TRUE]
        /\ owned' = Insert(owned, t, cgroups[t].inode)
        /\ Return("Ok")
     \/ /\ cgroups' \in {cgroups, Without(cgroups, {t})}
        /\ Return("InvalidResourceControl")
        /\ UNCHANGED owned
  /\ UNCHANGED <<lifecycle, elapsed, inodes, processVars>>

-----------------------------------------------------------------------------
\* TaskCgroup::finish: kill, drain, remove.  The value is consumed at once.
FinishCgroup(t) ==
  /\ t \in DOMAIN owned
  /\ BeginCall("cgroup", t, "terminate")
  /\ owned' = Without(owned, {t})
  /\ UNCHANGED <<lifecycle, elapsed, cgroups, inodes, processVars>>

\* The steps of finish and of reconcile_stale_task_cgroups; proceed and fail
\* are what the caller does next.
KillMembers(t, proceed, fail) ==
  /\ \/ Kill(Members(cgroups[t].inode)) /\ proceed
     \/ fail /\ UNCHANGED proc
  /\ UNCHANGED <<cgroups, child>>

\* wait_until_empty_until: it ends when nothing is populated, or at its
\* deadline.
Drain(t, proceed, fail) ==
  /\ (Members(cgroups[t].inode) = {} /\ proceed) \/ fail
  /\ UNCHANGED <<cgroups, processVars>>

RemoveDirectory(t, proceed, fail) ==
  /\ \/ /\ Members(cgroups[t].inode) = {}
        /\ cgroups' = Without(cgroups, {t})
        /\ proceed
     \/ fail /\ UNCHANGED cgroups
  /\ UNCHANGED processVars

FinishStep ==
  /\ LET t == call.task
         fail == Return("InvalidResourceControl")
     IN  \/ At("cgroup", "terminate") /\ KillMembers(t, Goto("drain"), fail)
         \/ At("cgroup", "drain") /\ Drain(t, Goto("remove"), fail)
         \/ At("cgroup", "remove") /\ RemoveDirectory(t, Return("Ok"), fail)
  /\ UNCHANGED <<lifecycle, elapsed, inodes, owned>>

-----------------------------------------------------------------------------
\* A process starts: TaskSupervisor::recover ends every Task of the store and
\* returns all of them.  Their cgroups are to be removed, in ascending order.
StartRuntime ==
  /\ runtime = "down"
  /\ runtime' = "starting"
  /\ recovered' = recorded
  /\ call' = [NoCall EXCEPT !.adapter = "reconcile", !.pc = "next"]
  /\ UNCHANGED <<recorded, spec, elapsed, cgroupVars, processVars>>

ReconcileAt(pc) == runtime = "starting" /\ call.pc = pc

\* Mutant: a cgroup that cannot be cleaned up is passed over.
SkipCgroup == Goto("next") /\ UNCHANGED runtime

\* An error ends the start-up, and with it the process.
AbortStartup == runtime' = "down" /\ call' = NoCall
ContinueStartup(pc) == Goto(pc) /\ UNCHANGED runtime

\* The next id whose directory exists, the end of start-up, or the deadline.
ReconcileNext ==
  /\ ReconcileAt("next")
  /\ LET rest == {t \in recovered : t > call.task}
     IN  \/ /\ rest = {}
            /\ runtime' = "up"
            /\ call' = NoCall
         \/ \E t \in rest :
              /\ \A u \in rest : t <= u
              /\ call' = [call EXCEPT !.task = t,
                            !.pc = IF t \in DOMAIN cgroups THEN "terminate"
                                   ELSE "next"]
              /\ UNCHANGED runtime
         \/ AbortStartup
  /\ UNCHANGED <<recorded, spec, recovered, elapsed, cgroupVars, processVars>>

ReconcileStep ==
  /\ LET t == call.task
     IN  \/ /\ ReconcileAt("terminate")
            /\ KillMembers(t, ContinueStartup("drain"), AbortStartup)
         \/ ReconcileAt("drain") /\ Drain(t, ContinueStartup("remove"), AbortStartup)
         \/ /\ ReconcileAt("remove")
            /\ RemoveDirectory(t, ContinueStartup("next"), AbortStartup)
  /\ UNCHANGED <<recorded, spec, recovered, elapsed, inodes, owned>>

=============================================================================

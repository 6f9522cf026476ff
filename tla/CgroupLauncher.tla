--------------------------- MODULE CgroupLauncher ---------------------------
(***************************************************************************)
(* A process the runtime has spawned, from the launcher that puts itself   *)
(* into the cgroup (aios-adapter-process/src/bin/aios-cgroup-launch.rs) to *)
(* the end of the Tool it becomes.  The launcher runs on its own: the      *)
(* runtime may kill it, remove its cgroup or die between any two steps.    *)
(*                                                                         *)
(* A process is a record                                                   *)
(*   task      the Task it runs for, or 0                                  *)
(*   home      the Task whose cgroup it was given, or 0                    *)
(*   inode     the inode of that cgroup, or 0                              *)
(*   kind      "direct"; bubblewrap: "bare", "legacy" or "broker"          *)
(*   pc        "spawned", "opened", "received", "joined", "running";       *)
(*             "exited" or "failed" until the runtime has waited for it    *)
(*   dying     SIGKILL has been sent                                       *)
(*   refused   the runtime was not allowed to send it                      *)
(*   mounts    the destinations on its command line                        *)
(*   fds       the descriptors it has inherited or been sent               *)
(*   binds     what bubblewrap mounts: <<destination, object>>             *)
(*   filter    the object bubblewrap loads as its system call filter       *)
(*   strayed   the filter has let through a system call that it should not *)
(* Bubblewrap and the Tool inside are one process, as the PID namespace    *)
(* and --die-with-parent make them end together.                           *)
(***************************************************************************)
EXTENDS TaskCgroup, Seccomp

CONSTANT Syscalls       \* the system calls a Tool tries

FilterFile == "filter"

Sandboxed == {"bare", "legacy", "broker"}
InCgroup == {"legacy", "broker"}

Alive(p) == p \in DOMAIN proc /\ proc[p].pc \notin {"exited", "failed"}
Acts(p, kinds, pc) ==
  p \in DOMAIN proc /\ proc[p].kind \in kinds /\ proc[p].pc = pc /\ ~proc[p].dying

launcherUnchanged == UNCHANGED <<lifecycle, elapsed, call, cgroupVars, child>>

Step(p, pc) == proc' = [proc EXCEPT ![p].pc = pc]

\* A process that ends is kept until it is waited for; one whose parent is
\* gone is not.
End(p, status) ==
  proc' = IF p = child THEN [proc EXCEPT ![p].pc = status, ![p].dying = FALSE]
          ELSE Without(proc, {p})

-----------------------------------------------------------------------------
\* open_cgroup_procs: the directory is the one named on the command line.
LauncherOpens(p) ==
  /\ Acts(p, InCgroup, "spawned")
  /\ IF IsCgroup(proc[p].home, proc[p].inode) THEN Step(p, "opened")
     ELSE End(p, "failed")
  /\ launcherUnchanged

\* receive_descriptors: one message, with one descriptor more than mounts.  If
\* the sender is gone, and nothing was sent, the stream has ended.
LauncherReceives(p) ==
  /\ Acts(p, {"broker"}, "opened")
  /\ proc[p].fds # <<>> \/ p # child
  /\ IF Len(proc[p].fds) = Len(proc[p].mounts) + 1 THEN Step(p, "received")
     ELSE End(p, "failed")
  /\ launcherUnchanged

\* The launcher writes its pid to cgroup.procs through the open file: ENODEV
\* when the directory has been removed since.
LauncherJoins(p) ==
  /\ Acts(p, {"legacy"}, "opened") \/ Acts(p, {"broker"}, "received")
  /\ IF IsCgroup(proc[p].home, proc[p].inode) THEN Step(p, "joined")
     ELSE End(p, "failed")
  /\ launcherUnchanged

\* mounts.iter().zip(descriptors.iter().skip(1))
PairMounts(mounts, fds) == {<<mounts[i], fds[i + 1]>> : i \in DOMAIN mounts}

\* exec of bubblewrap, which mounts, loads the filter and runs the Tool.
LauncherExecs(p) ==
  /\ Acts(p, InCgroup, "joined") \/ Acts(p, {"bare"}, "spawned")
  /\ proc' = [proc EXCEPT ![p].pc = "running",
                          ![p].filter = proc[p].fds[1],
                          ![p].binds = PairMounts(proc[p].mounts, proc[p].fds)]
  /\ launcherUnchanged

\* A malformed command line, a descriptor among the standard ones, an
\* executable that is gone: the launcher exits with 125.
LauncherFails(p) ==
  /\ \/ \E pc \in {"spawned", "opened", "received", "joined"} :
          Acts(p, InCgroup, pc)
     \/ Acts(p, {"bare"}, "spawned")
  /\ End(p, "failed")
  /\ launcherUnchanged

-----------------------------------------------------------------------------
\* The Tool, external.  The kernel consults the filter on every system call.
ToolCalls(p, data) ==
  /\ Acts(p, Sandboxed, "running")
  /\ IF proc[p].filter = FilterFile /\ Verdict(DefaultFilter, data) = "kill"
     THEN End(p, "failed")
     ELSE proc' = [proc EXCEPT ![p].strayed = @ \/ ~IsReviewed(data)]
  /\ launcherUnchanged

ToolExits(p) ==
  /\ Acts(p, Sandboxed \cup {"direct"}, "running")
  /\ End(p, "exited") \/ End(p, "failed")
  /\ launcherUnchanged

ProcessDies(p) ==
  /\ Alive(p)
  /\ proc[p].dying
  /\ End(p, "failed")
  /\ launcherUnchanged

\* The Tool uses up the CPU time, or meets the memory limit of its cgroup,
\* which then may be killed as a group.
LimitReached(p) ==
  /\ Acts(p, InCgroup, "running")
  /\ cgroups' = [cgroups EXCEPT ![proc[p].home].over = TRUE]
  /\ UNCHANGED proc \/ Kill(Members(proc[p].inode))
  /\ UNCHANGED <<lifecycle, elapsed, call, inodes, owned, child>>

ProcessStep(p) ==
  \/ LauncherOpens(p)
  \/ LauncherReceives(p)
  \/ LauncherJoins(p)
  \/ LauncherExecs(p)
  \/ LauncherFails(p)
  \/ \E data \in Syscalls : ToolCalls(p, data)
  \/ ToolExits(p)
  \/ ProcessDies(p)
  \/ LimitReached(p)

=============================================================================

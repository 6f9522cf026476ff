------------------------------ MODULE Sandbox -------------------------------
(***************************************************************************)
(* The directories a sandbox is made of, before any Tool runs in it: the   *)
(* sealed root file system (aios-adapter-process/src/rootfs.rs and         *)
(* bin/aios-rootfs-build.rs) and the scratch directory of a Task           *)
(* (TaskScratchManager of lib.rs), and the checks of both before every     *)
(* spawn.  ProcessAdapter takes these checks for one that may fail.        *)
(*                                                                         *)
(* A tree is a function from names to entries; "/" is its root.  A digest  *)
(* is the part of a tree that is hashed: SHA-256 is taken to have no       *)
(* collisions.  A change of a tree while it is being measured is one       *)
(* between the check and the use, which the code does not rule out.        *)
(***************************************************************************)
EXTENDS AdapterCall, SequencesExt, FiniteSetsExt

CONSTANTS
  Builders,        \* processes of aios-rootfs-build
  Outputs,         \* where they build
  Contents,        \* what the BusyBox executable may hold, none a part of another
  MaxFileBytes,    \* MAX_ROOT_FILESYSTEM_FILE_BYTES
  MaxTotalBytes,   \* MAX_ROOT_FILESYSTEM_TOTAL_BYTES
  MaxEntries,      \* MAX_ROOT_FILESYSTEM_ENTRIES
  MaxChanges       \* bound: changes by anybody else

VARIABLES
  trees,      \* output -> [inode, entries, changed]
  source,     \* what the BusyBox executable holds now
  builders,   \* builder -> its build in progress
  printed,    \* [output, digest]: what the builders have printed
  changes,    \* bound: how many there have been
  scratch,    \* Task -> its directory [inode, used]; durable
  root,       \* identity of the scratch root; durable
  handles,    \* what trusted code holds: [manager, creating, given, verified]
  launch      \* run_checked_with_timeout, from the checks to the spawn

sandboxVars ==
  <<trees, source, builders, printed, changes, scratch, root, handles, launch>>

NoBuild == [output |-> "none", at |-> 0, length |-> 0, digest |-> EmptyMap]
NoRoot == [output |-> "none", inode |-> 0, digest |-> EmptyMap]
NoHandles ==
  [manager |-> 0, creating |-> [task |-> 0, pc |-> "idle"],
   given |-> EmptyMap, verified |-> NoRoot]
NoLaunch ==
  [task |-> 0, pc |-> "idle", verified |-> NoRoot, stale |-> FALSE]

Directory(mode) == [kind |-> "dir", mode |-> mode, data |-> <<>>, links |-> 1]
File(mode, bytes) == [kind |-> "file", mode |-> mode, data |-> bytes, links |-> 1]

DirectoryNames == <<"bin", "proc", "dev", "tmp", "workspace">>
BusyBox == "bin/busybox"

\* The part of a tree that measure_tree hashes.
Digest(entries) ==
  [n \in DOMAIN entries |->
     [kind |-> entries[n].kind, mode |-> entries[n].mode, data |-> entries[n].data]]

\* What a build ends with.
Sealed(bytes) ==
  [n \in {"/", BusyBox} \cup Range(DirectoryNames) |->
     IF n = BusyBox THEN File(555, bytes) ELSE Directory(555)]

\* Where a root has been built before, its digest is in the configuration.
SandboxInit(built) ==
  /\ source = CHOOSE bytes \in Contents : TRUE
  /\ trees = [o \in Outputs |->
                [inode |-> IF o \in built THEN 1 ELSE 0,
                 entries |-> IF o \in built THEN Sealed(source) ELSE EmptyMap,
                 changed |-> FALSE]]
  /\ builders = [b \in Builders |-> NoBuild]
  /\ printed = {[output |-> o, digest |-> Digest(Sealed(source))] : o \in built}
  /\ changes = 0
  /\ scratch = EmptyMap
  /\ root = 1
  /\ handles = NoHandles
  /\ launch = NoLaunch

-----------------------------------------------------------------------------
\* Measuring: modes are octal, 0o222 the bits nobody may have.
Writable(mode) == mode \in {700, 755}

Files(entries) == {n \in DOMAIN entries : entries[n].kind = "file"}

\* collect_relative_paths and measure_tree: what they refuse.
Measurable(entries) ==
  /\ "/" \in DOMAIN entries
  /\ Cardinality(DOMAIN entries \ {"/"}) <= MaxEntries
  /\ \A n \in DOMAIN entries :
       entries[n].kind \in {"dir", "file"} /\ ~Writable(entries[n].mode)
  /\ \A n \in Files(entries) :
       entries[n].links = 1 /\ Len(entries[n].data) <= MaxFileBytes
  /\ MapThenSumSet(LAMBDA n : Len(entries[n].data), Files(entries)) <= MaxTotalBytes

\* validate_sandbox_mount_points
HasMountPoints(entries) ==
  \A n \in {"proc", "dev", "tmp", "workspace"} :
    n \in DOMAIN entries /\ entries[n].kind = "dir"

\* Mutant: a directory is known again by its identity alone.
ValidateIdentity(output, inode, digest) == trees[output].inode = inode

ValidateTree(output, inode, digest) ==
  /\ trees[output].inode = inode
  /\ Measurable(trees[output].entries)
  /\ Digest(trees[output].entries) = digest

-----------------------------------------------------------------------------
\* build_minimal_root_filesystem: one operation of the file system after the
\* other, the first to fail being the last.
Operation(op, name) == [op |-> op, at |-> name]
Each(op) == [i \in DOMAIN DirectoryNames |-> Operation(op, DirectoryNames[i])]

\* Mutant: the tree is sealed around the open file.
ScriptSealsFirst ==
  <<Operation("mkdir", "/")>> \o Each("mkdir")
  \o <<Operation("open", BusyBox), Operation("create", BusyBox), Operation("chmod", BusyBox)>>
  \o Each("chmod") \o <<Operation("chmod", "/"), Operation("copy", BusyBox)>>

Script ==
  <<Operation("mkdir", "/")>> \o Each("mkdir")
  \o <<Operation("open", BusyBox), Operation("create", BusyBox), Operation("copy", BusyBox),
       Operation("chmod", BusyBox)>>
  \o Each("chmod") \o <<Operation("chmod", "/")>>

\* Arguments and executable are as they should be; output need not be new.
BeginBuild(b, output) ==
  /\ builders[b] = NoBuild
  /\ Len(source) <= MaxFileBytes
  /\ builders' = [builders EXCEPT ![b] =
       [NoBuild EXCEPT !.output = output, !.at = 1, !.length = Len(source)]]
  /\ UNCHANGED <<trees, source, printed, changes, scratch, root, handles, launch>>

NewInode == 1 + Max({trees[o].inode : o \in Outputs})

\* What is there after a step that succeeds.
CanDo(entries, step, length) ==
  CASE step.op \in {"mkdir", "create"} ->
         /\ step.at \notin DOMAIN entries
         /\ step.at # "/" => "/" \in DOMAIN entries
    [] step.op \in {"open", "copy"} -> Len(source) = length
    [] step.op = "chmod" -> step.at \in DOMAIN entries

Do(entries, step) ==
  CASE step.op = "mkdir" -> Insert(entries, step.at, Directory(700))
    [] step.op = "create" ->
         Insert(entries, step.at, File(500, <<>>))
    [] step.op = "open" -> entries
    [] step.op = "copy" -> [entries EXCEPT ![step.at].data = source]
    [] step.op = "chmod" -> [entries EXCEPT ![step.at].mode = 555]

BuildStep(b) ==
  LET build == builders[b]
      tree == trees[build.output]
      step == Script[build.at]
  IN
  /\ build.at \in DOMAIN Script
  /\ CanDo(tree.entries, step, build.length)
  /\ builders' = [builders EXCEPT ![b].at = @ + 1]
  /\ trees' = [trees EXCEPT ![build.output] =
       [tree EXCEPT !.entries = Do(tree.entries, step),
                    !.inode = IF step.at = "/" /\ step.op = "mkdir" THEN NewInode ELSE @]]
  /\ UNCHANGED <<source, printed, changes, scratch, root, handles, launch>>

\* A step fails, or the builder dies: what there is stays.  The copy may have
\* written a part of the file, or another number of bytes than were announced.
BuildStops(b) ==
  LET build == builders[b] IN
  /\ build # NoBuild
  /\ builders' = [builders EXCEPT ![b] = NoBuild]
  /\ \/ UNCHANGED trees
     \/ /\ build.at \in DOMAIN Script
        /\ Script[build.at].op = "copy"
        /\ \E n \in 1..Len(source) :
             /\ n = Len(source) => n # build.length
             /\ trees' = [trees EXCEPT ![build.output].entries[BusyBox].data =
                            SubSeq(source, 1, n)]
  /\ UNCHANGED <<source, printed, changes, scratch, root, handles, launch>>

\* RootFilesystemDigest::measure, VerifiedRootFilesystem::open, println.
BuildMeasures(b) ==
  LET build == builders[b] IN
  /\ build.at = Len(Script) + 1
  /\ Measurable(trees[build.output].entries)
  /\ builders' = [builders EXCEPT ![b] =
       [build EXCEPT !.at = @ + 1, !.digest = Digest(trees[build.output].entries)]]
  /\ UNCHANGED <<trees, source, printed, changes, scratch, root, handles, launch>>

BuildPrints(b) ==
  LET build == builders[b] IN
  /\ build.at = Len(Script) + 2
  /\ HasMountPoints(trees[build.output].entries)
  /\ ValidateTree(build.output, trees[build.output].inode, build.digest)
  /\ printed' = printed \cup {[output |-> build.output, digest |-> build.digest]}
  /\ builders' = [builders EXCEPT ![b] = NoBuild]
  /\ UNCHANGED <<trees, source, changes, scratch, root, handles, launch>>

-----------------------------------------------------------------------------
\* Other processes of the host: they write a new executable in place of the
\* source, change, seal and unseal entries, add them, put a copy of the tree in
\* its place, remove one that nobody is building, or put another directory in
\* place of the scratch root.
ChangedTrees(tree) ==
  {[tree EXCEPT !.entries[n].mode = m] : n \in DOMAIN tree.entries, m \in {555, 755}}
  \cup {[tree EXCEPT !.entries[n].data = d] : n \in Files(tree.entries), d \in Contents}
  \cup {[tree EXCEPT !.entries = Insert(tree.entries, "bin/other", e)] :
          e \in {[kind |-> "link", mode |-> 555, data |-> <<>>, links |-> 1],
                 [File(555, <<>>) EXCEPT !.links = 2]}}
  \cup {[tree EXCEPT !.inode = NewInode]}

HostChangesTree(output) ==
  /\ changes < MaxChanges
  /\ changes' = changes + 1
  /\ trees[output].entries # EmptyMap
  /\ \E tree \in ChangedTrees(trees[output]) :
       /\ tree # trees[output]
       /\ trees' = [trees EXCEPT ![output] = [tree EXCEPT !.changed = TRUE]]
  /\ launch' = IF launch.verified.output = output
               THEN [launch EXCEPT !.stale = TRUE] ELSE launch
  /\ UNCHANGED <<source, builders, printed, scratch, root, handles>>

HostRemovesTree(output) ==
  /\ changes < MaxChanges
  /\ changes' = changes + 1
  /\ \A b \in Builders : builders[b].output # output
  /\ trees[output].entries # EmptyMap
  /\ trees' = [trees EXCEPT ![output].entries = EmptyMap]
  /\ launch' = IF launch.verified.output = output
               THEN [launch EXCEPT !.stale = TRUE] ELSE launch
  /\ UNCHANGED <<source, builders, printed, scratch, root, handles>>

HostChangesSource ==
  /\ changes < MaxChanges
  /\ changes' = changes + 1
  /\ source' \in Contents \ {source}
  /\ UNCHANGED <<trees, builders, printed, scratch, root, handles, launch>>

HostReplacesScratchRoot ==
  /\ changes < MaxChanges
  /\ changes' = changes + 1
  /\ root' = root + 1
  /\ scratch' = EmptyMap
  /\ launch' = [launch EXCEPT !.stale = TRUE]
  /\ UNCHANGED <<trees, source, builders, printed, handles>>

-----------------------------------------------------------------------------
\* TaskScratchManager::new, and create in steps.
creating == handles.creating
Creating(pc) == runtime = "up" /\ creating.pc = pc
AtRest == Creating("idle") /\ launch = NoLaunch
NotCreating == [task |-> 0, pc |-> "idle"]

NewManager ==
  /\ AtRest
  /\ handles.manager # root
  /\ handles' = [handles EXCEPT !.manager = root]
  /\ UNCHANGED <<trees, source, builders, printed, changes, scratch, root, launch>>

\* validate_root comes first; when it fails nothing has happened.
BeginCreate(t) ==
  /\ AtRest
  /\ t \in recorded
  /\ handles.manager # 0 /\ handles.manager = root
  /\ handles' = [handles EXCEPT !.creating = [task |-> t, pc |-> "mkdir"]]
  /\ UNCHANGED <<trees, source, builders, printed, changes, scratch, root, launch>>

\* An inode that has become free is used again.
NewDirectory ==
  [inode |-> <<root, Min(1..(Cardinality(DOMAIN scratch) + 1)
                         \ {scratch[t].inode[2] : t \in DOMAIN scratch})>>,
   used |-> FALSE]

\* remove_dir
RemoveIfEmpty(t) ==
  Without(scratch, {u \in {t} \cap DOMAIN scratch : ~scratch[u].used})

\* create_owner_only_directory: a directory that exists is an error, and not
\* removed.
MakeDirectory ==
  /\ Creating("mkdir")
  /\ \/ /\ creating.task \notin DOMAIN scratch
        /\ scratch' = Insert(scratch, creating.task, NewDirectory)
        /\ handles' = [handles EXCEPT !.creating.pc = "validate"]
     \/ /\ handles' = [handles EXCEPT !.creating = NotCreating]
        /\ UNCHANGED scratch
  /\ UNCHANGED <<trees, source, builders, printed, changes, root, launch>>

\* The root is still the one, and the directory is in it; if not, or if that
\* cannot be read, it is removed, or what is at its path, as long as it is empty.
ValidateScratch ==
  /\ Creating("validate")
  /\ \/ /\ handles.manager = root
        /\ creating.task \in DOMAIN scratch
        /\ handles' = [handles EXCEPT
             !.creating = NotCreating,
             !.given = Insert(@, creating.task, scratch[creating.task])]
        /\ UNCHANGED scratch
     \/ /\ handles' = [handles EXCEPT !.creating = NotCreating]
        /\ scratch' = RemoveIfEmpty(creating.task)
  /\ UNCHANGED <<trees, source, builders, printed, changes, root, launch>>

-----------------------------------------------------------------------------
\* VerifiedRootFilesystem::open with a digest from trusted configuration.
OpenVerified(p) ==
  /\ AtRest
  /\ p \in printed
  /\ HasMountPoints(trees[p.output].entries)
  /\ ValidateTree(p.output, trees[p.output].inode, p.digest)
  /\ handles' = [handles EXCEPT !.verified =
       [output |-> p.output, inode |-> trees[p.output].inode, digest |-> p.digest]]
  /\ UNCHANGED <<trees, source, builders, printed, changes, scratch, root, launch>>

\* A handler for a Task, with a verified root or without, is built and run; the
\* checks of build are those of the run.
BeginLaunch(t, verified) ==
  /\ AtRest
  /\ t \in DOMAIN handles.given
  /\ verified \in {NoRoot, handles.verified}
  /\ t \in DOMAIN scratch /\ scratch[t].inode = handles.given[t].inode
  /\ verified # NoRoot => ValidateTree(verified.output, verified.inode, verified.digest)
  /\ launch' = [task |-> t, pc |-> "checked", verified |-> verified, stale |-> FALSE]
  /\ UNCHANGED <<trees, source, builders, printed, changes, scratch, root, handles>>

\* The mounts are made from the paths, and the Tool writes to its workspace.
Mount ==
  /\ runtime = "up"
  /\ launch.pc = "checked"
  /\ launch' = [launch EXCEPT !.pc = "mounted"]
  /\ scratch' = [t \in DOMAIN scratch |->
                   IF t = launch.task
                   THEN [scratch[t] EXCEPT !.used = TRUE] ELSE scratch[t]]
  /\ UNCHANGED <<trees, source, builders, printed, changes, root, handles>>

EndLaunch ==
  /\ runtime = "up"
  /\ launch.pc = "mounted"
  /\ launch' = NoLaunch
  /\ UNCHANGED <<trees, source, builders, printed, changes, scratch, root, handles>>

SandboxCrash ==
  /\ handles' = NoHandles
  /\ launch' = NoLaunch
  /\ UNCHANGED <<trees, source, builders, printed, changes, scratch, root>>

=============================================================================

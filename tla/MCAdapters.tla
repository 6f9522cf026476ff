----------------------------- MODULE MCAdapters -----------------------------
(***************************************************************************)
(* Small instance of Adapters for TLC.                                     *)
(***************************************************************************)
EXTENDS Adapters

\* "/a", "/a/b" and "/ab": the last is a sibling that shares a prefix.
DirA == <<"/", "a">>
FileAB == <<"/", "a", "/", "b">>
SiblingAB == <<"/", "a", "b">>

MCPaths == {FileAB, SiblingAB}
MCDirectories == {DirA}

MCAddress == [name |-> "10.0.0.1", valid |-> TRUE, ip |-> TRUE]
MCHosts == {MCAddress}
MCPorts == {80}

Plain ==
  [goal |-> [blank |-> FALSE, chars |-> 1], idempotency_key |-> "key",
   filesystem |-> <<>>, network |-> [mode |-> "Deny", destinations |-> <<>>],
   tools |-> <<"x">>, required_for |-> <<>>,
   budget |-> [wall_time_seconds |-> 1, memory_bytes |-> 1, max_parallel_agents |-> 1]]
Reads(path) == [path |-> path, access |-> "Read"]
Writes(path) == [path |-> path, access |-> "Write"]
Allow(destinations) == [mode |-> "Allow", destinations |-> destinations]

\* A writer, a reader with nested mounts, and a Task with nothing but a Tool.
Writer ==
  [Plain EXCEPT !.filesystem = <<Writes(DirA)>>,
                !.network = Allow(<<[host |-> MCAddress, port |-> 80]>>)]
Reader == [Plain EXCEPT !.filesystem = <<Reads(DirA), Reads(FileAB)>>]
Caller == [Plain EXCEPT !.required_for = <<"use">>]

\* Specifications at and beyond the limits, in each field.
OddPaths ==
  {<<>>, <<"/">>, <<"a">>, DirA, <<"/", "a", "/">>, FileAB,
   <<"/", "a", "/", "/", "b">>, <<"/", ".">>, <<"/", ".", ".">>,
   <<"/", "a", "/", ".", ".", "/", "b">>, <<"/", ".", "a">>,
   <<"/", "a", "/", "a", "/", "a", "/", "a">>,
   <<"/", "a", "/", "a", "/", "a", "/", "a", "b">>}
OddHosts == {MCAddress, [name |-> "-", valid |-> FALSE, ip |-> FALSE]}
OddDestinations == [host : OddHosts, port : {0, 80}]
Lists(S) == UNION {[1..n -> S] : n \in 0..2}

OddSpecs ==
  {[Plain EXCEPT !.filesystem = <<Writes(path)>>] : path \in OddPaths}
  \cup {[Plain EXCEPT !.filesystem = l] :
          l \in {<<Reads(DirA), Writes(DirA)>>, <<Reads(DirA), Reads(DirA)>>,
                 <<Reads(DirA), Writes(DirA), Reads(FileAB)>>,
                 <<Reads(FileAB), Reads(<<"/">>)>>}}
  \cup {[Plain EXCEPT !.network = [mode |-> m, destinations |-> l]] :
          m \in {"Deny", "Allow"}, l \in Lists(OddDestinations)}
  \cup {[Plain EXCEPT !.tools = l] : l \in Lists({"x", "b d"})}
  \cup {[Plain EXCEPT !.required_for = l] : l \in Lists({"use", "b d"})}
  \cup {[Plain EXCEPT !.goal = g, !.idempotency_key = k] :
          g \in [blank : BOOLEAN, chars : {1, 2, 3}], k \in {"key", "b d"}}
  \cup {[Plain EXCEPT !.budget = b] :
          b \in [wall_time_seconds : {0, 1}, memory_bytes : {0, 1},
                 max_parallel_agents : {0, 1, 8, 9}]}

AllOf(T, S) == [t \in T |-> S]

\* The adapters share the Tasks and their time only, so that each family is
\* looked at by itself; and a cgroup that is made again is looked at with one
\* Task.
NoAdapter ==
  [adapters |-> {}, launchers |-> {}, tasks |-> AllOf({1}, {Caller}),
   tools |-> {}, inodes |-> 0, processes |-> 0, builders |-> {}, outputs |-> {}]

FilesAndNetwork ==
  [NoAdapter EXCEPT !.adapters = {"filesystem", "network"},
                    !.tasks = AllOf({1, 2}, {Writer})]
PlainTools ==
  [NoAdapter EXCEPT !.adapters = {"tool"}, !.launchers = {"function", "direct"},
                    !.tasks = AllOf({1, 2}, {Caller}), !.tools = {"x", "y"},
                    !.processes = 2]
SandboxedTools ==
  [NoAdapter EXCEPT !.adapters = {"tool"}, !.launchers = {"bubblewrap"},
                    !.tasks = <<{Reader}, {Caller}>>,
                    !.tools = {"x"}, !.inodes = 1, !.processes = 1]
CgroupAgain ==
  [SandboxedTools EXCEPT !.tasks = AllOf({1}, {Reader, Caller}), !.inodes = 2]
Specifications == [NoAdapter EXCEPT !.tasks = AllOf({1}, OddSpecs)]
TwoBuilders ==
  [NoAdapter EXCEPT !.tasks = EmptyMap, !.builders = {1, 2}, !.outputs = {"r1"}]
SealedSandboxes ==
  [NoAdapter EXCEPT !.adapters = {"scratch"}, !.outputs = {"r1"}]
ScratchDirectories ==
  [NoAdapter EXCEPT !.adapters = {"scratch"}, !.tasks = AllOf({1, 2}, {Caller})]

MCDeployments ==
  {FilesAndNetwork, PlainTools, SandboxedTools, CgroupAgain, Specifications,
   TwoBuilders, SealedSandboxes, ScratchDirectories}

MCContents == {<<"a", "b">>, <<"b", "b">>, <<"c">>}

\* A permitted call, a blocked one, an unknown one, and a foreign one.
MCSyscalls ==
  {[arch |-> "x86_64", nr |-> 0], [arch |-> "x86_64", nr |-> 470],
   [arch |-> "x86_64", nr |-> 471], [arch |-> "i386", nr |-> 0]}

=============================================================================

------------------------- MODULE CapabilityMatching -------------------------
(***************************************************************************)
(* How a request is matched with the capabilities of a Task:               *)
(* evaluate_file, evaluate_network and evaluate_tool of                    *)
(* aios-core/src/policy.rs, and the lexical checks of aios-core/src/task.rs *)
(* they share with TaskSpec::validate.                                     *)
(*                                                                         *)
(* Paths are compared as text, and the property about them is that this    *)
(* text comparison respects directories, so a path is the sequence of its  *)
(* characters.  Hosts and identifiers are only ever compared for equality: *)
(* they are atoms, with the verdict of their lexical check.                *)
(*                                                                         *)
(* A Task specification is a record                                        *)
(*   filesystem    set of [path, access]                                   *)
(*   network       set of [host, port]; empty for NetworkPolicy::Deny      *)
(*   tools         set of tool names                                       *)
(*   required_for  set of approval actions                                 *)
(***************************************************************************)
EXTENDS CapabilityPolicy, Integers, Sequences, SequencesExt, FiniteSetsExt

CONSTANTS
  MaxPathBytes,   \* MAX_PATH_BYTES
  Identifiers     \* the texts that are made of the right characters, and of at
                  \* least one and not too many

ASSUME MaxPathBytesAssumption == MaxPathBytes \in Nat

-----------------------------------------------------------------------------
\* split('/').skip(1) of a path that begins with '/': one component after
\* each separator, up to the next one or the end.
Separators(path) == {i \in DOMAIN path : path[i] = "/"}

ComponentAt(path, i) ==
  LET next == Min({j \in Separators(path) : j > i} \cup {Len(path) + 1})
  IN  SubSeq(path, i + 1, next - 1)

\* A null character is not among the characters of a path here.
IsNormalizedAbsolutePath(path) ==
  /\ Len(path) > 1
  /\ path[1] = "/"
  /\ Len(path) <= MaxPathBytes
  /\ \A i \in Separators(path) :
       ComponentAt(path, i) \notin {<<>>, <<".">>, <<".", ".">>}

\* Mutant: the character after the prefix is not looked at.
PathHasPrefix(path, capability) == IsPrefix(capability, path)

PathIsWithin(path, capability) ==
  \/ path = capability
  \/ IsStrictPrefix(capability, path) /\ path[Len(capability) + 1] = "/"

EvaluateFile(spec, path, access) ==
  IF ~IsNormalizedAbsolutePath(path) THEN "Deny"
  ELSE Finish(spec,
              \E c \in spec.filesystem :
                c.access = access /\ PathIsWithin(path, c.path),
              IF access = "Read" THEN "filesystem.read" ELSE "filesystem.write")

\* A host is [name, valid, ip]: is_valid_network_host accepts it; it parses as
\* an address a connection can be made to.
EvaluateNetwork(spec, host, port) ==
  IF ~host.valid \/ port = 0 THEN "Deny"
  ELSE Finish(spec, [host |-> host, port |-> port] \in spec.network,
              "network.egress")

IsValidIdentifier(value) == value \in Identifiers

EvaluateTool(spec, tool, action) ==
  IF ~IsValidIdentifier(tool) \/ ~IsValidIdentifier(action) THEN "Deny"
  ELSE Finish(spec, tool \in spec.tools, action)

-----------------------------------------------------------------------------
\* The reference: the components of a path in order, and containment of
\* directories as a relation between such sequences.
Components(path) ==
  LET at(k) == CHOOSE i \in Separators(path) :
                 Cardinality({j \in Separators(path) : j <= i}) = k
  IN  [k \in 1..Cardinality(Separators(path)) |-> ComponentAt(path, at(k))]

IsBeneath(path, directory) == IsPrefix(Components(directory), Components(path))

=============================================================================

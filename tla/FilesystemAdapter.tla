------------------------- MODULE FilesystemAdapter --------------------------
(***************************************************************************)
(* The create-new writer: aios-adapter-filesystem/src/lib.rs.  One call     *)
(* makes one file beneath the root it was opened with, and writes it.      *)
(***************************************************************************)
EXTENDS AdapterCall, CapabilityMatching, Maps

CONSTANTS Paths,        \* the paths that are asked for
          Directories   \* the directories beneath the root

VARIABLES
  files,   \* path -> [task, data]; data is "empty", "partial" or "whole"
  target   \* the path of the call

fsVars == <<files, target>>

\* validate_operation: the rules of the policy once more.  Contents that are too
\* long are refused before there is a request.
ValidateFileOperation(path) == IsNormalizedAbsolutePath(path)

\* prepare_create, and the gate: the policy has allowed the write, at once or
\* after an approval.
RequestCreate(t, path) ==
  /\ t \in Active
  /\ ValidateFileOperation(path)
  /\ EvaluateFile(spec[t], path, "Write") # "Deny"
  /\ BeginCall("filesystem", t, "execute")
  /\ target' = path
  /\ UNCHANGED <<lifecycle, elapsed, files>>

fsUnchanged == UNCHANGED <<lifecycle, elapsed, fsVars>>

\* execute and create_new, up to the first look at the clock.
ExecuteCreate ==
  /\ At("filesystem", "execute")
  /\ IF ValidateFileOperation(target) THEN CheckBudget("open")
     ELSE Return("InvalidOperation")
  /\ fsUnchanged

Parent(path) == SubSeq(path, 1, Max(Separators(path)) - 1)

\* Mutant: the file is opened with O_TRUNC in place of O_EXCL.
CanCreateOrTruncate(path) == Parent(path) \in Directories \cup {<<>>}

\* openat2 with O_CREAT and O_EXCL beneath the root, external: it makes a file
\* only where nothing is and in a directory that exists.
CanCreate(path) ==
  /\ path \notin DOMAIN files \cup Directories
  /\ Parent(path) \in Directories \cup {<<>>}

OpenNew ==
  /\ At("filesystem", "open")
  /\ CanCreate(target)
  /\ files' = Insert(files, target, [task |-> call.task, data |-> "empty"])
  /\ GotoAfterEffect("opened")
  /\ UNCHANGED <<lifecycle, elapsed, target>>

OpenFails ==
  /\ At("filesystem", "open")
  /\ Return("CreateFailed")
  /\ fsUnchanged

CheckBeforeWrite ==
  /\ At("filesystem", "opened")
  /\ CheckBudget("write")
  /\ fsUnchanged

\* write_all and sync_data.  An error of either leaves any part of the data.
WriteFile ==
  /\ At("filesystem", "write")
  /\ \/ /\ files' = [files EXCEPT ![target].data = "whole"]
        /\ Goto("written")
     \/ /\ \E data \in {"empty", "partial", "whole"} :
             files' = [files EXCEPT ![target].data = data]
        /\ Return("WriteFailed")
  /\ UNCHANGED <<lifecycle, elapsed, target>>

CheckAfterWrite ==
  /\ At("filesystem", "written")
  /\ IF BudgetLeft THEN Return("Ok") ELSE Return("BudgetExceeded")
  /\ fsUnchanged

FilesystemStep ==
  \/ ExecuteCreate
  \/ OpenNew
  \/ OpenFails
  \/ CheckBeforeWrite
  \/ WriteFile
  \/ CheckAfterWrite

=============================================================================

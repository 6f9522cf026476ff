------------------------------ MODULE Seccomp -------------------------------
(***************************************************************************)
(* The system call filter of a sandboxed Tool: default_filter_bytes of     *)
(* aios-adapter-process/src/seccomp.rs, as the classic BPF program it      *)
(* emits, and the machine that runs it (external: the kernel's).           *)
(***************************************************************************)
EXTENDS Integers, Sequences, SequencesExt

AUDIT_ARCH_X86_64 == "x86_64"
X32_SYSCALL_BIT == 1073741824
MAX_REVIEWED_SYSCALL == 470

BLOCKED_SYSCALLS ==
  <<101, 103, 135, 153, 155, 163, 164, 165, 166, 167, 168, 169, 172, 173, 175,
    176, 179, 212, 227, 246, 248, 249, 250, 272, 298, 300, 303, 304, 305, 308,
    310, 311, 312, 313, 320, 321, 323, 425, 426, 427, 428, 429, 430, 431, 432,
    433, 438, 440, 442, 443, 447, 448, 457, 458, 460, 461, 467, 468, 469, 470>>

\* FilterInstruction::statement and ::jump.  Encoding them as bytes is left out.
Statement(code, value) ==
  [code |-> code, value |-> value, jump_true |-> 0, jump_false |-> 0]
Jump(code, value, jump_true, jump_false) ==
  [code |-> code, value |-> value,
   jump_true |-> jump_true, jump_false |-> jump_false]

KillProcess == Statement("RET", "kill")

BlockInstructions(syscall) ==
  <<Jump("JEQ", syscall, 0, 1), KillProcess>>

DefaultFilter ==
  <<Statement("LD", "arch"),
    Jump("JEQ", AUDIT_ARCH_X86_64, 1, 0),
    KillProcess,
    Statement("LD", "nr"),
    Jump("JGE", X32_SYSCALL_BIT, 0, 1),
    KillProcess,
    Jump("JGT", MAX_REVIEWED_SYSCALL, 0, 1),
    KillProcess>>
  \o FlattenSeq([i \in DOMAIN BLOCKED_SYSCALLS |->
                   BlockInstructions(BLOCKED_SYSCALLS[i])])
  \o <<Statement("RET", "allow")>>

-----------------------------------------------------------------------------
\* The verdict of a program on data = [arch, nr]: a jump counts from the
\* instruction that follows it, and only ever goes forward.
Verdict(program, data) ==
  LET holds(i, a) ==
        CASE program[i].code = "JEQ" -> a = program[i].value
          [] program[i].code = "JGE" -> a >= program[i].value
          [] program[i].code = "JGT" -> a > program[i].value
      from[i \in 1..Len(program), field \in {"arch", "nr"}] ==
        LET at == program[i] IN
        CASE at.code = "RET" -> at.value
          [] at.code = "LD" -> from[i + 1, at.value]
          [] OTHER -> from[i + 1 + (IF holds(i, data[field]) THEN at.jump_true
                                    ELSE at.jump_false), field]
  IN  from[1, "arch"]

\* What the filter is for: a reviewed number of the native architecture that
\* is not on the list.
IsReviewed(data) ==
  /\ data.arch = AUDIT_ARCH_X86_64
  /\ data.nr <= MAX_REVIEWED_SYSCALL
  /\ \A i \in DOMAIN BLOCKED_SYSCALLS : data.nr # BLOCKED_SYSCALLS[i]

=============================================================================

------------------------------ MODULE SyscallAbi ------------------------------
(***************************************************************************)
(* The trap functions syscall0 .. syscall6 of src/syscall/raw/x86_64.rs:   *)
(* each is one `syscall` instruction whose inline-asm constraints place   *)
(* the call number and the arguments in registers, take the result from   *)
(* rax, and declare the registers the instruction destroys.  The compiler *)
(* trusts the constraints: every register that is neither an output nor   *)
(* declared clobbered is assumed to hold its old value afterwards.        *)
(*                                                                         *)
(* The kernel side is the x86_64 system-call ABI (arch/x86/entry): the    *)
(* number in rax, arguments in rdi, rsi, rdx, r10, r8, r9; the result in  *)
(* rax; the instruction itself overwrites rcx (return address) and r11    *)
(* (saved flags); every other register is preserved.                      *)
(*                                                                         *)
(* One call is one step: the registers are loaded, the kernel runs, and   *)
(* the register file after the trap is recorded.                          *)
(***************************************************************************)
EXTENDS Integers, Sequences

Regs == {"rax", "rdi", "rsi", "rdx", "r10", "r8", "r9", "rcx", "r11", "rbx"}

\* The inline-asm constraints of syscallK, K = 0 .. 6 (index K + 1): the
\* input registers of n, a1, .., aK in order, the output, the clobbers.
Asm(ins) == [ins |-> ins, out |-> "rax", clobbers |-> {"rcx", "r11"}]

\* Mutant: syscall4 loads its fourth argument into rcx, as the C function
\* call convention would.
SyscallAsm_rcx4 ==
  << Asm(<<"rax">>),
     Asm(<<"rax", "rdi">>),
     Asm(<<"rax", "rdi", "rsi">>),
     Asm(<<"rax", "rdi", "rsi", "rdx">>),
     Asm(<<"rax", "rdi", "rsi", "rdx", "rcx">>),
     Asm(<<"rax", "rdi", "rsi", "rdx", "r10", "r8">>),
     Asm(<<"rax", "rdi", "rsi", "rdx", "r10", "r8", "r9">>) >>

\* Mutant: the clobber lists omit r11.
SyscallAsm_keepR11 ==
  [k \in 1 .. 7 |->
     [ins |-> SubSeq(<<"rax", "rdi", "rsi", "rdx", "r10", "r8", "r9">>, 1, k),
      out |-> "rax", clobbers |-> {"rcx"}]]

SyscallAsm ==
  << Asm(<<"rax">>),
     Asm(<<"rax", "rdi">>),
     Asm(<<"rax", "rdi", "rsi">>),
     Asm(<<"rax", "rdi", "rsi", "rdx">>),
     Asm(<<"rax", "rdi", "rsi", "rdx", "r10">>),
     Asm(<<"rax", "rdi", "rsi", "rdx", "r10", "r8">>),
     Asm(<<"rax", "rdi", "rsi", "rdx", "r10", "r8", "r9">>) >>

\* The kernel's argument registers, in order.
KernelArgRegs == <<"rdi", "rsi", "rdx", "r10", "r8", "r9">>

\* Values: the registers' old contents, the call number, the arguments, the
\* result, and what the instruction leaves in rcx and r11.
Old(r)  == "old " \o r
Number  == "nr"
Arg(i)  == <<"a1", "a2", "a3", "a4", "a5", "a6">>[i]
Result  == "ret"
RetAddr == "rip"
Flags   == "rflags"

(***************************************************************************)
(* The wrappers of x86_64.rs that stand in for a kernel entry point of    *)
(* another name (common::pread64 for pread, ...) or trap a number with    *)
(* call! (iopl, mmap, clone, arch_prctl): the kernel function called and  *)
(* the wrapper's parameters it passes, as positions in the wrapper's       *)
(* signature.  fadvise passes `len as size_t`, which keeps the 64-bit     *)
(* pattern of the loff_t.                                                  *)
(***************************************************************************)
W(f, ps) == [entry |-> f, pass |-> ps]

\* Mutant: clone passes tls before child_tidptr (the CLONE_BACKWARDS order).
Wrappers_cloneBackwards ==
  [pread |-> W("pread64", <<1, 2, 3, 4>>), clone |-> W("clone", <<1, 2, 3, 5, 4>>)]

Wrappers ==
  [pread |-> W("pread64", <<1, 2, 3, 4>>),      \* fd, buf, count, pos
   pwrite |-> W("pwrite64", <<1, 2, 3, 4>>),
   sendfile |-> W("sendfile64", <<1, 2, 3, 4>>), \* out_fd, in_fd, offset, count
   uname |-> W("newuname", <<1>>),
   getdents |-> W("getdents64", <<1, 2, 3>>),    \* fd, dirent, count
   fadvise |-> W("fadvise64", <<1, 2, 3, 4>>),   \* fd, offset, len, advice
   fstatat |-> W("newfstatat", <<1, 2, 3, 4>>),  \* dfd, filename, statbuf, flag
   prlimit |-> W("prlimit64", <<1, 2, 3, 4>>),   \* pid, resource, new, old
   iopl |-> W("iopl", <<1>>),
   mmap |-> W("mmap", <<1, 2, 3, 4, 5, 6>>),     \* addr, len, prot, flags, fd, off
   clone |-> W("clone", <<1, 2, 3, 4, 5>>),      \* flags, newsp, parent_tidptr,
                                                 \* child_tidptr, tls
   arch_prctl |-> W("arch_prctl", <<1, 2>>)]

(***************************************************************************)
(* The kernel functions of the x86_64 system-call table these stand for, *)
(* with their number of parameters (pread64 is entry 17, sendfile64 is     *)
(* entry 40 `sendfile`, newuname 63 `uname`, clone 56 with the parameter   *)
(* order flags, newsp, parent_tid, child_tid, tls, ...).                  *)
(***************************************************************************)
X86Entries ==
  [pread64 |-> 4, pwrite64 |-> 4, sendfile64 |-> 4, newuname |-> 1,
   getdents64 |-> 3, fadvise64 |-> 4, newfstatat |-> 4, prlimit64 |-> 4,
   iopl |-> 1, mmap |-> 6, clone |-> 5, arch_prctl |-> 2]

VARIABLES yop, yarity, yregs, ykernel, ypost, ywrap

yvars == <<yop, yarity, yregs, ykernel, ypost, ywrap>>

YInit == /\ yop = "none" /\ yarity = 0 /\ ywrap = "none"
         /\ yregs = [r \in Regs |-> Old(r)] /\ ypost = [r \in Regs |-> Old(r)]
         /\ ykernel = [nr |-> Number, args |-> <<>>]

(***************************************************************************)
(* syscallK(n, a1, .., aK): load each operand into its input register,    *)
(* trap (the kernel reads the number and its K arguments, writes the       *)
(* result to rax, the instruction overwrites rcx and r11).                 *)
(***************************************************************************)
Trap(k, val) ==
       LET asm  == SyscallAsm[k + 1]
           load == [r \in Regs |->
                      IF \E i \in 1 .. Len(asm.ins) : asm.ins[i] = r
                      THEN val[(CHOOSE i \in 1 .. Len(asm.ins) : asm.ins[i] = r) - 1]
                      ELSE Old(r)]
       IN  /\ yarity' = k /\ yregs' = load
           /\ ykernel' = [nr |-> load["rax"],
                          args |-> [i \in 1 .. k |-> load[KernelArgRegs[i]]]]
           /\ ypost' = [load EXCEPT !["rax"] = Result, !["rcx"] = RetAddr,
                                    !["r11"] = Flags]

SysCall ==
  /\ yop = "none"
  /\ \E k \in 0 .. 6 : Trap(k, [i \in 0 .. k |-> IF i = 0 THEN Number ELSE Arg(i)])
  /\ yop' = "syscall" /\ ywrap' = "none"

\* A wrapper: syscallK with the entry's number and the arguments passed.
WrapperCall ==
  /\ yop = "none"
  /\ \E w \in DOMAIN Wrappers :
       LET ps == Wrappers[w].pass
       IN  /\ Trap(Len(ps), [i \in 0 .. Len(ps) |->
                               IF i = 0 THEN Wrappers[w].entry ELSE Arg(ps[i])])
           /\ ywrap' = w
  /\ yop' = "syscall"

YReturn == /\ yop = "syscall"
           /\ yop' = "none" /\ yarity' = 0
           /\ yregs' = [r \in Regs |-> Old(r)] /\ ypost' = [r \in Regs |-> Old(r)]
           /\ ykernel' = [nr |-> Number, args |-> <<>>] /\ ywrap' = "none"

YNext == SysCall \/ WrapperCall \/ YReturn

YSpec == YInit /\ [][YNext]_yvars

-----------------------------------------------------------------------------
(***************************************************************************)
(* spec.md 4.1: syscallK hands the kernel the call number and exactly its *)
(* K arguments, in order, and returns what the kernel put in rax.  A       *)
(* wrapper standing in for another entry point reaches a function of the *)
(* x86_64 table, whose i-th parameter receives the wrapper's i-th.         *)
(***************************************************************************)
ArgsReachKernel ==
  yop = "syscall" =>
    /\ ykernel.nr = IF ywrap = "none" THEN Number ELSE Wrappers[ywrap].entry
    /\ ywrap # "none" => ykernel.nr \in DOMAIN X86Entries
                         /\ yarity = X86Entries[ykernel.nr]
    /\ ykernel.args = [i \in 1 .. yarity |-> Arg(i)]
    /\ ypost[SyscallAsm[yarity + 1].out] = Result

(***************************************************************************)
(* The constraints are sound for the compiler: every register that the    *)
(* asm declares neither output nor clobbered holds after the trap what it *)
(* held before it (a live value the compiler kept there survives).        *)
(***************************************************************************)
PreservedAsDeclared ==
  yop = "syscall" =>
    LET asm == SyscallAsm[yarity + 1]
    IN  \A r \in Regs \ (asm.clobbers \cup {asm.out}) : ypost[r] = yregs[r]
=============================================================================

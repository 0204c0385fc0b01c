------------------------------- MODULE KtyAbi -------------------------------
(***************************************************************************)
(* The two pieces of src/kty/gen.rs that compute rather than list: the     *)
(* ioctl number encoding of asm-generic/ioctl.h (_IOC and its decoders,    *)
(* _IOR / _IOW and the termios commands built with them), and the C        *)
(* layout of the siginfo_t unions behind the si_* accessors.              *)
(*                                                                         *)
(* A C type is a tuple: <<"int">> and the other scalars of x86_64 (c_int  *)
(* 32 bits, c_long and pointers 64), <<"arr", elem, n>> for [elem; n], and *)
(* <<name>> for a #[repr(C)] struct or union of gen.rs.                   *)
(***************************************************************************)
EXTENDS Integers, Sequences, SequencesExt, Bitwise

\* Sizes (= alignments) of the scalars on x86_64.
ScalarSize == [int |-> 4, uint |-> 4, char |-> 1, uchar |-> 1, long |-> 8,
               short |-> 2, ushort |-> 2, ulong |-> 8, longlong |-> 8,
               ulonglong |-> 8, usize |-> 8, ptr |-> 8]

CInt  == <<"int">>
CUint == <<"uint">>
CChar == <<"char">>
CUchar == <<"uchar">>
CLong == <<"long">>
CUshort == <<"ushort">>
CUlong == <<"ulong">>
CShort == <<"short">>
CLonglong == <<"longlong">>
CUlonglong == <<"ulonglong">>
Usize == <<"usize">>
VoidPtr == <<"ptr">>
Arr(e, n) == <<"arr", e, n>>
Named(n) == <<n>>

(***************************************************************************)
(* A c_uint is kept as its 16-bit halves <<high, low>>: TLC's integers    *)
(* stop at 2^31, and ioctl numbers with the read bit reach 2^31.          *)
(***************************************************************************)
Half == 2^16

U32(x) == <<x \div Half, x % Half>>          \* for 0 <= x < 2^31

\* `x << s` for x < 2^16: the bits pushed past bit 31 are dropped.
Shl(x, s) == IF s >= 16 THEN <<(x * 2^(s - 16)) % Half, 0>>
             ELSE U32(x * 2^s)

BitOr(a, b) == <<a[1] | b[1], a[2] | b[2]>>

\* `(c >> s) & m` for a mask m below 2^16 (only the low half of c >> s
\* reaches the mask).
ShrMask(c, s, m) ==
  (IF s >= 16 THEN c[1] \div 2^(s - 16)
   ELSE (c[1] % 2^s) * 2^(16 - s) + c[2] \div 2^s) & m

-----------------------------------------------------------------------------
(* asm-generic/ioctl.h *)
IOC_NRBITS   == 8
IOC_TYPEBITS == 8
IOC_SIZEBITS == 14
IOC_DIRBITS  == 2
IOC_NRMASK   == 2^IOC_NRBITS - 1
IOC_TYPEMASK == 2^IOC_TYPEBITS - 1
IOC_SIZEMASK == 2^IOC_SIZEBITS - 1
IOC_DIRMASK  == 2^IOC_DIRBITS - 1
IOC_NRSHIFT   == 0
IOC_TYPESHIFT == IOC_NRSHIFT + IOC_NRBITS
IOC_SIZESHIFT == IOC_TYPESHIFT + IOC_TYPEBITS
IOC_DIRSHIFT  == IOC_SIZESHIFT + IOC_SIZEBITS
IOC_NONE  == 0
IOC_WRITE == 1
IOC_READ  == 2

\* Mutant: the size is or-ed in without its shift.
IOC_noSizeShift(dir, ty, nr, size) ==
  BitOr(BitOr(Shl(dir, IOC_DIRSHIFT), Shl(ty, IOC_TYPESHIFT)),
     BitOr(Shl(nr, IOC_NRSHIFT), U32(size)))

\* _IOC(dir, ty, nr, size).
IOC(dir, ty, nr, size) ==
  BitOr(BitOr(Shl(dir, IOC_DIRSHIFT), Shl(ty, IOC_TYPESHIFT)),
     BitOr(Shl(nr, IOC_NRSHIFT), Shl(size, IOC_SIZESHIFT)))

IOC_DIR(c)  == ShrMask(c, IOC_DIRSHIFT, IOC_DIRMASK)
IOC_TYPE(c) == ShrMask(c, IOC_TYPESHIFT, IOC_TYPEMASK)
IOC_NR(c)   == ShrMask(c, IOC_NRSHIFT, IOC_NRMASK)
IOC_SIZE(c) == ShrMask(c, IOC_SIZESHIFT, IOC_SIZEMASK)

-----------------------------------------------------------------------------
(* Type aliases and the declarations of asm-generic/siginfo.h and termbits *)
KernelPidT   == CInt                 \* __kernel_pid_t
KernelTimerT == CInt                 \* __kernel_timer_t
ArchSiUidT   == CUint                \* __ARCH_SI_UID_T = __kernel_uid32_t
ArchSiBandT  == CLong                \* __ARCH_SI_BAND_T = c_long

\* Mutant: the clock type taken as a C int.
ArchSiClockT_int == CInt

ArchSiClockT == CLong                \* __ARCH_SI_CLOCK_T = __kernel_clock_t

BytesPerInt == 4
BytesPerArchSiUidT == BytesPerInt
SiMaxSize == 128
NCCS == 19

Fld(n, t) == <<n, t>>
Struct(fs) == [union |-> FALSE, fields |-> fs]
Union(fs)  == [union |-> TRUE, fields |-> fs]

CcT     == CUchar                     \* cc_t
SpeedT  == CUint                      \* speed_t
TcflagT == CUint                      \* tcflag_t

Termios2 ==
  Struct(<<Fld("c_iflag", TcflagT), Fld("c_oflag", TcflagT),
           Fld("c_cflag", TcflagT), Fld("c_lflag", TcflagT),
           Fld("c_line", CcT), Fld("c_cc", Arr(CcT, NCCS)),
           Fld("c_ispeed", SpeedT), Fld("c_ospeed", SpeedT)>>)

\* The other #[derive(Pod)] structs of gen.rs that hold an array, and winsize.
KernelFsidT == Struct(<<Fld("val", Arr(CInt, 2))>>)

NSigWords == 64 \div 64                \* _NSIG / _NSIG_BPW (c_ulong bits)
SigsetT == Struct(<<Fld("sig", Arr(CUlong, NSigWords))>>)

StatfsWord == CLong                   \* __statfs_word (__kernel_long_t)
Statfs ==
  Struct([i \in 1 .. 7 |-> Fld(<<"f_type", "f_bsize", "f_blocks", "f_bfree",
                                "f_bavail", "f_files", "f_ffree">>[i], StatfsWord)]
         \o <<Fld("f_fsid", Named("__kernel_fsid_t")), Fld("f_namelen", StatfsWord),
              Fld("f_frsize", StatfsWord), Fld("f_flags", StatfsWord),
              Fld("f_spare", Arr(StatfsWord, 4))>>)

Termios  == Struct(SubSeq(Termios2.fields, 1, 6))    \* termios2 without the speeds
Ktermios == Termios2                                 \* the same fields as termios2

Winsize == Struct(<<Fld("ws_row", CUshort), Fld("ws_col", CUshort),
                    Fld("ws_xpixel", CUshort), Fld("ws_ypixel", CUshort)>>)

NCC == 8
Termio == Struct(<<Fld("c_iflag", CUshort), Fld("c_oflag", CUshort),
                   Fld("c_cflag", CUshort), Fld("c_lflag", CUshort),
                   Fld("c_line", CUchar), Fld("c_cc", Arr(CUchar, NCC))>>)

\* Fields named ns, all of type t.
Flds(ns, t) == [i \in 1 .. Len(ns) |-> Fld(ns[i], t)]

\* The generic epoll_event (gen.rs: "for all platforms except x86_64").
EpollEvent == Struct(<<Fld("events", CUint), Fld("data", CUlonglong)>>)

FOwnerEx == Struct(<<Fld("type_", CInt), Fld("pid", KernelPidT)>>)

BytesPerKernelModeT == BytesPerInt   \* BYTES_PER_KERNEL_MODE_T
KernelModeT == CUint                  \* __kernel_mode_t
KernelUlongT == CUlong                \* __kernel_ulong_t
KernelUid32T == CUint                 \* __kernel_uid32_t
KernelGid32T == CUint                 \* __kernel_gid32_t
KernelKeyT == CInt                    \* __kernel_key_t (arch module of kty)
Ipc64Perm ==
  Struct(<<Fld("key", KernelKeyT), Fld("uid", KernelUid32T), Fld("gid", KernelGid32T),
           Fld("cuid", KernelUid32T), Fld("cgid", KernelGid32T),
           Fld("mode", KernelModeT),
              Fld("__pad1", Arr(CUchar, 4 - BytesPerKernelModeT)),
              Fld("seq", CUshort), Fld("__pad2", CUshort),
              Fld("__unused1", KernelUlongT), Fld("__unused2", KernelUlongT)>>)

Pollfd == Struct(<<Fld("fd", CInt), Fld("events", CShort), Fld("revents", CShort)>>)

Shminfo64 ==
  Struct(Flds(<<"shmmax", "shmmin", "shmmni", "shmseg", "shmall", "__unused1",
                "__unused2", "__unused3", "__unused4">>, KernelUlongT))

Sigaltstack == Struct(<<Fld("ss_sp", VoidPtr), Fld("ss_flags", CInt),
                        Fld("ss_size", Usize)>>)   \* user_size_t

Sigaction == Struct(<<Fld("sa_handler", Usize), Fld("sa_flags", CUlong),
                      Fld("sa_restorer", Usize), Fld("sa_mask", Named("sigset_t"))>>)

\* asm-generic/stat.h: stat with c_ulong / c_long words, stat64 with long
\* long words and int times; both share the order of the fields.
StatOf(w, sw, tm, ns) ==
  Struct(<<Fld("st_dev", w), Fld("st_ino", w)>>
         \o Flds(<<"st_mode", "st_nlink", "st_uid", "st_gid">>, CUint)
         \o <<Fld("st_rdev", w), Fld("__pad1", w), Fld("st_size", sw),
              Fld("st_blksize", CInt), Fld("__pad2", CInt), Fld("st_blocks", sw),
              Fld("st_atime", tm), Fld("st_atime_nsec", ns), Fld("st_mtime", tm),
              Fld("st_mtime_nsec", ns), Fld("st_ctime", tm), Fld("st_ctime_nsec", ns),
              Fld("__unused4", CUint), Fld("__unused5", CUint)>>)
Stat   == StatOf(CUlong, CLong, CLong, CUlong)
Stat64 == StatOf(CUlonglong, CLonglong, CInt, CUint)

KDecls ==
  [sigval_t |-> Union(<<Fld("sigval_int", CInt), Fld("sigval_ptr", VoidPtr)>>),
   siginfo_kill |-> Struct(<<Fld("_pid", KernelPidT), Fld("_uid", ArchSiUidT)>>),
   siginfo_timer |-> Struct(<<Fld("_tid", KernelTimerT), Fld("_overrun", CInt),
                     Fld("_pad", Arr(CChar, BytesPerArchSiUidT - BytesPerInt)),
                     Fld("_sigval", Named("sigval_t")), Fld("_sys_private", CInt)>>),
   siginfo_rt |-> Struct(<<Fld("_pid", KernelPidT), Fld("_uid", ArchSiUidT),
                  Fld("_sigval", Named("sigval_t"))>>),
   siginfo_sigchld |-> Struct(<<Fld("_pid", KernelPidT), Fld("_uid", ArchSiUidT),
                       Fld("_status", CInt), Fld("_utime", ArchSiClockT),
                       Fld("_stime", ArchSiClockT)>>),
   siginfo_sigpoll |-> Struct(<<Fld("_band", ArchSiBandT), Fld("_fd", CInt)>>),
   siginfo_sigsys |-> Struct(<<Fld("_call_addr", VoidPtr), Fld("_syscall", CInt),
                      Fld("_arch", CUint)>>),
   siginfo_sigfault |-> Struct(<<Fld("_addr", VoidPtr)>>),
   _siginfo_variant |-> Union(<<Fld("_kill", Named("siginfo_kill")),
                       Fld("_timer", Named("siginfo_timer")),
                       Fld("_rt", Named("siginfo_rt")),
                       Fld("_sigchld", Named("siginfo_sigchld")),
                       Fld("_sigfault", Named("siginfo_sigfault")),
                       Fld("_sigpoll", Named("siginfo_sigpoll")),
                       Fld("_sigsys", Named("siginfo_sigsys"))>>),
   _siginfo_fields |-> Struct(<<Fld("si_signo", CInt), Fld("si_errno", CInt),
                      Fld("si_code", CInt),
                      Fld("_variant", Named("_siginfo_variant"))>>),
   siginfo_t |-> Union(<<Fld("_fields", Named("_siginfo_fields")),
                 Fld("_si_pad", Arr(CInt, SiMaxSize \div BytesPerInt))>>),
   termios2 |-> Termios2, ktermios |-> Ktermios, termios |-> Termios,
   termio |-> Termio, winsize |-> Winsize, sigset_t |-> SigsetT,
   __kernel_fsid_t |-> KernelFsidT, statfs |-> Statfs,
   epoll_event |-> EpollEvent, f_owner_ex |-> FOwnerEx, ipc64_perm |-> Ipc64Perm,
   pollfd |-> Pollfd, shminfo64 |-> Shminfo64, sigaltstack |-> Sigaltstack,
   sigaction |-> Sigaction, stat |-> Stat, stat64 |-> Stat64]

-----------------------------------------------------------------------------
(***************************************************************************)
(* #[repr(C)] layout: a field is placed at the next multiple of its        *)
(* alignment after the previous one; a union puts every field at 0; the   *)
(* size is rounded up to the alignment, the largest of the fields'.        *)
(***************************************************************************)
RoundUp(x, a) == ((x + a - 1) \div a) * a

RECURSIVE SizeOf(_), AlignOf(_), OffsetsFrom(_, _, _)

AlignOf(t) ==
  CASE t[1] \in DOMAIN ScalarSize -> ScalarSize[t[1]]
    [] t[1] = "arr" -> AlignOf(t[2])
    [] OTHER -> Max({AlignOf(f[2]) : f \in ToSet(KDecls[t[1]].fields)})

\* Offsets of fields i.. of a struct whose field i - 1 ends at `end`.
OffsetsFrom(fs, i, end) ==
  IF i > Len(fs) THEN <<>>
  ELSE LET o == RoundUp(end, AlignOf(fs[i][2]))
       IN  <<o>> \o OffsetsFrom(fs, i + 1, o + SizeOf(fs[i][2]))

SizeOf(t) ==
  CASE t[1] \in DOMAIN ScalarSize -> ScalarSize[t[1]]
    [] t[1] = "arr" -> t[3] * SizeOf(t[2])
    [] OTHER ->
         LET d  == KDecls[t[1]]
             fs == d.fields
             os == OffsetsFrom(fs, 1, 0)
             ends == {IF d.union THEN SizeOf(fs[i][2])
                      ELSE os[i] + SizeOf(fs[i][2]) : i \in 1 .. Len(fs)}
         IN  RoundUp(Max(ends), AlignOf(t))

FieldIndex(n, f) == CHOOSE i \in 1 .. Len(KDecls[n].fields) : KDecls[n].fields[i][1] = f
FieldType(n, f)  == KDecls[n].fields[FieldIndex(n, f)][2]
\* Mutant: union fields laid out one after the other like a struct's.
OffsetOf_unionSequential(n, f) ==
  OffsetsFrom(KDecls[n].fields, 1, 0)[FieldIndex(n, f)]

OffsetOf(n, f)   == IF KDecls[n].union THEN 0
                    ELSE OffsetsFrom(KDecls[n].fields, 1, 0)[FieldIndex(n, f)]

\* Offset and type of `t.p1.p2...`.
RECURSIVE PathOffset(_, _), PathType(_, _)
PathOffset(t, p) == IF p = <<>> THEN 0
                    ELSE OffsetOf(t[1], Head(p)) + PathOffset(FieldType(t[1], Head(p)), Tail(p))
PathType(t, p)   == IF p = <<>> THEN t ELSE PathType(FieldType(t[1], Head(p)), Tail(p))

(***************************************************************************)
(* The accessors: si_define_outer reads self._fields.<name>,              *)
(* si_define_inner self._fields._variant.<path>.                          *)
(***************************************************************************)
Outer(f) == <<"_fields", f>>
Inner(p) == <<"_fields", "_variant">> \o p

SiAccessors ==
  [si_signo |-> Outer("si_signo"), si_errno |-> Outer("si_errno"),
   si_code |-> Outer("si_code"),
   si_pid |-> Inner(<<"_kill", "_pid">>), si_uid |-> Inner(<<"_kill", "_uid">>),
   si_tid |-> Inner(<<"_timer", "_tid">>),
   si_overrun |-> Inner(<<"_timer", "_overrun">>),
   si_sys_private |-> Inner(<<"_timer", "_sys_private">>),
   si_status |-> Inner(<<"_sigchld", "_status">>),
   si_utime |-> Inner(<<"_sigchld", "_utime">>),
   si_stime |-> Inner(<<"_sigchld", "_stime">>),
   si_value |-> Inner(<<"_rt", "_sigval">>),
   si_int |-> Inner(<<"_rt", "_sigval", "sigval_int">>),
   si_ptr |-> Inner(<<"_rt", "_sigval", "sigval_ptr">>),
   si_addr |-> Inner(<<"_sigfault", "_addr">>),
   si_band |-> Inner(<<"_sigpoll", "_band">>),
   si_fd |-> Inner(<<"_sigpoll", "_fd">>),
   si_call_addr |-> Inner(<<"_sigsys", "_call_addr">>),
   si_syscall |-> Inner(<<"_sigsys", "_syscall">>),
   si_arch |-> Inner(<<"_sigsys", "_arch">>)]

\* _IOR::<T>(ty, nr) and _IOW::<T>(ty, nr): the size is size_of::<T>().
\* Mutant: _IOR built with the write direction.
IOR_asWrite(t, ty, nr) == IOC(IOC_WRITE, ty, nr, SizeOf(t))

IOR(t, ty, nr) == IOC(IOC_READ, ty, nr, SizeOf(t))
IOW(t, ty, nr) == IOC(IOC_WRITE, ty, nr, SizeOf(t))

TermiosT == 84    \* b'T'

IoctlCmds ==
  [TCGETS2 |-> IOR(Named("termios2"), TermiosT, 42),
   TCSETS2 |-> IOW(Named("termios2"), TermiosT, 43),
   TCSETSW2 |-> IOW(Named("termios2"), TermiosT, 44),
   TCSETSF2 |-> IOW(Named("termios2"), TermiosT, 45),
   TIOCGPTN |-> IOR(CUint, TermiosT, 48),
   TIOCSPTLCK |-> IOW(CInt, TermiosT, 49),
   TIOCGDEV |-> IOR(CUint, TermiosT, 50),
   TIOCSIG |-> IOW(CInt, TermiosT, 54),
   TIOCGPKT |-> IOR(CInt, TermiosT, 56),
   TIOCGPTLCK |-> IOR(CInt, TermiosT, 57),
   TIOCGEXCL |-> IOR(CInt, TermiosT, 64)]

-----------------------------------------------------------------------------
\* A caller encodes an ioctl number, uses a named command, or reads a
\* siginfo_t field through an accessor.
IocDirs  == {IOC_NONE, IOC_WRITE, IOC_READ, IOC_READ + IOC_WRITE}
IocTys   == {0, TermiosT, 255}
IocNrs   == {0, 42, 255}
IocSizes == {0, 4, 44, 2^IOC_SIZEBITS - 1}

VARIABLES kop, karg, kres

kvars == <<kop, karg, kres>>

KInit == kop = "none" /\ karg = <<>> /\ kres = 0

EncodeCall ==
  /\ kop = "none"
  /\ \E d \in IocDirs, ty \in IocTys, nr \in IocNrs, sz \in IocSizes :
       karg' = <<d, ty, nr, sz>> /\ kres' = IOC(d, ty, nr, sz)
  /\ kop' = "ioc"

CommandCall ==
  /\ kop = "none"
  /\ \E c \in DOMAIN IoctlCmds : karg' = <<c>> /\ kres' = IoctlCmds[c]
  /\ kop' = "cmd"

AccessorCall ==
  /\ kop = "none"
  /\ \E a \in DOMAIN SiAccessors :
       /\ karg' = <<a>>
       /\ kres' = <<PathOffset(Named("siginfo_t"), SiAccessors[a]),
                    SizeOf(PathType(Named("siginfo_t"), SiAccessors[a]))>>
  /\ kop' = "si"

KReturn == kop # "none" /\ kop' = "none" /\ karg' = <<>> /\ kres' = 0

KNext == EncodeCall \/ CommandCall \/ AccessorCall \/ KReturn

KSpec == KInit /\ [][KNext]_kvars

-----------------------------------------------------------------------------
(***************************************************************************)
(* The numbers the kernel's own headers give these commands on x86_64     *)
(* (asm-generic/ioctls.h expanded with sizeof(struct termios2) = 44), and *)
(* the offset and width of each siginfo_t field in the kernel's layout.   *)
(* Numbers are <<high half, low half>>: TCGETS2 = 0x802C542A.             *)
(***************************************************************************)
KernelCmds ==
  [TCGETS2 |-> <<32812, 21546>>,
   TCSETS2 |-> <<16428, 21547>>,
   TCSETSW2 |-> <<16428, 21548>>,
   TCSETSF2 |-> <<16428, 21549>>,
   TIOCGPTN |-> <<32772, 21552>>,
   TIOCSPTLCK |-> <<16388, 21553>>,
   TIOCGDEV |-> <<32772, 21554>>,
   TIOCSIG |-> <<16388, 21558>>,
   TIOCGPKT |-> <<32772, 21560>>,
   TIOCGPTLCK |-> <<32772, 21561>>,
   TIOCGEXCL |-> <<32772, 21568>>]

KernelSiginfo ==
  [si_signo |-> <<0, 4>>, si_errno |-> <<4, 4>>, si_code |-> <<8, 4>>,
   si_pid |-> <<16, 4>>, si_uid |-> <<20, 4>>, si_tid |-> <<16, 4>>,
   si_overrun |-> <<20, 4>>, si_sys_private |-> <<32, 4>>,
   si_status |-> <<24, 4>>, si_utime |-> <<32, 8>>, si_stime |-> <<40, 8>>,
   si_value |-> <<24, 8>>, si_int |-> <<24, 4>>, si_ptr |-> <<24, 8>>,
   si_addr |-> <<16, 8>>, si_band |-> <<16, 8>>, si_fd |-> <<24, 4>>,
   si_call_addr |-> <<16, 8>>, si_syscall |-> <<24, 4>>, si_arch |-> <<28, 4>>]

\* Results are c_uint numbers, and an accessor's bytes lie inside siginfo_t.
KTypeOK ==
  /\ kop \in {"none", "ioc", "cmd", "si"}
  /\ kop \in {"ioc", "cmd"} => kres \in (0 .. Half - 1) \X (0 .. Half - 1)
  /\ kop = "si" => kres[1] + kres[2] <= SizeOf(Named("siginfo_t"))

(***************************************************************************)
(* _IOC packs direction, type, number and size into disjoint bit fields:  *)
(* for every argument within its field, the _IOC_DIR / _IOC_TYPE /         *)
(* _IOC_NR / _IOC_SIZE decoders give the argument back.                    *)
(***************************************************************************)
IocRoundTrip ==
  kop = "ioc" =>
    <<IOC_DIR(kres), IOC_TYPE(kres), IOC_NR(kres), IOC_SIZE(kres)>> = karg

(***************************************************************************)
(* The commands gen.rs computes with _IOR / _IOW (TCGETS2 ... TIOCGEXCL)  *)
(* are the kernel's numbers, which depends on both the encoding and the   *)
(* size of the repr(C) termios2.                                           *)
(***************************************************************************)
IoctlCmdsMatchKernel == kop = "cmd" => kres = KernelCmds[karg[1]]

\* sizeof of each structure in the kernel's x86_64 headers; for the two
\* that gen.rs declares in their asm-generic form (epoll_event, which
\* x86_64 packs to 12 bytes, and stat / stat64, which x86_64 replaces), the
\* asm-generic layout on a 64-bit architecture.
KernelSizes ==
  [sigval_t |-> 8, siginfo_t |-> 128, termios2 |-> 44, ktermios |-> 44,
   termios |-> 36, termio |-> 18, winsize |-> 8, sigset_t |-> 8,
   __kernel_fsid_t |-> 8, statfs |-> 120, epoll_event |-> 16,
   f_owner_ex |-> 8, ipc64_perm |-> 48, pollfd |-> 8, shminfo64 |-> 72,
   sigaltstack |-> 24, sigaction |-> 32, stat |-> 128, stat64 |-> 104]

(***************************************************************************)
(* The repr(C) layouts are the kernel's: every si_* accessor reads the    *)
(* bytes the kernel writes that field to (offset and width), and every    *)
(* structure gen.rs declares has the kernel's size.                        *)
(***************************************************************************)
LayoutMatchesKernel ==
  kop = "si" =>
    /\ kres = KernelSiginfo[karg[1]]
    /\ \A n \in DOMAIN KernelSizes : SizeOf(Named(n)) = KernelSizes[n]
=============================================================================

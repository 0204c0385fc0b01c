------------------------------- MODULE MCBytes -------------------------------
(***************************************************************************)
(* The byte and memory layer as one caller uses it: the I/O loops         *)
(* (IoLoops), the string helpers (ByteStrings), the address arithmetic of *)
(* lmem (LMem), the build-time POD obligation (PodDerive) and the kernel   *)
(* ABI computations of kty (KtyAbi) and the system-call trap              *)
(* (SyscallAbi), one call at a time: each component steps only while the  *)
(* others are idle.                                                        *)
(***************************************************************************)
EXTENDS IoLoops, ByteStrings, LMem, PodDerive, KtyAbi, SyscallAbi

allVars == <<vars, svars, mvars, pvars, kvars, yvars>>

IoIdle  == proc = "idle"
StrIdle == sop = "none"
MemIdle == mop = "none"
PodIdle == built = "pending"
AbiIdle == kop = "none"
TrapIdle == yop = "none"

BytesInit == Init /\ SInit /\ MInit /\ PInit /\ KInit /\ YInit

BytesNext ==
  \/ StrIdle /\ MemIdle /\ PodIdle /\ AbiIdle /\ TrapIdle /\ Next
     /\ UNCHANGED <<svars, mvars, pvars, kvars, yvars>>
  \/ IoIdle /\ MemIdle /\ PodIdle /\ AbiIdle /\ TrapIdle /\ SNext
     /\ UNCHANGED <<vars, mvars, pvars, kvars, yvars>>
  \/ IoIdle /\ StrIdle /\ PodIdle /\ AbiIdle /\ TrapIdle /\ MNext
     /\ UNCHANGED <<vars, svars, pvars, kvars, yvars>>
  \/ IoIdle /\ StrIdle /\ MemIdle /\ AbiIdle /\ TrapIdle /\ PNext
     /\ UNCHANGED <<vars, svars, mvars, kvars, yvars>>
  \/ IoIdle /\ StrIdle /\ MemIdle /\ PodIdle /\ TrapIdle /\ KNext
     /\ UNCHANGED <<vars, svars, mvars, pvars, yvars>>
  \/ IoIdle /\ StrIdle /\ MemIdle /\ PodIdle /\ AbiIdle /\ YNext
     /\ UNCHANGED <<vars, svars, mvars, pvars, kvars>>

BytesSpec == BytesInit /\ [][BytesNext]_allVars

-----------------------------------------------------------------------------
\* The Rust types behind kty's C scalars on x86_64 (c_int is i32, c_uint
\* u32, c_char i8, c_uchar u8, c_long i64, c_short i16, c_ushort u16,
\* c_ulong u64, c_(u)longlong (u)64, usize, the pointers *mut c_void).
KtyRust == [int |-> <<"i32">>, uint |-> <<"u32">>, char |-> <<"i8">>,
            uchar |-> <<"u8">>, long |-> <<"i64">>, short |-> <<"i16">>,
            ushort |-> <<"u16">>, ulong |-> <<"u64">>, longlong |-> <<"i64">>,
            ulonglong |-> <<"u64">>, usize |-> <<"usize">>, ptr |-> <<"ptr_mut">>]

RECURSIVE AsRust(_)
AsRust(t) == CASE t[1] = "arr"             -> Array(AsRust(t[2]), t[3])
               [] t[1] \in DOMAIN KtyRust -> KtyRust[t[1]]
               [] OTHER                    -> t

\* The #[derive(Pod)] declarations of gen.rs as the derive sees them.
KtyAsDecls ==
  [n \in DOMAIN KDecls |->
     [kind   |-> IF KDecls[n].union THEN "union" ELSE "struct",
      fields |-> [i \in 1 .. Len(KDecls[n].fields) |-> AsRust(KDecls[n].fields[i][2])]]]

(***************************************************************************)
(* Whenever the crate is compiled, the kernel structures of gen.rs that   *)
(* derive Pod build with it: every field type has a Pod impl.  siginfo_t's *)
(* padding is [c_int; 128 / 4], exactly the longest array util/pod.rs     *)
(* gives an impl (j!(32)); termios holds [cc_t; 19], statfs                *)
(* [__statfs_word; 4].                                                     *)
(***************************************************************************)
KtyDerivesBuild == built # "pending" => Builds(KtyAsDecls)
=============================================================================

-------------------------------- MODULE LMem --------------------------------
(***************************************************************************)
(* The address arithmetic of src/lmem.rs: align_for (and align_for_mut,    *)
(* DataSlice::align_for of util/data.rs, which forward to it) and          *)
(* is_suitable_for, the check behind from_bytes / from_mut_bytes.          *)
(*                                                                         *)
(* A buffer is its start address and length; usize is AddrBits wide and    *)
(* the buffer lies inside the address space.  The alignment and size of   *)
(* T are inputs: alignments are powers of two.                             *)
(***************************************************************************)
EXTENDS Integers, Bitwise

CONSTANTS
  AddrBits,    \* width of usize
  MaxBuf,      \* bound on buffer lengths
  Aligns,      \* mem::align_of::<T>() values
  Sizes        \* mem::size_of::<T>() values

Addrs == 0 .. 2^AddrBits - 1

\* !x for a usize x.
NotUsize(x) == 2^AddrBits - 1 - x

\* Mutant: the offset misses the + 1 of the two's-complement negation.
AlignFor_noInc(addr, len, align) ==
  LET mask == align - 1
      diff == NotUsize(addr) & mask
  IN  IF diff <= len THEN <<diff, len>> ELSE <<0, 0>>

\* Mutant: the result is not checked against the buffer length.
AlignFor_unchecked(addr, len, align) ==
  LET mask == align - 1
  IN  <<((NotUsize(addr) & mask) + 1) & mask, len>>

(***************************************************************************)
(* align_for: diff = ((!addr & mask) + 1) & mask is the distance to the    *)
(* next multiple of the alignment; &buf[diff..] if it lies in the buffer,  *)
(* else the empty slice.  Results are slices <<lo, hi>> of the buffer.     *)
(***************************************************************************)
AlignFor(addr, len, align) ==
  LET mask == align - 1
      diff == ((NotUsize(addr) & mask) + 1) & mask
  IN  IF diff <= len THEN <<diff, len>> ELSE <<0, 0>>

\* Mutant: a buffer exactly the size of T is refused.
IsSuitableFor_strict(addr, len, size, align) ==
  len > size /\ (addr & (align - 1)) = 0

\* is_suitable_for: large enough, and the address a multiple of the alignment.
IsSuitableFor(addr, len, size, align) ==
  len >= size /\ (addr & (align - 1)) = 0

\* from_bytes / from_mut_bytes: Some(reference) exactly when suitable.
FromBytes(addr, len, size, align) ==
  IF IsSuitableFor(addr, len, size, align) THEN "some" ELSE "none"

-----------------------------------------------------------------------------
VARIABLES mop, maddr, mlen, malign, msize, mres

mvars == <<mop, maddr, mlen, malign, msize, mres>>

MInit == /\ mop = "none" /\ maddr = 0 /\ mlen = 0 /\ malign = 1 /\ msize = 0
         /\ mres = "none"

\* A buffer: start address and length inside the address space.
Buffers == {b \in Addrs \X (0 .. MaxBuf) : b[1] + b[2] <= 2^AddrBits}

AlignCall ==
  /\ mop = "none"
  /\ \E b \in Buffers, a \in Aligns :
       /\ maddr' = b[1] /\ mlen' = b[2] /\ malign' = a
       /\ mres' = AlignFor(b[1], b[2], a)
  /\ mop' = "align_for" /\ UNCHANGED msize

FromBytesCall ==
  /\ mop = "none"
  /\ \E b \in Buffers, a \in Aligns, s \in Sizes :
       /\ maddr' = b[1] /\ mlen' = b[2] /\ malign' = a /\ msize' = s
       /\ mres' = FromBytes(b[1], b[2], s, a)
  /\ mop' = "from_bytes"

(***************************************************************************)
(* The view align_for returns, as <<address, length>>.  &buf[diff..]      *)
(* starts diff bytes in; the &[] of the other branch is a promoted empty  *)
(* array whose address the code does not fix, so an empty view may lie   *)
(* anywhere.                                                               *)
(***************************************************************************)
AlignedViews(addr, len, align) ==
  LET r == AlignFor(addr, len, align)
  IN  IF r[2] > r[1] THEN {<<addr + r[1], r[2] - r[1]>>}
      ELSE {<<a, 0>> : a \in Addrs}

\* from_bytes::<T>(align_for::<T>(buf)): take the aligned view of a buffer,
\* then a reference to a T at its start; the result and the reference's
\* address.
AlignFromBytesCall ==
  /\ mop = "none"
  /\ \E b \in Buffers, a \in Aligns, s \in Sizes :
       \E v \in AlignedViews(b[1], b[2], a) :
         /\ maddr' = b[1] /\ mlen' = b[2] /\ malign' = a /\ msize' = s
         /\ mres' = <<FromBytes(v[1], v[2], s, a), v[1]>>
  /\ mop' = "align_from_bytes"

MReturn == /\ mop # "none"
           /\ mop' = "none" /\ maddr' = 0 /\ mlen' = 0 /\ malign' = 1
           /\ msize' = 0 /\ mres' = "none"

MNext == AlignCall \/ FromBytesCall \/ AlignFromBytesCall \/ MReturn

MSpec == MInit /\ [][MNext]_mvars

-----------------------------------------------------------------------------
\* Every result of align_for is a slice of the buffer (&buf[diff..] panics
\* otherwise).
MTypeOK ==
  /\ mop \in {"none", "align_for", "from_bytes", "align_from_bytes"}
  /\ maddr \in Addrs /\ mlen \in 0 .. MaxBuf
  /\ mop = "align_for" => mres[1] \in 0 .. mres[2] /\ mres[2] \in 0 .. mlen
  /\ mop = "from_bytes" => mres \in {"some", "none"}
  /\ mop = "align_from_bytes" => mres \in {"some", "none"} \X Addrs

\* The least k with addr + k a multiple of align.
AlignGap(addr, align) == CHOOSE k \in 0 .. align - 1 : (addr + k) % align = 0

(***************************************************************************)
(* align_for (doc comment: "if the returned slice is not empty, the       *)
(* address of the first element is a multiple of the alignment"): the     *)
(* result starts at the first aligned address of the buffer and runs to   *)
(* its end, and is empty only when no aligned element is left.             *)
(***************************************************************************)
AlignForCorrect ==
  mop = "align_for" =>
    LET gap == AlignGap(maddr, malign)
    IN  IF gap < mlen THEN mres = <<gap, mlen>>
        ELSE mres[1] = mres[2]

(***************************************************************************)
(* Reading a T out of raw bytes with from_bytes::<T>(align_for::<T>(buf)) *)
(* finds one exactly when the buffer holds an aligned T somewhere (the    *)
(* first aligned address plus size_of::<T>() stays within it), and the    *)
(* reference then lies at that first aligned address.  It ties the two    *)
(* bit tricks, ((!addr & mask) + 1) & mask in align_for and addr & mask   *)
(* in is_suitable_for, to the least gap, at the boundaries where the       *)
(* aligned rest is exactly size_of::<T>() long or empty.  A zero-sized T   *)
(* occupies no bytes and is left out.                                      *)
(***************************************************************************)
AlignedFromBytes ==
  mop = "align_from_bytes" /\ msize > 0 =>
    LET gap == AlignGap(maddr, malign)
    IN  /\ mres[1] = "some" <=> gap + msize <= mlen
        /\ mres[1] = "some" => mres[2] = maddr + gap
=============================================================================

------------------------------- MODULE IoLoops -------------------------------
(***************************************************************************)
(* The byte-stream loops of src/util/io.rs: Read::read_all,               *)
(* Write::write_all, copy_until of the &[u8] reader, and the slice         *)
(* scatter_read / gather_write, and write_fmt_linux.  One call at a time; each step is one      *)
(* iteration of the code's loop, i.e. one call of the inner read or write. *)
(*                                                                         *)
(* A device is either a slice (&[u8] to read, &mut [u8] of capacity `room` *)
(* to write: lmem::copy moves min(len, space) bytes) or a descriptor       *)
(* (FdIo / c_int: retry(read / write) may move any positive number of      *)
(* bytes up to the request, fail, and reads 0 at end of file).  EINTR is   *)
(* absorbed by retry, which module Retry checks.                           *)
(***************************************************************************)
EXTENDS Integers, Sequences, SequencesExt

CONSTANTS
  Bytes,      \* byte values
  MaxLen,     \* bound on stream, buffer and slice lengths
  Kinds       \* device kinds: "slice", "fd"

Data     == BoundedSeq(Bytes, MaxLen)
Failed   == -1                             \* the inner call returned Err
Procs    == {"read_all", "write_all", "copy_until", "scatter_read",
             "gather_write", "write_fmt"}
None     == [tag |-> "none", val |-> 0]
Ok(n)    == [tag |-> "ok", val |-> n]
Err(e)   == [tag |-> "err", val |-> e]     \* e: "io", "full", "noerror"

NoStop   == CHOOSE b \in Bytes : TRUE         \* stop of an idle state

Min2(a, b) == IF a < b THEN a ELSE b
Drop(s, n) == SubSeq(s, n + 1, Len(s))

VARIABLES
  proc,     \* the call in progress, or "idle"
  kind,     \* the device kind
  orig,     \* the stream (reads) or the caller's buffer (writes) at the start
  src,      \* bytes not yet read from the reader / not yet written
  sink,     \* bytes placed in the caller's buffer (reads) or the writer
  room,     \* read_all: buffer length; writes: free space of a slice writer
  count,    \* read / written / sum of the call
  len,      \* copy_until: `len`, bytes still to copy
  total,    \* copy_until: `total`
  stop,     \* copy_until: the stop byte
  parts,    \* scatter_read: buffer lengths left; gather_write and
            \* write_fmt: pieces left
  filled,   \* scatter_read: the contents of each buffer done
  ret       \* the call's result

vars == <<proc, kind, orig, src, sink, room, count, len, total, stop, parts,
          filled, ret>>

Init == /\ proc = "idle" /\ kind = "slice" /\ orig = <<>> /\ src = <<>>
        /\ sink = <<>> /\ room = 0 /\ count = 0 /\ len = 0 /\ total = 0
        /\ stop = NoStop /\ parts = <<>> /\ filled = <<>>
        /\ ret = None

(***************************************************************************)
(* One inner read of up to k bytes, and one inner write of the bytes d:   *)
(* the counts the device may return.                                      *)
(***************************************************************************)
ReadCounts(k) ==
  IF kind = "slice" THEN {Min2(k, Len(src))}
  ELSE (IF k = 0 \/ src = <<>> THEN {0} ELSE 1 .. Min2(k, Len(src)))
       \cup {Failed}

WriteCounts(d) ==
  IF kind = "slice" THEN {Min2(Len(d), room)}
  ELSE (IF d = <<>> THEN {0} ELSE 1 .. Len(d)) \cup {Failed}

\* The device takes the first n bytes of d.
Accept(d, n) == /\ sink' = sink \o SubSeq(d, 1, n)
                /\ room' = IF kind = "slice" THEN room - n ELSE room

Return(r) == ret' = r
Running(p) == proc = p /\ ret = None

-----------------------------------------------------------------------------
StartReadAll ==
  /\ proc = "idle"
  /\ \E k \in Kinds, d \in Data, l \in 0 .. MaxLen :
       /\ kind' = k /\ orig' = d /\ src' = d /\ room' = l
  /\ proc' = "read_all" /\ sink' = <<>> /\ count' = 0
  /\ UNCHANGED <<len, total, stop, parts, filled, ret>>

\* Mutant: any short read is taken for end of file.
ReadAllLoop_shortIsEof ==
  /\ Running("read_all")
  /\ \/ count = room /\ Return(Ok(count)) /\ UNCHANGED <<src, sink, count>>
     \/ count < room
        /\ \E n \in ReadCounts(room - count) :
             IF n = Failed THEN Return(Err("io")) /\ UNCHANGED <<src, sink, count>>
             ELSE /\ sink' = sink \o SubSeq(src, 1, n) /\ src' = Drop(src, n)
                  /\ count' = count + n
                  /\ IF n < room - count THEN Return(Ok(count + n))
                                         ELSE UNCHANGED ret
  /\ UNCHANGED <<proc, kind, orig, room, len, total, stop, parts, filled>>

(***************************************************************************)
(* read_all: while the buffer is not full, read into the rest of it; an   *)
(* error is returned at once (the count is lost), Ok(0) ends the loop.    *)
(***************************************************************************)
ReadAllLoop ==
  /\ Running("read_all")
  /\ \/ count = room /\ Return(Ok(count)) /\ UNCHANGED <<src, sink, count>>
     \/ count < room
        /\ \E n \in ReadCounts(room - count) :
             CASE n = Failed ->
                    Return(Err("io")) /\ UNCHANGED <<src, sink, count>>
               [] n = 0 ->
                    Return(Ok(count)) /\ UNCHANGED <<src, sink, count>>
               [] OTHER ->
                    /\ sink' = sink \o SubSeq(src, 1, n) /\ src' = Drop(src, n)
                    /\ count' = count + n /\ UNCHANGED ret
  /\ UNCHANGED <<proc, kind, orig, room, len, total, stop, parts, filled>>

StartWriteAll ==
  /\ proc = "idle"
  /\ \E k \in Kinds, d \in Data, c \in 0 .. MaxLen :
       /\ kind' = k /\ orig' = d /\ src' = d /\ room' = c
  /\ proc' = "write_all" /\ sink' = <<>> /\ count' = 0
  /\ UNCHANGED <<len, total, stop, parts, filled, ret>>

\* Mutant: the written count is added but the buffer is not advanced.
WriteAllLoop_noAdvance ==
  /\ Running("write_all")
  /\ \/ src = <<>> /\ Return(Ok(count)) /\ UNCHANGED <<src, sink, room, count>>
     \/ src # <<>>
        /\ \E n \in WriteCounts(src) :
             CASE n = Failed ->
                    Return(Err("io")) /\ UNCHANGED <<src, sink, room, count>>
               [] n = 0 ->
                    Return(Err("full")) /\ UNCHANGED <<src, sink, room, count>>
               [] OTHER ->
                    /\ Accept(src, n) /\ count' = count + n
                    /\ UNCHANGED <<src, ret>>
  /\ UNCHANGED <<proc, kind, orig, len, total, stop, parts, filled>>

(***************************************************************************)
(* write_all: while bytes remain, write them; an error is returned at     *)
(* once, Ok(0) becomes Err(DeviceFull), Ok(n) advances the buffer.        *)
(***************************************************************************)
WriteAllLoop ==
  /\ Running("write_all")
  /\ \/ src = <<>> /\ Return(Ok(count)) /\ UNCHANGED <<src, sink, room, count>>
     \/ src # <<>>
        /\ \E n \in WriteCounts(src) :
             CASE n = Failed ->
                    Return(Err("io")) /\ UNCHANGED <<src, sink, room, count>>
               [] n = 0 ->
                    Return(Err("full")) /\ UNCHANGED <<src, sink, room, count>>
               [] OTHER ->
                    /\ Accept(src, n) /\ src' = Drop(src, n)
                    /\ count' = count + n /\ UNCHANGED ret
  /\ UNCHANGED <<proc, kind, orig, len, total, stop, parts, filled>>

\* memchr(b, self): the index of the first b, and copy_until's initial len.
FirstIndex(s, b) == CHOOSE i \in 1 .. Len(s) :
                      s[i] = b /\ \A j \in 1 .. i - 1 : s[j] # b
UntilLen(s, b) == IF \E i \in 1 .. Len(s) : s[i] = b
                  THEN FirstIndex(s, b) ELSE Len(s)

\* Mutant: the copy runs one byte past the stop byte (pos + 2, not pos + 1).
StartCopyUntil_pastStop ==
  /\ proc = "idle"
  /\ \E k \in Kinds, d \in Data, c \in 0 .. MaxLen, b \in Bytes :
       LET l == IF b \in Range(d) THEN FirstIndex(d, b) + 1 ELSE Len(d)
       IN  /\ kind' = k /\ orig' = d /\ src' = d /\ room' = c /\ stop' = b
           /\ len' = l /\ total' = l
  /\ proc' = "copy_until" /\ sink' = <<>> /\ count' = 0
  /\ UNCHANGED <<parts, filled, ret>>

\* copy_until, entry: len is the position of the first b plus one, or the
\* whole slice; total = len.
StartCopyUntil ==
  /\ proc = "idle"
  /\ \E k \in Kinds, d \in Data, c \in 0 .. MaxLen, b \in Bytes :
       /\ kind' = k /\ orig' = d /\ src' = d /\ room' = c /\ stop' = b
       /\ len' = UntilLen(d, b) /\ total' = UntilLen(d, b)
  /\ proc' = "copy_until" /\ sink' = <<>> /\ count' = 0
  /\ UNCHANGED <<parts, filled, ret>>

\* Mutant: the reader is advanced by the whole request, not by what the
\* writer took.
CopyUntilLoop_consumeAll ==
  /\ Running("copy_until")
  /\ \/ len = 0 /\ Return(Ok(total - len)) /\ UNCHANGED <<src, sink, room, len>>
     \/ len > 0
        /\ \E n \in WriteCounts(SubSeq(src, 1, len)) :
             CASE n = Failed ->
                    Return(Err("io")) /\ UNCHANGED <<src, sink, room, len>>
               [] n = 0 ->
                    Return(Ok(total - len)) /\ UNCHANGED <<src, sink, room, len>>
               [] OTHER ->
                    /\ Accept(SubSeq(src, 1, len), n) /\ len' = len - n
                    /\ src' = Drop(src, Min2(len, Len(src))) /\ UNCHANGED ret
  /\ UNCHANGED <<proc, kind, orig, count, total, stop, parts, filled>>

(***************************************************************************)
(* copy_until, loop: write self[..len]; an error is returned (the bytes    *)
(* already written stay consumed), 0 breaks, otherwise len shrinks and the *)
(* reader is consumed by what was written.  Returns Ok(total - len).       *)
(***************************************************************************)
CopyUntilLoop ==
  /\ Running("copy_until")
  /\ \/ len = 0 /\ Return(Ok(total - len)) /\ UNCHANGED <<src, sink, room, len>>
     \/ len > 0
        /\ \E n \in WriteCounts(SubSeq(src, 1, len)) :
             CASE n = Failed ->
                    Return(Err("io")) /\ UNCHANGED <<src, sink, room, len>>
               [] n = 0 ->
                    Return(Ok(total - len)) /\ UNCHANGED <<src, sink, room, len>>
               [] OTHER ->
                    /\ Accept(SubSeq(src, 1, len), n) /\ len' = len - n
                    /\ src' = Drop(src, Min2(n, Len(src))) /\ UNCHANGED ret
  /\ UNCHANGED <<proc, kind, orig, count, total, stop, parts, filled>>

StartScatterRead ==
  /\ proc = "idle"
  /\ \E d \in Data, bl \in BoundedSeq(0 .. MaxLen - 1, 2) :
       orig' = d /\ src' = d /\ parts' = bl
  /\ proc' = "scatter_read" /\ kind' = "slice" /\ filled' = <<>> /\ count' = 0
  /\ UNCHANGED <<sink, room, len, total, stop, ret>>

\* Mutant: the sum is not accumulated.
ScatterReadLoop_noSum ==
  /\ Running("scatter_read")
  /\ \/ (src = <<>> \/ Len(filled) = Len(parts)) /\ Return(Ok(count))
        /\ UNCHANGED <<src, filled, count>>
     \/ src # <<>> /\ Len(filled) < Len(parts)
        /\ LET n == Min2(parts[Len(filled) + 1], Len(src))
           IN  /\ filled' = Append(filled, SubSeq(src, 1, n))
               /\ src' = Drop(src, n) /\ UNCHANGED count
        /\ UNCHANGED ret
  /\ UNCHANGED <<proc, kind, orig, sink, room, len, total, stop, parts>>

(***************************************************************************)
(* &[u8]::scatter_read: while bytes remain and buffers remain, read into  *)
(* the first buffer (lmem::copy, min of the lengths), add to the sum, and *)
(* move to the next buffer; Len(filled) is the number of buffers done.    *)
(***************************************************************************)
ScatterReadLoop ==
  /\ Running("scatter_read")
  /\ \/ (src = <<>> \/ Len(filled) = Len(parts)) /\ Return(Ok(count))
        /\ UNCHANGED <<src, filled, count>>
     \/ src # <<>> /\ Len(filled) < Len(parts)
        /\ LET n == Min2(parts[Len(filled) + 1], Len(src))
           IN  /\ filled' = Append(filled, SubSeq(src, 1, n))
               /\ src' = Drop(src, n) /\ count' = count + n
        /\ UNCHANGED ret
  /\ UNCHANGED <<proc, kind, orig, sink, room, len, total, stop, parts>>

StartGatherWrite ==
  /\ proc = "idle"
  /\ \E ps \in BoundedSeq(BoundedSeq(Bytes, 2), 2), c \in 0 .. MaxLen :
       parts' = ps /\ room' = c /\ orig' = FlattenSeq(ps)
  /\ proc' = "gather_write" /\ kind' = "slice" /\ sink' = <<>> /\ count' = 0
  /\ UNCHANGED <<src, len, total, stop, filled, ret>>

(***************************************************************************)
(* &mut [u8]::gather_write: while the slice has room and pieces remain,   *)
(* write the first piece (lmem::copy), add to the sum, drop the piece.     *)
(***************************************************************************)
GatherWriteLoop ==
  /\ Running("gather_write")
  /\ \/ (room = 0 \/ parts = <<>>) /\ Return(Ok(count))
        /\ UNCHANGED <<sink, room, parts, count>>
     \/ room > 0 /\ parts # <<>>
        /\ \E n \in WriteCounts(Head(parts)) :
             Accept(Head(parts), n) /\ count' = count + n
        /\ parts' = Tail(parts) /\ UNCHANGED ret
  /\ UNCHANGED <<proc, kind, orig, src, len, total, stop, filled>>

StartWriteFmt ==
  /\ proc = "idle"
  /\ \E k \in Kinds, ps \in BoundedSeq(BoundedSeq(Bytes, 2), 2), c \in 0 .. MaxLen :
       kind' = k /\ parts' = ps /\ room' = c /\ orig' = FlattenSeq(ps)
  /\ proc' = "write_fmt" /\ src' = <<>> /\ sink' = <<>> /\ count' = 0
  /\ UNCHANGED <<len, total, stop, filled, ret>>

\* Mutant: the Adaptor's write_str reports success when write_all failed.
WriteFmtLoop_swallow ==
  /\ Running("write_fmt")
  /\ \/ src = <<>> /\ parts = <<>> /\ Return(Ok(0))
        /\ UNCHANGED <<src, sink, room, parts>>
     \/ src = <<>> /\ parts # <<>> /\ Return(Err("noerror")) /\ UNCHANGED <<src, sink, room, parts>>
     \/ src = <<>> /\ parts # <<>>
        /\ src' = Head(parts) /\ parts' = Tail(parts)
        /\ UNCHANGED <<sink, room, ret>>
     \/ src # <<>>
        /\ UNCHANGED parts
        /\ \E n \in WriteCounts(src) :
             CASE n = Failed \/ n = 0 ->
                    src' = <<>> /\ UNCHANGED <<sink, room, ret>>
               [] OTHER ->
                    Accept(src, n) /\ src' = Drop(src, n) /\ UNCHANGED ret
  /\ UNCHANGED <<proc, kind, orig, count, len, total, stop, filled>>

(***************************************************************************)
(* write_fmt_linux: fmt::write hands the pieces of the formatted text to   *)
(* the Adaptor's write_str one at a time, which write_all's each (src is    *)
(* the piece in progress, one step per inner write).  A write_all error     *)
(* is saved in `error` and ends fmt::write, and is returned; a formatting   *)
(* error of an argument's own impl, between pieces, returns Err(NoError).   *)
(***************************************************************************)
WriteFmtLoop ==
  /\ Running("write_fmt")
  /\ \/ src = <<>> /\ parts = <<>> /\ Return(Ok(0))
        /\ UNCHANGED <<src, sink, room, parts>>
     \/ src = <<>> /\ parts # <<>> /\ Return(Err("noerror")) /\ UNCHANGED <<src, sink, room, parts>>
     \/ src = <<>> /\ parts # <<>>
        /\ src' = Head(parts) /\ parts' = Tail(parts)
        /\ UNCHANGED <<sink, room, ret>>
     \/ src # <<>>
        /\ UNCHANGED parts
        /\ \E n \in WriteCounts(src) :
             CASE n = Failed ->
                    Return(Err("io")) /\ UNCHANGED <<src, sink, room>>
               [] n = 0 ->
                    Return(Err("full")) /\ UNCHANGED <<src, sink, room>>
               [] OTHER ->
                    Accept(src, n) /\ src' = Drop(src, n) /\ UNCHANGED ret
  /\ UNCHANGED <<proc, kind, orig, count, len, total, stop, filled>>

\* The caller has taken the result; the next call starts afresh.
Finish ==
  /\ proc # "idle" /\ ret # None
  /\ proc' = "idle" /\ kind' = "slice" /\ orig' = <<>> /\ src' = <<>>
  /\ sink' = <<>> /\ room' = 0 /\ count' = 0 /\ len' = 0 /\ total' = 0
  /\ stop' = NoStop /\ parts' = <<>> /\ filled' = <<>>
  /\ ret' = None

Next ==
  \/ StartReadAll \/ ReadAllLoop
  \/ StartWriteAll \/ WriteAllLoop
  \/ StartCopyUntil \/ CopyUntilLoop
  \/ StartScatterRead \/ ScatterReadLoop
  \/ StartGatherWrite \/ GatherWriteLoop
  \/ StartWriteFmt \/ WriteFmtLoop
  \/ Finish

Spec == Init /\ [][Next]_vars

-----------------------------------------------------------------------------
TypeOK ==
  /\ proc \in Procs \cup {"idle"} /\ kind \in Kinds \cup {"slice"}
  /\ orig \in Seq(Bytes) /\ src \in Data /\ sink \in Seq(Bytes)
  /\ room \in 0 .. MaxLen /\ count \in 0 .. 2 * MaxLen
  /\ len \in 0 .. MaxLen /\ total \in 0 .. MaxLen /\ stop \in Bytes
  /\ filled \in Seq(Data)
  /\ ret \in {None} \cup {Ok(n) : n \in 0 .. 2 * MaxLen}
             \cup {Err(e) : e \in {"io", "full", "noerror"}}

(***************************************************************************)
(* read_all (io.rs, "read until the buffer is full or end of file"): the  *)
(* buffer always holds the stream's bytes in order with none lost or read *)
(* twice, and Ok(n) is returned only with the buffer full or the stream   *)
(* at its end -- a short read of a descriptor must not end the loop.      *)
(***************************************************************************)
ReadAllCorrect ==
  proc = "read_all" =>
    /\ sink \o src = orig /\ count = Len(sink) /\ count <= room
    /\ ret.tag = "ok" => ret.val = count /\ (count = room \/ src = <<>>)

(***************************************************************************)
(* write_all: what the device took and what is still to be written are    *)
(* always the caller's buffer (no byte written twice or skipped); Ok is    *)
(* the whole length; DeviceFull only when a slice writer has no room.      *)
(***************************************************************************)
WriteAllCorrect ==
  proc = "write_all" =>
    /\ sink \o src = orig /\ count = Len(sink)
    /\ ret.tag = "ok" => ret.val = Len(orig) /\ src = <<>>
    /\ ret = Err("full") => kind = "slice" /\ room = 0

(***************************************************************************)
(* copy_until: the writer's bytes and the reader's rest are always the    *)
(* original slice; Ok(n) is the number written, which is everything up to *)
(* and including the first b (or the whole slice) unless the writer        *)
(* filled up.                                                              *)
(***************************************************************************)
CopyUntilCorrect ==
  proc = "copy_until" =>
    /\ sink \o src = orig /\ total - len = Len(sink)
    /\ ret.tag = "ok" =>
         /\ ret.val = Len(sink)
         /\ ret.val = UntilLen(orig, stop) \/ (kind = "slice" /\ room = 0)

(***************************************************************************)
(* Slice scatter_read and gather_write: scatter_read fills the buffers in *)
(* order, each one full before the next is used, and its sum is what it    *)
(* moved; gather_write writes a prefix of the concatenated pieces, all of  *)
(* them unless the slice filled up, and its sum is what it wrote.          *)
(***************************************************************************)
VectorIoCorrect ==
  /\ proc = "scatter_read" =>
       /\ FlattenSeq(filled) \o src = orig
       /\ \A i \in 1 .. Len(filled) - 1 : Len(filled[i]) = parts[i]
       /\ ret.tag = "ok" =>
            /\ ret.val = Len(FlattenSeq(filled))
            /\ src = <<>> \/ Len(filled) = Len(parts)
  /\ proc = "gather_write" =>
       /\ IsPrefix(sink, orig)
       /\ ret.tag = "ok" => ret.val = Len(sink) /\ (sink = orig \/ room = 0)

(***************************************************************************)
(* write_fmt_linux: the bytes the writer took, the piece in progress and  *)
(* the pieces not yet formatted are always the whole text, in order;      *)
(* Ok(()) only when every piece reached the writer (an I/O error of one    *)
(* piece must not be dropped while later pieces go on); DeviceFull only    *)
(* when a slice writer has no room.                                        *)
(***************************************************************************)
WriteFmtCorrect ==
  proc = "write_fmt" =>
    /\ sink \o src \o FlattenSeq(parts) = orig
    /\ ret.tag = "ok" => sink = orig
    /\ ret = Err("full") => kind = "slice" /\ room = 0
=============================================================================

----------------------------- MODULE ByteStrings -----------------------------
(***************************************************************************)
(* The byte-string helpers of src/string: longest_sequence and strlen      *)
(* (util.rs), ByteStr::trim, NoNullStr::split_path and the CStr views that *)
(* are built on them by transmuting slices.                                *)
(*                                                                         *)
(* A slice is a pair <<lo, hi>> of offsets into the buffer `buf` (the      *)
(* bytes lo+1 .. hi), so that a property can ask what lies just past a     *)
(* slice in memory, which is what a CStr relies on.  Octets are integers    *)
(* 0..255; the inputs are drawn from a few representatives of each class   *)
(* the code tells apart.                                                   *)
(***************************************************************************)
EXTENDS Integers, Sequences, SequencesExt

CONSTANTS
  MaxStr,       \* bound on input lengths
  Utf8Bytes,    \* representatives for longest_sequence
  TextBytes,    \* representatives for trim and split_path
  CBytes        \* representatives of a C string's memory (with 0)

Octets == 0 .. 255
Slash == 47                       \* b'/'
Blank == {32, 9}                  \* b' ', b'\t'

Part(s, sl) == SubSeq(s, sl[1] + 1, sl[2])   \* the bytes of slice sl of s

(***************************************************************************)
(* UTF8_CHAR_LEN: 1 for ASCII, 0 for continuation bytes and C0, C1, F5..FF, *)
(* 2 for C2..DF, 3 for E0..EF, 4 for F0..F4.                               *)
(***************************************************************************)
Utf8CharLen(x) ==
  CASE x <= 127              -> 1
    [] x <= 193              -> 0
    [] x <= 223              -> 2
    [] x <= 239              -> 3
    [] x <= 244              -> 4
    [] OTHER                 -> 0

\* u8::leading_zeros and the bitwise not of a u8.
RECURSIVE LeadingZeros(_, _)
LeadingZeros(x, w) == IF w = 0 \/ x >= 2^(w - 1) THEN 0
                      ELSE 1 + LeadingZeros(x, w - 1)
Not8(x) == 255 - x

\* The byte patterns the `match` arms of longest_sequence accept.
In(x, lo, hi) == lo <= x /\ x <= hi
Three(a, b, c) ==
  \/ a = 224 /\ In(b, 160, 191) /\ In(c, 128, 191)
  \/ In(a, 225, 236) /\ In(b, 128, 191) /\ In(c, 128, 191)
  \/ a = 237 /\ In(b, 128, 159) /\ In(c, 128, 191)
Four(a, b, c, d) ==
  \/ a = 240 /\ In(b, 144, 191) /\ In(c, 128, 191) /\ In(d, 128, 191)
  \/ In(a, 241, 243) /\ In(b, 128, 191) /\ In(c, 128, 191) /\ In(d, 128, 191)
  \/ a = 244 /\ In(b, 128, 143) /\ In(c, 128, 191) /\ In(d, 128, 191)

\* Mutant: the continuation byte of a two-byte sequence is not checked.
Accepted_noCont(b, idx, len) ==
  CASE len = 2 -> TRUE
    [] len = 3 -> Three(b[idx + 1], b[idx + 2], b[idx + 3])
    [] len = 4 -> Four(b[idx + 1], b[idx + 2], b[idx + 3], b[idx + 4])

\* Whether the len-byte sequence at offset idx of b passes the checks.
Accepted(b, idx, len) ==
  CASE len = 2 -> LeadingZeros(Not8(b[idx + 2]), 8) = 1
    [] len = 3 -> Three(b[idx + 1], b[idx + 2], b[idx + 3])
    [] len = 4 -> Four(b[idx + 1], b[idx + 2], b[idx + 3], b[idx + 4])

(***************************************************************************)
(* longest_sequence: the loop over idx; a one-byte character advances, an *)
(* invalid lead byte, a truncated or rejected sequence stops the scan.     *)
(* Returns the length of the prefix that is transmuted into &str.          *)
(***************************************************************************)
RECURSIVE Scan(_, _)
Scan(b, idx) ==
  IF idx >= Len(b) THEN idx
  ELSE LET len == Utf8CharLen(b[idx + 1])
       IN  IF len = 1 THEN Scan(b, idx + 1)
           ELSE IF len = 0 \/ idx + len > Len(b) THEN idx
           ELSE IF ~Accepted(b, idx, len) THEN idx
           ELSE Scan(b, idx + len)

LongestSequence(b) == Scan(b, 0)

\* Mutant: the trailing loop is bounded by 0 instead of start.
TrimEnd_unbounded(s, start) ==
  LET RECURSIVE Back(_)
      Back(end) == IF end > 0 /\ s[end] \in Blank THEN Back(end - 1) ELSE end
  IN  Back(Len(s))

\* Mutant: the trailing loop strips only spaces.
TrimEnd_spaceOnly(s, start) ==
  LET RECURSIVE Back(_)
      Back(end) == IF end > start /\ s[end] = 32 THEN Back(end - 1) ELSE end
  IN  Back(Len(s))

(***************************************************************************)
(* ByteStr::trim: `start` skips spaces and tabs forwards, then `end` skips *)
(* them backwards but not past start; the result is self[start..end].      *)
(***************************************************************************)
TrimEnd(s, start) ==
  LET RECURSIVE Back(_)
      Back(end) == IF end > start /\ s[end] \in Blank THEN Back(end - 1) ELSE end
  IN  Back(Len(s))

Trim(s) ==
  LET RECURSIVE Fwd(_)
      Fwd(start) == IF start < Len(s) /\ s[start + 1] \in Blank
                    THEN Fwd(start + 1) ELSE start
  IN  <<Fwd(0), TrimEnd(s, Fwd(0))>>

\* Mutant: memchr (the first slash) instead of memrchr.
SplitPath_firstSlash(s, base) ==
  LET idx == IF Slash \in Range(s)
             THEN (CHOOSE i \in 1 .. Len(s) :
                     s[i] = Slash /\ \A j \in 1 .. i - 1 : s[j] # Slash) - 1
             ELSE -1
  IN  IF idx >= 0 THEN <<<<base, base + idx>>, <<base + idx + 1, base + Len(s)>>>>
      ELSE <<<<0, 0>>, <<base, base + Len(s)>>>>

\* memrchr(b'/', bytes): the offset of the last slash, or -1 (None).
MemRChr(c, s) == IF \E i \in 1 .. Len(s) : s[i] = c
                 THEN (CHOOSE i \in 1 .. Len(s) :
                         s[i] = c /\ \A j \in i + 1 .. Len(s) : s[j] # c) - 1
                 ELSE -1

(***************************************************************************)
(* NoNullStr::split_path: (bytes[..idx], bytes[idx+1..]) around the last  *)
(* slash, or (the empty slice, bytes) without one.  The slices are those  *)
(* of `s`, which starts at offset `base` of the buffer.                    *)
(***************************************************************************)
SplitPath(s, base) ==
  LET idx == MemRChr(Slash, s)
  IN  IF idx >= 0 THEN <<<<base, base + idx>>, <<base + idx + 1, base + Len(s)>>>>
      ELSE <<<<0, 0>>, <<base, base + Len(s)>>>>

(***************************************************************************)
(* util::strlen: count bytes up to the first 0.  CStr::from_ptr views the  *)
(* strlen bytes at ptr; bytes_with_null extends any CStr view by one byte; *)
(* CStr::split_path transmutes the NoNullStr split of the view, so the     *)
(* file part is taken to be a CStr as well.                                *)
(***************************************************************************)
Strlen(mem) == LET RECURSIVE Count(_)
                   Count(i) == IF mem[i + 1] = 0 THEN i ELSE Count(i + 1)
               IN  Count(0)

FromPtr(mem)         == <<0, Strlen(mem)>>
\* Mutant: bytes_with_null without the + 1.
BytesWithNull_noNul(sl) == <<sl[1], sl[2]>>
BytesWithNull(sl)    == <<sl[1], sl[2] + 1>>
CStrFile(mem, sl)    == SplitPath(Part(mem, sl), sl[1])[2]

-----------------------------------------------------------------------------
Ops == {"longest_sequence", "trim", "split_path", "cstr"}

\* The inputs of each operation; a C string's memory holds a 0 somewhere
\* (from_ptr's precondition).
Inputs(o) ==
  CASE o = "longest_sequence" -> BoundedSeq(Utf8Bytes, MaxStr)
    [] o = "cstr" -> {m \in BoundedSeq(CBytes, MaxStr + 1) : 0 \in Range(m)}
    [] OTHER -> BoundedSeq(TextBytes, MaxStr)

\* The result of operation o on input b.
Apply(o, b) ==
  CASE o = "longest_sequence" -> LongestSequence(b)
    [] o = "trim"             -> Trim(b)
    [] o = "split_path"       -> SplitPath(b, 0)
    [] o = "cstr"             -> <<FromPtr(b), CStrFile(b, FromPtr(b))>>

VARIABLES sop, buf, res

svars == <<sop, buf, res>>

SInit == sop = "none" /\ buf = <<>> /\ res = 0

StrCall == /\ sop = "none"
        /\ \E o \in Ops : \E b \in Inputs(o) :
             sop' = o /\ buf' = b /\ res' = Apply(o, b)

StrReturn == sop # "none" /\ sop' = "none" /\ buf' = <<>> /\ res' = 0

SNext == StrCall \/ StrReturn

SSpec == SInit /\ [][SNext]_svars

-----------------------------------------------------------------------------
\* A slice of b: offsets with 0 <= lo <= hi <= Len(b) (else the code panics).
IsSlice(sl, b) == sl[1] \in 0 .. sl[2] /\ sl[2] \in 0 .. Len(b)

StrTypeOK ==
  /\ sop \in Ops \cup {"none"} /\ buf \in Seq(Octets)
  /\ sop = "longest_sequence" => res \in 0 .. Len(buf)
  /\ sop \in {"trim"} => IsSlice(res, buf)
  /\ sop \in {"split_path", "cstr"} => IsSlice(res[1], buf) /\ IsSlice(res[2], buf)

(***************************************************************************)
(* The reference: well-formed UTF-8 (Unicode, table 3-7), one character at *)
(* a time.                                                                 *)
(***************************************************************************)
C == <<128, 191>>   \* the continuation range
Utf8Rows ==
  { << <<0, 127>> >>,
    << <<194, 223>>, C >>,
    << <<224, 224>>, <<160, 191>>, C >>, << <<225, 236>>, C, C >>,
    << <<237, 237>>, <<128, 159>>, C >>, << <<238, 239>>, C, C >>,
    << <<240, 240>>, <<144, 191>>, C, C >>, << <<241, 243>>, C, C, C >>,
    << <<244, 244>>, <<128, 143>>, C, C >> }

WellFormedChar(c) ==
  \E r \in Utf8Rows : Len(r) = Len(c) /\ \A i \in 1 .. Len(c) : In(c[i], r[i][1], r[i][2])

RECURSIVE ValidUtf8(_)
ValidUtf8(s) ==
  \/ s = <<>>
  \/ \E k \in 1 .. 4 : k <= Len(s) /\ WellFormedChar(SubSeq(s, 1, k))
                      /\ ValidUtf8(SubSeq(s, k + 1, Len(s)))

LongestValidPrefix(s) == Max({k \in 0 .. Len(s) : ValidUtf8(SubSeq(s, 1, k))})

(***************************************************************************)
(* longest_sequence transmutes b[..idx] into &str without a check: that   *)
(* prefix must be valid UTF-8, or safe code holds an invalid str.          *)
(***************************************************************************)
Utf8Sound == sop = "longest_sequence" => ValidUtf8(SubSeq(buf, 1, res))

(***************************************************************************)
(* util.rs doc comment: "Returns the longest initial sequence of valid     *)
(* UTF-8".  The three-byte match has no arm for the lead bytes EE and EF,  *)
(* so U+E000..U+FFFF end the sequence.                                     *)
(***************************************************************************)
LongestSequenceMaximal ==
  sop = "longest_sequence" => res = LongestValidPrefix(buf)

(***************************************************************************)
(* trim (doc comment: removes spaces and tabs from the start and end): the *)
(* result neither starts nor ends with a blank and everything cut off is   *)
(* blank.                                                                  *)
(***************************************************************************)
TrimCorrect ==
  sop = "trim" =>
    LET t == Part(buf, res)
    IN  /\ t # <<>> => t[1] \notin Blank /\ t[Len(t)] \notin Blank
        /\ \A i \in (1 .. res[1]) \cup (res[2] + 1 .. Len(buf)) : buf[i] \in Blank

(***************************************************************************)
(* split_path: the file part holds no slash; with a slash, dir, the slash  *)
(* and file make up the path, without one dir is empty and file the path.  *)
(***************************************************************************)
SplitPathCorrect ==
  sop = "split_path" =>
    LET d == Part(buf, res[1])
        f == Part(buf, res[2])
    IN  /\ Slash \notin Range(f)
        /\ IF Slash \in Range(buf) THEN d \o <<Slash>> \o f = buf
           ELSE d = <<>> /\ f = buf

(***************************************************************************)
(* The CStr invariant, "exactly one null byte at the very end", for the    *)
(* view from_ptr makes and for the file part CStr::split_path transmutes   *)
(* into a CStr: the bytes of bytes_with_null end in 0 and hold no other 0. *)
(***************************************************************************)
CStrViewsTerminated ==
  sop = "cstr" =>
    \A sl \in {res[1], res[2]} :
      LET w == Part(buf, BytesWithNull(sl))
      IN  Len(w) >= 1 /\ w[Len(w)] = 0 /\ \A i \in 1 .. Len(w) - 1 : w[i] # 0
=============================================================================

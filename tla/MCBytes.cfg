\* I/O loops: bytes {0, 1}, streams, buffers and slices of up to 4 bytes.
\* Strings: representatives of each byte class the code tells apart --
\* ASCII 'A', the edges of the continuation sub-ranges, the invalid leads
\* C0 and F5 and every lead byte the code or Unicode singles out; blanks,
\* '/' and 0.  Memory: a 4-bit address space, buffers of up to 9 bytes,
\* every alignment up to 8.  POD: arrays on both sides of the 32 limit.
CONSTANTS
  Bytes = {0, 1}
  MaxLen = 4
  Kinds = {"slice", "fd"}
  MaxStr = 4
  Utf8Bytes = {65, 128, 143, 144, 159, 160, 191, 192, 194, 224, 225, 237, 238, 240, 241, 244, 245}
  TextBytes = {9, 32, 47, 65}
  CBytes = {0, 47, 65}
  AddrBits = 4
  MaxBuf = 9
  Aligns = {1, 2, 4, 8}
  Sizes = {0, 1, 4, 8}
  ArrayLens = {1, 32, 33}
  MaxFields = 2
SPECIFICATION BytesSpec
INVARIANTS
  TypeOK ReadAllCorrect WriteAllCorrect CopyUntilCorrect VectorIoCorrect WriteFmtCorrect
  StrTypeOK Utf8Sound TrimCorrect SplitPathCorrect CStrViewsTerminated
  MTypeOK AlignForCorrect AlignedFromBytes
  PodDeriveSound KtyDerivesBuild
  KTypeOK IocRoundTrip IoctlCmdsMatchKernel LayoutMatchesKernel
  ArgsReachKernel PreservedAsDeclared

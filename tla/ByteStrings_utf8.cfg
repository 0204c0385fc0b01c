\* Every byte string of up to 4 representatives: U+E000..U+FFFF (lead
\* bytes EE, EF) is valid UTF-8 that longest_sequence stops at.
\* Representatives: ASCII 'A', the edges of the continuation sub-ranges,
\* an invalid lead (C0), and every lead byte the code or Unicode singles out.
CONSTANTS
  MaxStr = 4
  Utf8Bytes = {65, 128, 143, 144, 159, 160, 191, 192, 194, 224, 225, 237, 238, 240, 241, 244, 245}
  TextBytes = {9, 32, 47, 65}
  CBytes = {0, 47, 65}
SPECIFICATION SSpec
INVARIANT LongestSequenceMaximal

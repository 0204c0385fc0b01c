SPECIFICATION Spec
SYMMETRY SlotSymmetry
CONSTANTS
  Slots = {s1, s2, s3}
  MaxFd = 4
  MaxDesc = 5
  Mins = {0, 4}
  UnownedDuplicates = TRUE
INVARIANT DescriptorsHaveOwner

SPECIFICATION Spec
CONSTANTS
  Bits = 6
  NanosPerMicro = 2
  MicrosPerSec = 4
  NanosPerMilli = 4
  MillisPerSec = 2
  SecsPerMin = 3
  MinsPerHour = 2
  HoursPerDay = 2
  NanoInputs <- MCNanoInputs
INVARIANT ArithmeticExact

SPECIFICATION SpecWithReceivers
CONSTANTS
  Objects = {o1, o2, o3}
  Strings = {s}
  Cells = {c1, c2, c3}
  CountBits = 3
  MaxSurplus = 1
INVARIANT HeldAlive

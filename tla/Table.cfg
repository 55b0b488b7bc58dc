SPECIFICATION Spec
CONSTANTS
  name = name
  Strings = {name}
  Numbers <- SmallNumbers
  Values = {a, b}
  Null = Null
  MaxLength = 3
SYMMETRY Symmetry
INVARIANTS TypeOK ForEachExact
PROPERTIES AssignExact FreeExact InsertShifts ShadowedByInsert

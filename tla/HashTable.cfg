SPECIFICATION Spec
CONSTANTS
  Colliding = {k1, k2, k3}
  other = other
  v0 = v0
  v1 = v1
  Keys = {k1, k2, k3, other}
  Values = {v0, v1}
  Default = v0
  Hash <- SmallHash
  Lists <- SmallLists
  Others <- SmallOthers
  Requests = {6}
  MaxCapacity = 20
SYMMETRY Symmetry
INVARIANTS TypeOK ChainsSound HolesFree SizeExact IterationExact RehashFits
PROPERTIES NothingLost EntriesStay IsMap

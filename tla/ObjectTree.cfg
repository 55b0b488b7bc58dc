SPECIFICATION Spec
CONSTANTS
  Paths <- SmallPaths
  Props = {"x"}
CHECK_DEADLOCK FALSE
INVARIANTS TypeOK RootsLinked HeirsInherit OriginsSound TopDownInherits

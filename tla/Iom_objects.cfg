SPECIFICATION Spec
CONSTANTS
  Variables = {x, y}
  Cells = {1, 2, 3, 4}
  Keys = {"a", "b"}
  Texts = {p, q}
  Indexes = {0, 1}
  Fields = {0, 1}
  MaxValues = 2
  Paths <- SomePaths
SYMMETRY Alike
INVARIANTS
  LookupsAgree
  Acyclic
PROPERTIES
  SharedStays
  ImplementsValues

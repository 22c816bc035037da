SPECIFICATION Spec
CONSTANTS
  MaxFailures = 1
  MaxErrors = 2
  MaxObjects = 1
INVARIANTS
  ReadsEverything
  OutputKept
  WritesEverything
  BasketsWhole
  MeaningKept
  LostOnlyIfUnclear
  WritesModelData
PROPERTIES
  ErrorsAreFinal

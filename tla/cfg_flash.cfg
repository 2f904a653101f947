\* One operation at a time, with a loss of power at any moment.
SPECIFICATION Spec
CONSTANTS
  NumTables = 2
  NumFields = 2
  K = 3
  NumSectors = 2
  Tasks = {"cli"}
  Alone = TRUE
  MaxGen = 2
  MaxOps = 2
INVARIANTS
  SavedIsLoaded
  

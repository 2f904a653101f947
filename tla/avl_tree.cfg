\* Enough keys for all rotations and for a deletion that rotates twice.
SPECIFICATION Spec
CONSTANTS
  Keys = {1, 2, 3, 4, 5, 6, 7, 8, 9, 10, 11, 12}
  one = one
  two = two
  Clients = {one, two}
  Wanted <- MostByOne
VIEW ByKey
INVARIANTS
  Shape
  
PROPERTIES
  IsTable


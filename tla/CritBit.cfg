\* Eight nodes: trees of four orders, three branches deep, and a fifth order
\* for which there is a node for its leaf but none for its parent.
CONSTANTS
  NumNodes = 8
  KeyBits = 3
  Keys = {0, 1, 2, 5, 7}
  Quantities = {1}
  None = None
  OutOfSpace = OutOfSpace
SPECIFICATION Spec
INVARIANTS
  TypeOK
  check_invariants
  BootMakesRoom
PROPERTIES
  IsOrderedMap

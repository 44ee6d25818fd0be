\* Three transports; none is created in a callback of one whose creation failed.
SPECIFICATION Spec
CONSTANTS
  t1 = t1
  t2 = t2
  t3 = t3
  Transports = {t1, t2, t3}
  NestedCreation = FALSE
  MaxHeard = 4
SYMMETRY Symmetry
INVARIANTS
  TypeOK
  CounterExact
  Ready
  SharedWhileUsed
  HandlersInOrder

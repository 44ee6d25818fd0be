SPECIFICATION Spec
CONSTANTS
  t1 = t1
  t2 = t2
  Transports = {t1, t2}
  App = App
  Nobody = Nobody
  Descriptors = {0, 1, 2}
  AskedPorts = {0, 7}
  BufferFails = FALSE
  StartInDetach = FALSE
SYMMETRY Symmetry
INVARIANTS
  TypeOK
  OwnDescriptorsOnly
  ListensWhileOpen
  NoSocketLeft

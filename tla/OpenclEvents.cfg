SPECIFICATION Spec
CONSTANTS
  Matrices = {m1, m2, m3}
  Buffers = {b1, b2, b3}
  NoBuffer = NoBuffer
  MaxCommands = 3
SYMMETRY Symmetric
INVARIANTS
  TypeOK
  ConflictsInOrder
  FreedMemoryIsIdle

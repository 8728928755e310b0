SPECIFICATION Spec
CONSTANTS
  Main = Main
  Workers = {w1}
  Users = {u1}
  Observers = {o1, o2}
  Tapes = {a1, a2, a3}
  Scopes = {s1, s2, s3}
  MaxFrames = 4
  Null = Null
SYMMETRY Symmetric
INVARIANTS
  TypeOK
  TapesServeTheirThread
  OneOwnerPerTape
PROPERTIES
  WorkKeepsItsTape

SPECIFICATION Spec
CONSTANTS
  Threads = {t1, t2, t3}
  Keys = {k1, k2}
  Buffers = {b1, b2, b3, b4, b5, b6, b7, b8}
  Nothing = nothing
SYMMETRY Interchangeable
INVARIANTS
  NoStrayKeys
  KeysSurviveFinish

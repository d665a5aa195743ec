SPECIFICATION Spec
CONSTANTS
  Val = {v1, v2, v3}
  Nil = Nil
  RingSize = 3
PROPERTY ImplementsQueue

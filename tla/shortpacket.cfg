SPECIFICATION Spec
CONSTANTS
  SeqSpace = 64
  Nil = nil
  Zeros = zeros
  Garbage = garbage
INVARIANT ShortIsError
CHECK_DEADLOCK FALSE

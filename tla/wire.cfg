SPECIFICATION Spec
CONSTANTS
  SeqSpace = 64
  Nil = nil
  Zeros = zeros
  Garbage = garbage
INVARIANTS MatchesMachineArithmetic OrderWithinHalf RoundTrip SignatureSurvives SignatureCovers
CHECK_DEADLOCK FALSE
